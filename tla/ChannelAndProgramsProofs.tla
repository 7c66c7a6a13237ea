------------------------ MODULE ChannelAndProgramsProofs -----------------------
(***************************************************************************)
(* Proofs about the Channel: types, NobodyWaitsInVain, that it implements   *)
(* Fifo, and ResumedOnce, for any capacity, operations and executors.       *)
(* ResumedOnce needs that the lists name nobody twice and only operations   *)
(* that are suspended (Resuming), and that nobody is lost (NobodyIsLost),   *)
(* that each of the operations is where its state says (InPlace).           *)
(*                                                                         *)
(* About the registration of nodes: WaitSeesRegistration and                *)
(* AssociatedIffListed, for any number of executors, threads and nodes and  *)
(* any order of their calls, and so for every program of ProgramRuns.  The  *)
(* first needs that who changes a list behind a wait is still to trigger a  *)
(* guard condition of it, or has (Told); the second, that a node that is    *)
(* associated is either listed by one executor or carried by one call       *)
(* (OneClaim).  About the ends of the programs: ProgramsEnd, from what the   *)
(* 15 scripts keep to (ScriptsAssumption) and EndInv.                       *)
(*                                                                         *)
(* About the tuners of the GPU programs: AwaitBelowKernel, for any times of *)
(* kernels (TunerInv).  And about alloc_exe: AllocationFollowsGraph, for    *)
(* any graph without a cycle; the layers are sound at any moment, and after *)
(* as many turns as there are nodes all is laid out (Sound, LaidOut).       *)
(***************************************************************************)
EXTENDS Channel, ProgramRuns, SequenceTheorems, FiniteSetTheorems, TLAPS

USE OpsAssumption

------------------------------------------------------------------------------
(* Lists.                                                                   *)

LEMMA RemoveAtSeq ==
  ASSUME NEW S, NEW s \in Seq(S), NEW k \in 1..Len(s)
  PROVE  /\ RemoveAt(s, k) \in Seq(S) /\ Len(RemoveAt(s, k)) = Len(s) - 1
         /\ \A i \in 1..(Len(s) - 1) : RemoveAt(s, k)[i] = IF i < k THEN s[i] ELSE s[i + 1]
<1> DEFINE a == SubSeq(s, 1, k - 1)  b == SubSeq(s, k + 1, Len(s))
<1>1. Len(s) \in Nat OBVIOUS
<1>2. /\ a \in Seq(S) /\ Len(a) = k - 1
      /\ \A i \in 1..(k - 1) : a[i] = s[i]
  BY <1>1, SubSeqProperties
<1>3. /\ b \in Seq(S) /\ Len(b) = Len(s) - k
      /\ \A i \in 1..(Len(s) - k) : b[i] = s[k + i]
  BY <1>1, SubSeqProperties
<1>4. RemoveAt(s, k) = a \o b BY DEF RemoveAt
<1> HIDE DEF a, b
<1>5. a \o b \in Seq(S) /\ Len(a \o b) = Len(s) - 1
  <2>1. a \o b \in Seq(S) /\ Len(a \o b) = Len(a) + Len(b)
    BY <1>2, <1>3, ConcatProperties, ZenonT(60)
  <2>2. QED BY <1>1, <1>2, <1>3, <2>1
<1>6. ASSUME NEW i \in 1..(Len(s) - 1)
      PROVE  (a \o b)[i] = IF i < k THEN s[i] ELSE s[i + 1]
  <2>1. CASE i < k
    <3>1. i \in 1..Len(a) BY <1>2, <2>1
    <3>2. (a \o b)[i] = a[i] BY <1>2, <1>3, <3>1
    <3>3. QED BY <1>2, <2>1, <3>2
  <2>2. CASE ~(i < k)
    <3>1. i - Len(a) \in 1..Len(b) /\ i > Len(a) BY <1>1, <1>2, <1>3, <2>2
    <3>2. (a \o b)[i] = b[i - Len(a)] BY <1>2, <1>3, <3>1, SMTT(30)
    <3>3. i - Len(a) = i - k + 1 /\ i - k + 1 \in 1..(Len(s) - k) /\ k + (i - k + 1) = i + 1
      BY <1>1, <1>2, <1>3, <3>1
    <3>4. QED BY <1>3, <2>2, <3>2, <3>3
  <2>3. QED BY <2>1, <2>2
<1>7. QED BY <1>4, <1>5, <1>6

\* Removing from the second part of a concatenation.
LEMMA RemoveAtConcat ==
  ASSUME NEW S, NEW s \in Seq(S), NEW t \in Seq(S), NEW k \in 1..Len(t)
  PROVE  s \o RemoveAt(t, k) = RemoveAt(s \o t, Len(s) + k)
<1> DEFINE u == s \o t  n == Len(s)  x == s \o RemoveAt(t, k)  y == RemoveAt(u, n + k)
<1>1. n \in Nat /\ Len(t) \in Nat /\ u \in Seq(S) /\ Len(u) = n + Len(t) OBVIOUS
<1>2. n + k \in 1..Len(u) BY <1>1
<1>3. /\ RemoveAt(t, k) \in Seq(S) /\ Len(RemoveAt(t, k)) = Len(t) - 1
      /\ \A i \in 1..(Len(t) - 1) : RemoveAt(t, k)[i] = IF i < k THEN t[i] ELSE t[i + 1]
  BY RemoveAtSeq
<1>4. /\ y \in Seq(S) /\ Len(y) = n + Len(t) - 1
      /\ \A i \in 1..(n + Len(t) - 1) : y[i] = IF i < n + k THEN u[i] ELSE u[i + 1]
  <2> HIDE DEF u, n
  <2>1. /\ y \in Seq(S) /\ Len(y) = Len(u) - 1
        /\ \A i \in 1..(Len(u) - 1) : y[i] = IF i < n + k THEN u[i] ELSE u[i + 1]
    BY <1>1, <1>2, RemoveAtSeq
  <2> HIDE DEF y
  <2>2. QED BY <1>1, <2>1
<1>5. x \in Seq(S) /\ Len(x) = n + Len(t) - 1
  <2>1. x \in Seq(S) /\ Len(x) = Len(s) + Len(RemoveAt(t, k)) BY <1>3, ConcatProperties
  <2>2. QED BY <1>1, <1>3, <2>1
<1>6. \A i \in 1..n : x[i] = s[i] /\ u[i] = s[i] BY <1>3
<1>7. \A i \in 1..(Len(t) - 1) : x[n + i] = RemoveAt(t, k)[i] BY <1>3
<1>8. \A i \in 1..Len(t) : u[n + i] = t[i] OBVIOUS
<1> HIDE DEF x, y, u, n
<1>9. ASSUME NEW i \in 1..Len(x) PROVE x[i] = y[i]
  <2>1. i \in 1..(n + Len(t) - 1) BY <1>5
  <2>2. y[i] = IF i < n + k THEN u[i] ELSE u[i + 1] BY <1>4, <2>1
  <2>3. CASE i <= n
    <3>1. i \in 1..n /\ i < n + k BY <1>1, <2>1, <2>3
    <3>2. QED BY <1>6, <2>2, <3>1
  <2>4. CASE i > n
    <3> DEFINE j == i - n
    <3>1. j \in 1..(Len(t) - 1) /\ i = n + j /\ i + 1 = n + (j + 1) BY <1>1, <2>1, <2>4
    <3>2. x[i] = IF j < k THEN t[j] ELSE t[j + 1] BY <1>3, <1>7, <3>1
    <3>3. u[i] = t[j] /\ u[i + 1] = t[j + 1]
      <4>1. j \in 1..Len(t) /\ j + 1 \in 1..Len(t) BY <1>1, <3>1
      <4> HIDE DEF j
      <4>2. QED BY <1>8, <3>1, <4>1
    <3>4. i < n + k <=> j < k BY <1>1, <3>1
    <3>5. QED BY <2>2, <3>2, <3>3, <3>4
  <2>5. QED BY <1>1, <2>1, <2>3, <2>4
<1>10. x = y BY <1>4, <1>5, <1>9, SeqEqual
<1>11. QED BY <1>10 DEF x, y, u, n

\* Without removes one element or none.
LEMMA WithoutSeq ==
  ASSUME NEW S, NEW s \in Seq(S), NEW o
  PROVE  /\ Without(s, o) \in Seq(S)
         /\ s = <<>> => Without(s, o) = <<>>
         /\ ToSet(Without(s, o)) \subseteq ToSet(s)
         /\ Without(s, o) = s \/ \E k \in 1..Len(s) : Without(s, o) = RemoveAt(s, k)
<1>1. CASE o \notin ToSet(s)
  BY <1>1 DEF Without
<1>2. CASE o \in ToSet(s)
  <2> DEFINE k == CHOOSE j \in DOMAIN s : s[j] = o
  <2>1. \E j \in DOMAIN s : s[j] = o BY <1>2 DEF ToSet
  <2>2. k \in DOMAIN s BY <2>1
  <2>3. k \in 1..Len(s) /\ Without(s, o) = RemoveAt(s, k) BY <1>2, <2>2 DEF Without
  <2> HIDE DEF k
  <2>4. /\ RemoveAt(s, k) \in Seq(S) /\ Len(RemoveAt(s, k)) = Len(s) - 1
        /\ \A i \in 1..(Len(s) - 1) : RemoveAt(s, k)[i] = IF i < k THEN s[i] ELSE s[i + 1]
    BY <2>3, RemoveAtSeq
  <2>5. \A i \in 1..(Len(s) - 1) : RemoveAt(s, k)[i] \in ToSet(s)
    BY <2>3, <2>4, SMTT(30) DEF ToSet
  <2>6. ToSet(RemoveAt(s, k)) \subseteq ToSet(s) BY <2>4, <2>5 DEF ToSet
  <2>7. s # <<>> BY <2>3
  <2>8. QED BY <2>3, <2>4, <2>6, <2>7
<1>3. QED BY <1>1, <1>2

LEMMA ToSetFacts ==
  ASSUME NEW S, NEW s \in Seq(S), NEW e
  PROVE  /\ e \in S => ToSet(Append(s, e)) = ToSet(s) \cup {e}
         /\ s # <<>> => ToSet(Tail(s)) \subseteq ToSet(s) /\ Head(s) \in ToSet(s)
         /\ \A t \in Seq(S) : ToSet(s \o t) = ToSet(s) \cup ToSet(t)
<1>1. e \in S => ToSet(Append(s, e)) = ToSet(s) \cup {e}
  <2> SUFFICES ASSUME e \in S PROVE ToSet(Append(s, e)) = ToSet(s) \cup {e}
    OBVIOUS
  <2>1. DOMAIN Append(s, e) = 1..(Len(s) + 1) /\ Len(s) \in Nat /\ DOMAIN s = 1..Len(s) OBVIOUS
  <2>2. Append(s, e)[Len(s) + 1] = e /\ \A i \in 1..Len(s) : Append(s, e)[i] = s[i] OBVIOUS
  <2>3. QED BY <2>1, <2>2 DEF ToSet
<1>2. s # <<>> => ToSet(Tail(s)) \subseteq ToSet(s) /\ Head(s) \in ToSet(s)
  <2> SUFFICES ASSUME s # <<>> PROVE ToSet(Tail(s)) \subseteq ToSet(s) /\ Head(s) \in ToSet(s)
    OBVIOUS
  <2>1. Len(s) \in Nat /\ Len(s) > 0 /\ DOMAIN s = 1..Len(s) OBVIOUS
  <2>2. Head(s) = s[1] /\ DOMAIN Tail(s) = 1..(Len(s) - 1) OBVIOUS
  <2>3. \A i \in 1..(Len(s) - 1) : Tail(s)[i] = s[i + 1] OBVIOUS
  <2>4. QED BY <2>1, <2>2, <2>3 DEF ToSet
<1>3. ASSUME NEW t \in Seq(S) PROVE ToSet(s \o t) = ToSet(s) \cup ToSet(t)
  <2>1. /\ DOMAIN (s \o t) = 1..(Len(s) + Len(t)) /\ Len(s) \in Nat /\ Len(t) \in Nat
        /\ DOMAIN s = 1..Len(s) /\ DOMAIN t = 1..Len(t)
    OBVIOUS
  <2>2. \A i \in 1..Len(s) : (s \o t)[i] = s[i] OBVIOUS
  <2>3. \A i \in 1..Len(t) : (s \o t)[Len(s) + i] = t[i] OBVIOUS
  <2>4. ASSUME NEW i \in 1..(Len(s) + Len(t)) PROVE (s \o t)[i] \in ToSet(s) \cup ToSet(t)
    <3>1. CASE i <= Len(s) BY <2>1, <2>2, <3>1 DEF ToSet
    <3>2. CASE i > Len(s)
      <4>1. i - Len(s) \in 1..Len(t) /\ i = Len(s) + (i - Len(s)) BY <2>1, <3>2
      <4>2. (s \o t)[i] = t[i - Len(s)] BY <2>3, <4>1
      <4>3. QED BY <2>1, <4>1, <4>2 DEF ToSet
    <3>3. QED BY <2>1, <3>1, <3>2
  <2>5. \A i \in 1..Len(s) : s[i] \in ToSet(s \o t)
    BY <2>1, <2>2 DEF ToSet
  <2>6. ASSUME NEW i \in 1..Len(t) PROVE t[i] \in ToSet(s \o t)
    <3>1. Len(s) + i \in 1..(Len(s) + Len(t)) BY <2>1
    <3>2. QED BY <2>1, <2>3, <3>1 DEF ToSet
  <2>7. QED BY <2>1, <2>4, <2>5, <2>6 DEF ToSet
<1>4. QED BY <1>1, <1>2, <1>3

------------------------------------------------------------------------------
(* Types.                                                                   *)

LEMMA ResumeType ==
  \A o \in Ops, v \in Writers \cup {None} :
    /\ Resume(o, v) \in Resumes /\ <<Resume(o, v)>> \in Seq(Resumes)
    /\ \A p \in Ops, u \in Writers \cup {None} : <<Resume(o, v), Resume(p, u)>> \in Seq(Resumes)
  BY DEF Resume, Resumes

LEMMA ResumeAllType ==
  ASSUME NEW s \in Seq(Ops)
  PROVE  ResumeAll(s) \in Seq(Resumes)
<1>1. DOMAIN s = 1..Len(s) /\ Len(s) \in Nat /\ \A k \in 1..Len(s) : s[k] \in Ops OBVIOUS
<1>2. \A k \in 1..Len(s) : Resume(s[k], None) \in Resumes BY <1>1, ResumeType
<1>3. QED BY <1>1, <1>2, IsASeq DEF ResumeAll

LEMMA HeadTailType ==
  ASSUME NEW S, NEW s \in Seq(S), s # <<>>
  PROVE  Head(s) \in S /\ Tail(s) \in Seq(S)
  OBVIOUS

\* A read or a write, with the lists, the resumes and the history it leaves.
LEMMA QueueTypes ==
  ASSUME ChannelTypeOK
  PROVE  /\ \A r \in Readers : ReadBuffered(r) \/ ReadDirect(r) =>
              /\ buffer' \in Seq(Writers) /\ writer_list' \in Seq(Writers)
              /\ reader_list' \in Seq(Readers) /\ handed' \in Seq(Writers)
              /\ todo' \in [Callers -> Seq(Resumes)]
         /\ \A w \in Writers : Write(w) =>
              /\ buffer' \in Seq(Writers) /\ writer_list' \in Seq(Writers)
              /\ reader_list' \in Seq(Readers) /\ handed' \in Seq(Writers)
              /\ todo' \in [Callers -> Seq(Resumes)]
<1>0. /\ buffer \in Seq(Writers) /\ writer_list \in Seq(Writers) /\ reader_list \in Seq(Readers)
      /\ handed \in Seq(Writers) /\ todo \in [Callers -> Seq(Resumes)]
      /\ Writers \subseteq Ops /\ Readers \subseteq Ops /\ Ops \subseteq Callers
  BY DEF ChannelTypeOK, Ops, Callers
<1>1. buffer # <<>> => Head(buffer) \in Writers /\ Tail(buffer) \in Seq(Writers) BY <1>0, HeadTailType
<1>2. writer_list # <<>> => Head(writer_list) \in Writers /\ Tail(writer_list) \in Seq(Writers)
  BY <1>0, HeadTailType
<1>3. reader_list # <<>> => Head(reader_list) \in Readers /\ Tail(reader_list) \in Seq(Readers)
  BY <1>0, HeadTailType
<1>4. \A c \in Callers, x \in Seq(Resumes) : [todo EXCEPT ![c] = x] \in [Callers -> Seq(Resumes)]
  BY <1>0
<1>5. ASSUME NEW r \in Readers, ReadBuffered(r) \/ ReadDirect(r)
      PROVE  /\ buffer' \in Seq(Writers) /\ writer_list' \in Seq(Writers)
             /\ reader_list' \in Seq(Readers) /\ handed' \in Seq(Writers)
             /\ todo' \in [Callers -> Seq(Resumes)]
  <2>1. CASE ReadBuffered(r)
    <3>0. Head(buffer) \in Writers /\ Tail(buffer) \in Seq(Writers) BY <1>1, <2>1 DEF ReadBuffered
    <3>1. CASE writer_list # <<>>
      <4>1. /\ buffer' = Append(Tail(buffer), Head(writer_list)) /\ writer_list' = Tail(writer_list)
            /\ todo' = [todo EXCEPT ![r] = <<Resume(Head(writer_list), None), Resume(r, Head(buffer))>>]
            /\ handed' = Append(handed, Head(buffer)) /\ reader_list' = reader_list
        BY <2>1, <3>1 DEF ReadBuffered
      <4>2. <<Resume(Head(writer_list), None), Resume(r, Head(buffer))>> \in Seq(Resumes)
        BY <1>0, <1>2, <3>0, <3>1, ResumeType
      <4>3. todo' \in [Callers -> Seq(Resumes)] BY <1>0, <1>4, <4>1, <4>2
      <4>4. QED BY <1>0, <1>2, <3>0, <3>1, <4>1, <4>3
    <3>2. CASE writer_list = <<>>
      <4>1. /\ buffer' = Tail(buffer) /\ writer_list' = writer_list
            /\ todo' = [todo EXCEPT ![r] = <<Resume(r, Head(buffer))>>]
            /\ handed' = Append(handed, Head(buffer)) /\ reader_list' = reader_list
        BY <2>1, <3>2 DEF ReadBuffered
      <4>2. <<Resume(r, Head(buffer))>> \in Seq(Resumes) BY <1>0, <3>0, ResumeType
      <4>3. todo' \in [Callers -> Seq(Resumes)] BY <1>0, <1>4, <4>1, <4>2
      <4>4. QED BY <1>0, <3>0, <4>1, <4>3
    <3>3. QED BY <3>1, <3>2
  <2>2. CASE ReadDirect(r)
    <3>1. CASE writer_list # <<>>
      <4>1. /\ writer_list' = Tail(writer_list) /\ handed' = Append(handed, Head(writer_list))
            /\ todo' = [todo EXCEPT ![r] = <<Resume(r, Head(writer_list)), Resume(Head(writer_list), None)>>]
            /\ buffer' = buffer /\ reader_list' = reader_list
        BY <2>2, <3>1 DEF ReadDirect
      <4>2. <<Resume(r, Head(writer_list)), Resume(Head(writer_list), None)>> \in Seq(Resumes)
        BY <1>0, <1>2, <3>1, ResumeType
      <4>3. todo' \in [Callers -> Seq(Resumes)] BY <1>0, <1>4, <4>1, <4>2
      <4>4. QED BY <1>0, <1>2, <3>1, <4>1, <4>3
    <3>2. CASE writer_list = <<>>
      <4>1. reader_list' = Append(reader_list, r) /\ UNCHANGED <<writer_list, todo, handed, buffer>>
        BY <2>2, <3>2 DEF ReadDirect
      <4>2. QED BY <1>0, <4>1
    <3>3. QED BY <3>1, <3>2
  <2>3. QED BY <1>5, <2>1, <2>2
<1>6. ASSUME NEW w \in Writers, Write(w)
      PROVE  /\ buffer' \in Seq(Writers) /\ writer_list' \in Seq(Writers)
             /\ reader_list' \in Seq(Readers) /\ handed' \in Seq(Writers)
             /\ todo' \in [Callers -> Seq(Resumes)]
  <2>1. CASE reader_list # <<>>
    <3>1. /\ reader_list' = Tail(reader_list) /\ handed' = Append(handed, w)
          /\ todo' = [todo EXCEPT ![w] = <<Resume(Head(reader_list), w), Resume(w, None)>>]
          /\ UNCHANGED <<buffer, writer_list>>
      BY <1>6, <2>1 DEF Write
    <3>2. <<Resume(Head(reader_list), w), Resume(w, None)>> \in Seq(Resumes)
      BY <1>0, <1>3, <2>1, ResumeType
    <3>3. todo' \in [Callers -> Seq(Resumes)] BY <1>0, <1>4, <3>1, <3>2
    <3>4. QED BY <1>0, <1>3, <2>1, <3>1, <3>3
  <2>2. CASE reader_list = <<>> /\ HasRoom
    <3>1. /\ buffer' = Append(buffer, w) /\ todo' = [todo EXCEPT ![w] = <<Resume(w, None)>>]
          /\ UNCHANGED <<writer_list, reader_list, handed>>
      BY <1>6, <2>2 DEF Write
    <3>2. <<Resume(w, None)>> \in Seq(Resumes) BY <1>0, ResumeType
    <3>3. todo' \in [Callers -> Seq(Resumes)] BY <1>0, <1>4, <3>1, <3>2
    <3>4. QED BY <1>0, <3>1, <3>3
  <2>3. CASE reader_list = <<>> /\ ~HasRoom
    <3>1. writer_list' = Append(writer_list, w) /\ UNCHANGED <<buffer, reader_list, todo, handed>>
      BY <1>6, <2>3 DEF Write
    <3>2. QED BY <1>0, <3>1
  <2>4. QED BY <2>1, <2>2, <2>3
<1>7. QED BY <1>5, <1>6

LEMMA GotoType ==
  ASSUME ChannelTypeOK, NEW o \in Ops, NEW s \in States, Goto(o, s)
  PROVE  st' \in [Ops -> States]
  BY DEF ChannelTypeOK, Goto

LEMMA TypeStep == ChannelTypeOK /\ [ChannelNext]_channelVars => ChannelTypeOK'
<1> SUFFICES ASSUME ChannelTypeOK, [ChannelNext]_channelVars PROVE ChannelTypeOK'
  OBVIOUS
<1>1. ASSUME NEW o \in Ops, Create(o) \/ SuspendThrows(o) \/ Run(o) PROVE ChannelTypeOK'
  <2>1. \E s \in States : Goto(o, s) BY <1>1 DEF Create, SuspendThrows, Run, States
  <2>2. st' \in [Ops -> States] BY <2>1, GotoType
  <2>3. UNCHANGED <<buffer_capacity, is_active, qVars, channel_lock, todo, nested, result, closing, handed>>
    BY <1>1 DEF Create, SuspendThrows, Run
  <2>4. QED BY <2>2, <2>3 DEF ChannelTypeOK, qVars
<1>2. ASSUME NEW o \in Ops, Unwind(o) \/ Destroy(o) PROVE ChannelTypeOK'
  <2>1. \E s \in States : Goto(o, s) BY <1>2 DEF Unwind, Destroy, States
  <2>2. st' \in [Ops -> States] BY <2>1, GotoType
  <2>3. /\ writer_list' = Without(writer_list, o) /\ reader_list' = Without(reader_list, o)
        /\ UNCHANGED <<buffer_capacity, is_active, buffer, channel_lock, todo, nested, result, closing, handed>>
    BY <1>2 DEF Unwind, Destroy, RemoveOp
  <2>4. writer_list' \in Seq(Writers) /\ reader_list' \in Seq(Readers)
    BY <2>3, WithoutSeq DEF ChannelTypeOK
  <2>5. QED BY <2>2, <2>3, <2>4 DEF ChannelTypeOK
<1>3. ASSUME NEW r \in Readers, try_push_reader(r) PROVE ChannelTypeOK'
  <2>1. st' \in [Ops -> States]
    <3>1. Goto(r, "suspended") /\ r \in Ops /\ "suspended" \in States
      BY <1>3 DEF try_push_reader, Ops, States
    <3>2. QED BY <3>1, GotoType
  <2>2. ReadBuffered(r) \/ ReadDirect(r) BY <1>3 DEF try_push_reader
  <2>3. /\ buffer' \in Seq(Writers) /\ writer_list' \in Seq(Writers)
        /\ reader_list' \in Seq(Readers) /\ handed' \in Seq(Writers)
        /\ todo' \in [Callers -> Seq(Resumes)]
    BY <2>2, QueueTypes
  <2>4. UNCHANGED <<buffer_capacity, is_active, channel_lock, nested, result, closing>> BY <1>3 DEF try_push_reader
  <2>5. QED BY <2>1, <2>3, <2>4 DEF ChannelTypeOK
<1>4. ASSUME NEW w \in Writers, try_push_writer(w) PROVE ChannelTypeOK'
  <2>1. st' \in [Ops -> States]
    <3>1. Goto(w, "suspended") /\ w \in Ops /\ "suspended" \in States
      BY <1>4 DEF try_push_writer, Ops, States
    <3>2. QED BY <3>1, GotoType
  <2>2. Write(w) BY <1>4 DEF try_push_writer
  <2>3. /\ buffer' \in Seq(Writers) /\ writer_list' \in Seq(Writers)
        /\ reader_list' \in Seq(Readers) /\ handed' \in Seq(Writers)
        /\ todo' \in [Callers -> Seq(Resumes)]
    BY <2>2, QueueTypes
  <2>4. UNCHANGED <<buffer_capacity, is_active, channel_lock, nested, result, closing>> BY <1>4 DEF try_push_writer
  <2>5. QED BY <2>1, <2>3, <2>4 DEF ChannelTypeOK
<1>5. ASSUME NEW c \in Callers, Dispatch(c) PROVE ChannelTypeOK'
  <2> DEFINE t == Head(todo[c])
  <2>1. todo[c] \in Seq(Resumes) /\ todo[c] # <<>> BY <1>5 DEF Dispatch, ChannelTypeOK
  <2>2. t \in Resumes /\ Tail(todo[c]) \in Seq(Resumes) BY <2>1, HeadTailType
  <2>3. t.op \in Ops /\ t.value \in Writers \cup {None} BY <2>2 DEF Resumes
  <2>4. /\ Goto(t.op, "posted") /\ result' = [result EXCEPT ![t.op] = t.value]
        /\ nested' = [nested EXCEPT ![c] = IF t.op \in Inline THEN t.op ELSE None]
        /\ todo' = [todo EXCEPT ![c] = Tail(@)]
        /\ UNCHANGED <<buffer_capacity, is_active, qVars, channel_lock, closing, handed>>
    BY <1>5 DEF Dispatch
  <2> HIDE DEF t
  <2>5. st' \in [Ops -> States] BY <2>3, <2>4, GotoType DEF States
  <2>6. result' \in [Ops -> Writers \cup {None}] BY <2>3, <2>4 DEF ChannelTypeOK
  <2>7. nested' \in [Callers -> Ops \cup {None}] BY <2>3, <2>4 DEF ChannelTypeOK
  <2>8. todo' \in [Callers -> Seq(Resumes)] BY <2>2, <2>4 DEF ChannelTypeOK
  <2>9. QED BY <2>4, <2>5, <2>6, <2>7, <2>8 DEF ChannelTypeOK, qVars
<1>6. CASE StoreClosed BY <1>6 DEF StoreClosed, ChannelTypeOK, qVars
<1>7. CASE CleanUp
  <2>1. writer_list \o reader_list \in Seq(Ops)
    <3>1. writer_list \in Seq(Ops) /\ reader_list \in Seq(Ops)
      BY SeqMonotonic DEF ChannelTypeOK, Ops
    <3>2. QED BY <3>1, ConcatProperties
  <2>2. ResumeAll(writer_list \o reader_list) \in Seq(Resumes) BY <2>1, ResumeAllType
  <2>3. todo' \in [Callers -> Seq(Resumes)] BY <1>7, <2>2 DEF CleanUp, ChannelTypeOK
  <2>4. /\ channel_lock' = Close /\ closing' = "resume"
        /\ buffer' = <<>> /\ writer_list' = <<>> /\ reader_list' = <<>>
        /\ UNCHANGED <<buffer_capacity, is_active, st, nested, result, handed>>
    BY <1>7 DEF CleanUp
  <2>5. QED BY <2>3, <2>4 DEF ChannelTypeOK
<1>8. CASE CleanUpReturns BY <1>8 DEF CleanUpReturns, ChannelTypeOK, qVars
<1>9. CASE UNCHANGED channelVars BY <1>9 DEF channelVars, ChannelTypeOK, qVars
<1>10. QED BY <1>1, <1>2, <1>3, <1>4, <1>5, <1>6, <1>7, <1>8, <1>9 DEF ChannelNext, Step

------------------------------------------------------------------------------
(* Order.                                                                   *)

\* A value that is not written yet is nowhere in the channel.
Fresh ==
  \A w \in Writers : st[w] \in {"new", "created"} =>
    w \notin ToSet(buffer) \cup ToSet(writer_list) \cup ToSet(handed)

IInv == ChannelTypeOK /\ NobodyWaitsInVain /\ Fresh

\* The front of the buffer is the front of what is pending.
LEMMA FrontOfConcat ==
  ASSUME NEW S, NEW s \in Seq(S), NEW t \in Seq(S), s # <<>>
  PROVE  s \o t # <<>> /\ Head(s \o t) = Head(s) /\ Tail(s \o t) = Tail(s) \o t
<1>1. Len(s) \in Nat /\ Len(s) > 0 /\ Len(t) \in Nat OBVIOUS
<1>2. s \o t \in Seq(S) /\ Len(s \o t) = Len(s) + Len(t) BY ConcatProperties
<1>3. s \o t # <<>> /\ Head(s \o t) = Head(s) BY <1>1, <1>2
<1>4. /\ Tail(s) \in Seq(S) /\ Len(Tail(s)) = Len(s) - 1
      /\ \A i \in 1..(Len(s) - 1) : Tail(s)[i] = s[i + 1]
  OBVIOUS
<1>5. /\ Tail(s \o t) \in Seq(S) /\ Len(Tail(s \o t)) = Len(s) + Len(t) - 1
      /\ \A i \in 1..(Len(s) + Len(t) - 1) : Tail(s \o t)[i] = (s \o t)[i + 1]
  BY <1>1, <1>2, <1>3
<1>6. Tail(s) \o t \in Seq(S) /\ Len(Tail(s) \o t) = Len(s) - 1 + Len(t)
  BY <1>4, ConcatProperties
<1>7. \A i \in 1..(Len(s) + Len(t) - 1) : Tail(s \o t)[i] = (Tail(s) \o t)[i]
  <2> TAKE i \in 1..(Len(s) + Len(t) - 1)
  <2>1. CASE i <= Len(s) - 1
    <3>1. (Tail(s) \o t)[i] = Tail(s)[i] BY <1>1, <1>4, <2>1
    <3>2. (s \o t)[i + 1] = s[i + 1] BY <1>1, <2>1
    <3>3. QED BY <1>1, <1>4, <1>5, <2>1, <3>1, <3>2
  <2>2. CASE i > Len(s) - 1
    <3>1. (Tail(s) \o t)[i] = t[i - (Len(s) - 1)] BY <1>1, <1>4, <2>2
    <3>2. (s \o t)[i + 1] = t[i + 1 - Len(s)] BY <1>1, <2>2
    <3>3. QED BY <1>1, <1>5, <3>1, <3>2
  <2>3. QED BY <1>1, <2>1, <2>2
<1>8. QED BY <1>1, <1>3, <1>5, <1>6, <1>7, SeqEqual

\* Moving the first element of the second part to the end of the first.
LEMMA ShiftOne ==
  ASSUME NEW S, NEW s \in Seq(S), NEW t \in Seq(S), t # <<>>
  PROVE  Append(s, Head(t)) \o Tail(t) = s \o t
<1>1. Head(t) \in S /\ Tail(t) \in Seq(S) /\ t = <<Head(t)>> \o Tail(t) OBVIOUS
<1>2. Append(s, Head(t)) = s \o <<Head(t)>> BY <1>1
<1>3. <<Head(t)>> \in Seq(S) BY <1>1
<1>4. (s \o <<Head(t)>>) \o Tail(t) = s \o (<<Head(t)>> \o Tail(t)) BY <1>1, <1>3, ConcatAssociative, SMTT(30)
<1>5. QED BY <1>1, <1>2, <1>4

LEMMA AppendConcat ==
  ASSUME NEW S, NEW s \in Seq(S), NEW t \in Seq(S), NEW e \in S
  PROVE  s \o Append(t, e) = Append(s \o t, e)
<1>1. Append(t, e) = t \o <<e>> /\ s \o t \in Seq(S) /\ <<e>> \in Seq(S) OBVIOUS
<1>2. Append(s \o t, e) = (s \o t) \o <<e>> BY <1>1
<1>3. QED BY <1>1, <1>2, ConcatAssociative

\* Steps that leave the values where they are.
LEMMA QuietStep ==
  ASSUME IInv, ChannelTypeOK', UNCHANGED <<buffer_capacity, buffer, writer_list, reader_list, handed>>,
         \A w \in Writers : st'[w] \in {"new", "created"} => st[w] \in {"new", "created"}
  PROVE  IInv' /\ UNCHANGED Abstract!vars
<1>1. NobodyWaitsInVain' BY DEF IInv, NobodyWaitsInVain
<1>2. Fresh' BY DEF IInv, Fresh
<1>3. UNCHANGED Abstract!vars BY DEF Abstract!vars
<1>4. QED BY <1>1, <1>2, <1>3 DEF IInv

\* st' after a step of one operation to a state it cannot leave for "new".
LEMMA GotoFresh ==
  ASSUME ChannelTypeOK, NEW o \in Ops, NEW s, Goto(o, s),
         s \in {"new", "created"} => st[o] \in {"new", "created"}
  PROVE  \A w \in Writers : st'[w] \in {"new", "created"} => st[w] \in {"new", "created"}
  BY DEF ChannelTypeOK, Goto, Ops

\* An awaiter leaves its list: nobody else's position changes.
LEMMA RemoveStep ==
  ASSUME IInv, ChannelTypeOK', NEW o \in Ops, RemoveOp(o), UNCHANGED <<buffer_capacity, handed>>,
         \A w \in Writers : st'[w] \in {"new", "created"} => st[w] \in {"new", "created"}
  PROVE  IInv' /\ [Abstract!Next]_(Abstract!vars)
<1>1. /\ writer_list' = Without(writer_list, o) /\ reader_list' = Without(reader_list, o)
      /\ buffer' = buffer
  BY DEF RemoveOp
<1>2. buffer \in Seq(Writers) /\ writer_list \in Seq(Writers) /\ reader_list \in Seq(Readers)
  BY DEF IInv, ChannelTypeOK
<1>3. /\ writer_list = <<>> => writer_list' = <<>>
      /\ ToSet(writer_list') \subseteq ToSet(writer_list)
      /\ writer_list' = writer_list \/ \E k \in 1..Len(writer_list) : writer_list' = RemoveAt(writer_list, k)
  BY <1>1, <1>2, WithoutSeq
<1>4. reader_list = <<>> => reader_list' = <<>> BY <1>1, <1>2, WithoutSeq
<1>5. NobodyWaitsInVain' BY <1>1, <1>3, <1>4 DEF IInv, NobodyWaitsInVain
<1>6. Fresh' BY <1>1, <1>3 DEF IInv, Fresh
<1>7. CASE writer_list' = writer_list
  <2>1. UNCHANGED Abstract!vars BY <1>1, <1>7 DEF Abstract!vars
  <2>2. QED BY <1>5, <1>6, <2>1 DEF IInv
<1>8. CASE \E k \in 1..Len(writer_list) : writer_list' = RemoveAt(writer_list, k)
  <2> PICK k \in 1..Len(writer_list) : writer_list' = RemoveAt(writer_list, k) BY <1>8
  <2>1. buffer' \o writer_list' = RemoveAt(buffer \o writer_list, Len(buffer) + k)
    BY <1>1, <1>2, RemoveAtConcat
  <2>2. Len(buffer) + k \in DOMAIN (buffer \o writer_list)
    <3>1. /\ buffer \o writer_list \in Seq(Writers)
          /\ Len(buffer \o writer_list) = Len(buffer) + Len(writer_list)
      BY <1>2, ConcatProperties
    <3>2. Len(buffer) + k \in 1..(Len(buffer) + Len(writer_list)) BY <1>2, SMTT(30)
    <3>3. QED BY <3>1, <3>2
  <2>3. Abstract!Withdraw(Len(buffer) + k) BY <2>1 DEF Abstract!Withdraw, Abstract!RemoveAt, RemoveAt
  <2>4. Abstract!Next BY <2>2, <2>3 DEF Abstract!Next
  <2>5. QED BY <1>5, <1>6, <2>4 DEF IInv
<1>9. QED BY <1>3, <1>7, <1>8

\* A read hands over the first pending value, or waits.
LEMMA ReadStep ==
  ASSUME IInv, ChannelTypeOK', NEW r \in Readers, ReadBuffered(r) \/ ReadDirect(r),
         UNCHANGED buffer_capacity,
         \A w \in Writers : st'[w] \in {"new", "created"} => st[w] \in {"new", "created"}
  PROVE  IInv' /\ [Abstract!Next]_(Abstract!vars)
<1>0. /\ buffer \in Seq(Writers) /\ writer_list \in Seq(Writers) /\ handed \in Seq(Writers)
      /\ reader_list \in Seq(Readers) /\ Len(buffer) \in Nat
      /\ buffer_capacity \in Nat
  BY DEF IInv, ChannelTypeOK
<1>1. CASE buffer # <<>> /\ writer_list # <<>>
  <2>1. /\ buffer' = Append(Tail(buffer), Head(writer_list)) /\ writer_list' = Tail(writer_list)
        /\ handed' = Append(handed, Head(buffer)) /\ reader_list' = reader_list
    BY <1>1 DEF ReadBuffered, ReadDirect
  <2>2. /\ Head(buffer) \in Writers /\ Tail(buffer) \in Seq(Writers)
        /\ Head(writer_list) \in Writers /\ Tail(writer_list) \in Seq(Writers)
    BY <1>0, <1>1, HeadTailType
  <2>3. buffer' \o writer_list' = Tail(buffer) \o writer_list
    BY <1>0, <1>1, <2>1, <2>2, ShiftOne
  <2>4. /\ buffer \o writer_list # <<>> /\ Head(buffer \o writer_list) = Head(buffer)
        /\ Tail(buffer \o writer_list) = Tail(buffer) \o writer_list
    BY <1>0, <1>1, FrontOfConcat
  <2>5. Abstract!Deliver BY <2>1, <2>3, <2>4 DEF Abstract!Deliver
  <2>6. Len(buffer') = Len(buffer)
    <3>1. Len(Tail(buffer)) = Len(buffer) - 1 BY <1>0, <1>1
    <3>2. Len(buffer') = Len(Tail(buffer)) + 1 BY <2>1, <2>2
    <3>3. QED BY <1>0, <3>1, <3>2
  <2>7. NobodyWaitsInVain' BY <1>0, <1>1, <2>1, <2>6 DEF IInv, NobodyWaitsInVain
  <2>8. /\ ToSet(buffer') \subseteq ToSet(buffer) \cup ToSet(writer_list)
        /\ ToSet(writer_list') \subseteq ToSet(writer_list)
        /\ ToSet(handed') \subseteq ToSet(handed) \cup ToSet(buffer)
    <3>1. ToSet(buffer') = ToSet(Tail(buffer)) \cup {Head(writer_list)} BY <2>1, <2>2, ToSetFacts
    <3>2. ToSet(handed') = ToSet(handed) \cup {Head(buffer)} BY <1>0, <2>1, <2>2, ToSetFacts
    <3>3. ToSet(Tail(buffer)) \subseteq ToSet(buffer) /\ Head(buffer) \in ToSet(buffer)
      BY <1>0, <1>1, ToSetFacts
    <3>4. ToSet(Tail(writer_list)) \subseteq ToSet(writer_list) /\ Head(writer_list) \in ToSet(writer_list)
      BY <1>0, <1>1, ToSetFacts
    <3>5. QED BY <2>1, <3>1, <3>2, <3>3, <3>4
  <2>9. Fresh' BY <2>8 DEF IInv, Fresh
  <2>10. QED BY <2>5, <2>7, <2>9 DEF IInv, Abstract!Next
<1>2. CASE buffer # <<>> /\ writer_list = <<>>
  <2>1. /\ buffer' = Tail(buffer) /\ writer_list' = writer_list
        /\ handed' = Append(handed, Head(buffer)) /\ reader_list' = reader_list
    BY <1>2 DEF ReadBuffered, ReadDirect
  <2>2. Head(buffer) \in Writers /\ Tail(buffer) \in Seq(Writers) BY <1>0, <1>2, HeadTailType
  <2>3. /\ buffer \o writer_list # <<>> /\ Head(buffer \o writer_list) = Head(buffer)
        /\ Tail(buffer \o writer_list) = Tail(buffer) \o writer_list
    BY <1>0, <1>2, FrontOfConcat
  <2>4. Abstract!Deliver BY <2>1, <2>3 DEF Abstract!Deliver
  <2>5. Len(buffer') = Len(buffer) - 1 BY <1>0, <1>2, <2>1
  <2>6. NobodyWaitsInVain' BY <1>0, <1>2, <2>1, <2>5 DEF IInv, NobodyWaitsInVain
  <2>7. ToSet(buffer') \subseteq ToSet(buffer) /\ ToSet(handed') \subseteq ToSet(handed) \cup ToSet(buffer)
    <3>1. ToSet(handed') = ToSet(handed) \cup {Head(buffer)} BY <1>0, <2>1, <2>2, ToSetFacts
    <3>2. ToSet(Tail(buffer)) \subseteq ToSet(buffer) /\ Head(buffer) \in ToSet(buffer)
      BY <1>0, <1>2, ToSetFacts
    <3>3. QED BY <2>1, <3>1, <3>2
  <2>8. Fresh' BY <2>1, <2>7 DEF IInv, Fresh
  <2>9. QED BY <2>4, <2>6, <2>8 DEF IInv, Abstract!Next
<1>3. CASE buffer = <<>> /\ writer_list # <<>>
  <2>1. /\ writer_list' = Tail(writer_list) /\ handed' = Append(handed, Head(writer_list))
        /\ buffer' = buffer /\ reader_list' = reader_list
    BY <1>3 DEF ReadBuffered, ReadDirect
  <2>2. Head(writer_list) \in Writers /\ Tail(writer_list) \in Seq(Writers)
    BY <1>0, <1>3, HeadTailType
  <2>3. buffer \o writer_list = writer_list /\ buffer' \o writer_list' = Tail(writer_list)
    BY <1>0, <1>3, <2>1, <2>2, ConcatEmptySeq
  <2>4. Abstract!Deliver BY <1>3, <2>1, <2>3 DEF Abstract!Deliver
  <2>5. NobodyWaitsInVain' BY <1>3, <2>1 DEF IInv, NobodyWaitsInVain
  <2>6. /\ ToSet(writer_list') \subseteq ToSet(writer_list)
        /\ ToSet(handed') \subseteq ToSet(handed) \cup ToSet(writer_list)
    <3>1. ToSet(handed') = ToSet(handed) \cup {Head(writer_list)} BY <1>0, <2>1, <2>2, ToSetFacts
    <3>2. ToSet(Tail(writer_list)) \subseteq ToSet(writer_list) /\ Head(writer_list) \in ToSet(writer_list)
      BY <1>0, <1>3, ToSetFacts
    <3>3. QED BY <2>1, <3>1, <3>2
  <2>7. Fresh' BY <2>1, <2>6 DEF IInv, Fresh
  <2>8. QED BY <2>4, <2>5, <2>7 DEF IInv, Abstract!Next
<1>4. CASE buffer = <<>> /\ writer_list = <<>>
  <2>1. UNCHANGED <<buffer, writer_list, handed>> BY <1>4 DEF ReadBuffered, ReadDirect
  <2>2. NobodyWaitsInVain' BY <1>4, <2>1 DEF IInv, NobodyWaitsInVain
  <2>3. Fresh' BY <2>1 DEF IInv, Fresh
  <2>4. UNCHANGED Abstract!vars BY <2>1 DEF Abstract!vars
  <2>5. QED BY <2>2, <2>3, <2>4 DEF IInv
<1>5. QED BY <1>1, <1>2, <1>3, <1>4

\* A write ends up behind all pending values, or with a reader when there is none.
LEMMA WriteStep ==
  ASSUME IInv, ChannelTypeOK', NEW w \in Writers, Write(w), st[w] = "created", Goto(w, "suspended"),
         UNCHANGED buffer_capacity
  PROVE  IInv' /\ [Abstract!Next]_(Abstract!vars)
<1>0. /\ buffer \in Seq(Writers) /\ writer_list \in Seq(Writers) /\ handed \in Seq(Writers)
      /\ reader_list \in Seq(Readers) /\ Len(buffer) \in Nat
      /\ buffer_capacity \in Nat
  BY DEF IInv, ChannelTypeOK
<1>1. w \notin ToSet(buffer) \cup ToSet(writer_list) \cup ToSet(handed) BY DEF IInv, Fresh
<1>2. ToSet(buffer \o writer_list) = ToSet(buffer) \cup ToSet(writer_list) BY <1>0, ToSetFacts
<1>3. w \notin Abstract!Written BY <1>1, <1>2 DEF Abstract!Written, Abstract!ToSet, ToSet
<1>4. /\ st'[w] = "suspended" /\ \A v \in Writers \ {w} : st'[v] = st[v]
  BY DEF IInv, ChannelTypeOK, Goto, Ops
<1>5. ASSUME ToSet(buffer') \cup ToSet(writer_list') \cup ToSet(handed')
               \subseteq ToSet(buffer) \cup ToSet(writer_list) \cup ToSet(handed) \cup {w}
      PROVE  Fresh'
  BY <1>4, <1>5 DEF IInv, Fresh
<1>6. CASE reader_list # <<>>
  <2>1. /\ reader_list' = Tail(reader_list) /\ handed' = Append(handed, w)
        /\ UNCHANGED <<buffer, writer_list>>
    BY <1>6 DEF Write
  <2>2. buffer = <<>> /\ writer_list = <<>> BY <1>6 DEF IInv, NobodyWaitsInVain
  <2>3. buffer \o writer_list = <<>> BY <1>0, <2>2, ConcatEmptySeq
  <2>4. Abstract!WriteThrough(w) BY <1>3, <2>1, <2>3 DEF Abstract!WriteThrough
  <2>5. NobodyWaitsInVain' BY <2>1, <2>2 DEF IInv, NobodyWaitsInVain
  <2>6. ToSet(handed') = ToSet(handed) \cup {w} BY <1>0, <2>1, ToSetFacts
  <2>7. Fresh' BY <1>5, <2>1, <2>6
  <2>8. QED BY <2>4, <2>5, <2>7 DEF IInv, Abstract!Next
<1>7. CASE reader_list = <<>> /\ HasRoom
  <2>1. buffer' = Append(buffer, w) /\ UNCHANGED <<writer_list, reader_list, handed>>
    BY <1>7 DEF Write
  <2>2. Len(buffer) < buffer_capacity /\ writer_list = <<>>
    BY <1>0, <1>7 DEF HasRoom, IInv, NobodyWaitsInVain
  <2>3. buffer \o writer_list = buffer /\ buffer' \o writer_list' = Append(buffer, w)
    <3>1. Append(buffer, w) \in Seq(Writers) BY <1>0
    <3>2. QED BY <1>0, <2>1, <2>2, <3>1, ConcatEmptySeq
  <2>4. Abstract!Write(w) BY <1>3, <2>1, <2>3 DEF Abstract!Write
  <2>5. Len(buffer') = Len(buffer) + 1 BY <1>0, <2>1
  <2>6. NobodyWaitsInVain' BY <1>0, <1>7, <2>1, <2>2, <2>5 DEF IInv, NobodyWaitsInVain
  <2>7. ToSet(buffer') = ToSet(buffer) \cup {w} BY <1>0, <2>1, ToSetFacts
  <2>8. Fresh' BY <1>5, <2>1, <2>7
  <2>9. QED BY <2>4, <2>6, <2>8 DEF IInv, Abstract!Next
<1>8. CASE reader_list = <<>> /\ ~HasRoom
  <2>1. writer_list' = Append(writer_list, w) /\ UNCHANGED <<buffer, reader_list, handed>>
    BY <1>8 DEF Write
  <2>2. buffer' \o writer_list' = Append(buffer \o writer_list, w) BY <1>0, <2>1, AppendConcat
  <2>3. Abstract!Write(w) BY <1>3, <2>1, <2>2 DEF Abstract!Write
  <2>4. NobodyWaitsInVain' BY <1>0, <1>8, <2>1 DEF HasRoom, IInv, NobodyWaitsInVain
  <2>5. ToSet(writer_list') = ToSet(writer_list) \cup {w} BY <1>0, <2>1, ToSetFacts
  <2>6. Fresh' BY <1>5, <2>1, <2>5
  <2>7. QED BY <2>3, <2>4, <2>6 DEF IInv, Abstract!Next
<1>9. QED BY <1>6, <1>7, <1>8

\* Every step keeps the invariant and is a step of Fifo, or changes nothing of it.
LEMMA FifoStep == IInv /\ [ChannelNext]_channelVars => IInv' /\ [Abstract!Next]_(Abstract!vars)
<1> SUFFICES ASSUME IInv, [ChannelNext]_channelVars PROVE IInv' /\ [Abstract!Next]_(Abstract!vars)
  OBVIOUS
<1>0. ChannelTypeOK /\ ChannelTypeOK' BY TypeStep DEF IInv
<1>1. ASSUME NEW o \in Ops, Create(o) \/ SuspendThrows(o) \/ Run(o)
      PROVE  IInv' /\ UNCHANGED Abstract!vars
  <2>1. UNCHANGED <<buffer_capacity, buffer, writer_list, reader_list, handed>>
    BY <1>1 DEF Create, SuspendThrows, Run, qVars
  <2>2. \E s \in States : Goto(o, s) /\ (s \in {"new", "created"} => st[o] \in {"new", "created"})
    BY <1>1 DEF Create, SuspendThrows, Run, States
  <2>3. QED BY <1>0, <2>1, <2>2, GotoFresh, QuietStep
<1>2. ASSUME NEW o \in Ops, Unwind(o) \/ Destroy(o)
      PROVE  IInv' /\ [Abstract!Next]_(Abstract!vars)
  <2>1. RemoveOp(o) /\ UNCHANGED <<buffer_capacity, handed>> BY <1>2 DEF Unwind, Destroy
  <2>2. \E s \in {"threw", "destroyed"} : Goto(o, s) BY <1>2 DEF Unwind, Destroy
  <2>3. \A w \in Writers : st'[w] \in {"new", "created"} => st[w] \in {"new", "created"}
    BY <1>0, <2>2, GotoFresh
  <2>4. QED BY <1>0, <2>1, <2>3, RemoveStep
<1>3. ASSUME NEW r \in Readers, try_push_reader(r)
      PROVE  IInv' /\ [Abstract!Next]_(Abstract!vars)
  <2>1. /\ ReadBuffered(r) \/ ReadDirect(r)
        /\ Goto(r, "suspended") /\ UNCHANGED buffer_capacity
    BY <1>3 DEF try_push_reader
  <2>2. \A w \in Writers : st'[w] \in {"new", "created"} => st[w] \in {"new", "created"}
    BY <1>0, <2>1, GotoFresh DEF Ops
  <2>3. QED BY <1>0, <2>1, <2>2, ReadStep
<1>4. ASSUME NEW w \in Writers, try_push_writer(w)
      PROVE  IInv' /\ [Abstract!Next]_(Abstract!vars)
  BY <1>0, <1>4, WriteStep DEF try_push_writer
<1>5. ASSUME NEW c \in Callers, Dispatch(c) PROVE IInv' /\ UNCHANGED Abstract!vars
  <2> DEFINE o == Head(todo[c]).op
  <2>1. UNCHANGED <<buffer_capacity, buffer, writer_list, reader_list, handed>> BY <1>5 DEF Dispatch, qVars
  <2>2. o \in Ops
    <3>1. todo[c] \in Seq(Resumes) /\ todo[c] # <<>> BY <1>0, <1>5 DEF Dispatch, ChannelTypeOK
    <3>2. Head(todo[c]) \in Resumes BY <3>1, HeadTailType
    <3>3. QED BY <3>2 DEF Resumes
  <2>3. Goto(o, "posted") BY <1>5 DEF Dispatch
  <2> HIDE DEF o
  <2>4. \A w \in Writers : st'[w] \in {"new", "created"} => st[w] \in {"new", "created"}
    BY <1>0, <2>2, <2>3, GotoFresh
  <2>5. QED BY <1>0, <2>1, <2>4, QuietStep
<1>6. CASE StoreClosed \/ CleanUpReturns \/ UNCHANGED channelVars
  <2>1. UNCHANGED <<buffer_capacity, buffer, writer_list, reader_list, handed, st>>
    BY <1>6 DEF StoreClosed, CleanUpReturns, channelVars, qVars
  <2>2. QED BY <1>0, <2>1, QuietStep
<1>7. CASE CleanUp
  <2>1. /\ buffer' = <<>> /\ writer_list' = <<>> /\ reader_list' = <<>> 
        /\ UNCHANGED <<buffer_capacity, st, handed>>
    BY <1>7 DEF CleanUp
  <2>2. buffer' \o writer_list' = <<>> BY <2>1, ConcatEmptySeq, EmptySeq
  <2>3. Abstract!DropAll BY <2>1, <2>2 DEF Abstract!DropAll
  <2>4. NobodyWaitsInVain' BY <1>0, <2>1 DEF NobodyWaitsInVain, ChannelTypeOK
  <2>5. ToSet(buffer') = {} /\ ToSet(writer_list') = {} BY <2>1 DEF ToSet
  <2>6. Fresh' BY <2>1, <2>5 DEF IInv, Fresh
  <2>7. QED BY <1>0, <2>3, <2>4, <2>6 DEF IInv, Abstract!Next
<1>8. QED BY <1>1, <1>2, <1>3, <1>4, <1>5, <1>6, <1>7 DEF ChannelNext, Step

LEMMA Initial == ChannelInit => IInv /\ Abstract!Init
<1> SUFFICES ASSUME ChannelInit PROVE IInv /\ Abstract!Init
  OBVIOUS
<1>1. ChannelTypeOK BY CapacityAssumption DEF ChannelInit, ChannelTypeOK, States
<1>2. NobodyWaitsInVain BY CapacityAssumption DEF ChannelInit, NobodyWaitsInVain
<1>3. Fresh BY DEF ChannelInit, Fresh, ToSet
<1>4. buffer \o writer_list = <<>> BY ConcatEmptySeq, EmptySeq DEF ChannelInit
<1>5. Abstract!Init BY <1>4 DEF ChannelInit, Abstract!Init
<1>6. QED BY <1>1, <1>2, <1>3, <1>5 DEF IInv

LEMMA Invariant == ChannelSpec => []IInv
  BY Initial, FifoStep, PTL DEF ChannelSpec

\* Every reachable state of the channel has its types.
THEOREM ChannelTypes == ChannelSpec => []ChannelTypeOK
<1>1. IInv => ChannelTypeOK BY DEF IInv
<1>2. QED BY <1>1, Invariant, PTL

\* For every capacity, zero included, a reader is suspended only while there
\* is no value, a writer only while the buffer is full, and the buffer never
\* exceeds its capacity.
THEOREM ChannelWaits == ChannelSpec => []NobodyWaitsInVain
<1>1. IInv => NobodyWaitsInVain BY DEF IInv
<1>2. QED BY <1>1, Invariant, PTL

\* The channel implements Fifo: values reach the readers in the order of the
\* writes and once each, through try_push_reader, try_push_writer, the removal
\* of awaiters and close(), in any interleaving.
THEOREM ChannelImplementsFifo == ChannelSpec => ImplementsFifo
  BY Initial, FifoStep, Invariant, PTL DEF ChannelSpec, ImplementsFifo, Abstract!Spec

------------------------------------------------------------------------------
(* Resumption.                                                              *)

\* A list names nobody twice.
Distinct(q) == \A i, j \in 1..Len(q) : q[i] = q[j] => i = j

\* The operations that the callers in td still have to resume.
Due(td) == {o \in Ops : \E c \in Callers : \E j \in 1..Len(td[c]) : td[c][j].op = o}

\* No operation is to be resumed by two callers, or twice by one.
Single(td) ==
  \A c, d \in Callers : \A j \in 1..Len(td[c]), k \in 1..Len(td[d]) :
    td[c][j].op = td[d][k].op => c = d /\ j = k

SuspendedOps == {o \in Ops : st[o] = "suspended"}

\* Who waits in a list and who is about to be resumed is suspended, nobody is
\* both, and nobody is either one twice.
Resuming ==
  /\ Distinct(writer_list) /\ Distinct(reader_list) /\ Single(todo)
  /\ ToSet(writer_list) \cup ToSet(reader_list) \cup Due(todo) \subseteq SuspendedOps
  /\ Due(todo) \cap (ToSet(writer_list) \cup ToSet(reader_list)) = {}

LEMMA DistinctTail ==
  ASSUME NEW S, NEW q \in Seq(S), q # <<>>, Distinct(q)
  PROVE  Distinct(Tail(q)) /\ Head(q) \notin ToSet(Tail(q))
<1>1. /\ Len(Tail(q)) = Len(q) - 1 /\ Head(q) = q[1] /\ 1 \in 1..Len(q)
      /\ \A i \in 1..Len(Tail(q)) : i + 1 \in 1..Len(q) /\ Tail(q)[i] = q[i + 1] /\ i + 1 # 1
      /\ DOMAIN Tail(q) = 1..Len(Tail(q))
  OBVIOUS
<1>2. Head(q) \notin ToSet(Tail(q)) BY <1>1 DEF Distinct, ToSet
<1>3. ASSUME NEW i \in 1..Len(Tail(q)), NEW j \in 1..Len(Tail(q)), Tail(q)[i] = Tail(q)[j]
      PROVE  i = j
  <2>1. i + 1 = j + 1 BY <1>1, <1>3 DEF Distinct
  <2>2. QED BY <2>1
<1>4. QED BY <1>2, <1>3 DEF Distinct

LEMMA DistinctAppend ==
  ASSUME NEW S, NEW q \in Seq(S), NEW e \in S, Distinct(q), e \notin ToSet(q)
  PROVE  Distinct(Append(q, e))
<1>1. /\ Len(Append(q, e)) = Len(q) + 1 /\ Len(q) \in Nat /\ DOMAIN q = 1..Len(q)
      /\ Append(q, e)[Len(q) + 1] = e /\ \A i \in 1..Len(q) : Append(q, e)[i] = q[i]
  OBVIOUS
<1>2. \A i \in 1..Len(q) : q[i] # e BY <1>1 DEF ToSet
<1>3. \A i \in 1..(Len(q) + 1) : i \in 1..Len(q) \/ i = Len(q) + 1 BY <1>1
<1>4. QED BY <1>1, <1>2, <1>3 DEF Distinct

LEMMA DistinctWithout ==
  ASSUME NEW S, NEW q \in Seq(S), NEW o, Distinct(q)
  PROVE  Distinct(Without(q, o)) /\ o \notin ToSet(Without(q, o))
<1>1. CASE o \notin ToSet(q)
  BY <1>1 DEF Without
<1>2. CASE o \in ToSet(q)
  <2> DEFINE k == CHOOSE j \in DOMAIN q : q[j] = o
             x == RemoveAt(q, k)
  <2>1. \E j \in DOMAIN q : q[j] = o BY <1>2 DEF ToSet
  <2>2. k \in DOMAIN q /\ q[k] = o BY <2>1
  <2>3. k \in 1..Len(q) /\ Without(q, o) = x BY <1>2, <2>2 DEF Without
  <2> HIDE DEF k
  <2>4. /\ x \in Seq(S) /\ Len(x) = Len(q) - 1 /\ Len(q) \in Nat
        /\ \A i \in 1..(Len(q) - 1) : x[i] = IF i < k THEN q[i] ELSE q[i + 1]
    BY <2>3, RemoveAtSeq, SMTT(60)
  <2> HIDE DEF x
  <2>5. \A i \in 1..Len(x) : i \in 1..Len(q) /\ i + 1 \in 1..Len(q) BY <2>4
  <2>6. \A i, j \in 1..Len(x) : x[i] = x[j] => i = j
    <3> SUFFICES ASSUME NEW i \in 1..Len(x), NEW j \in 1..Len(x), x[i] = x[j] PROVE i = j
      OBVIOUS
    <3> DEFINE a == IF i < k THEN i ELSE i + 1  b == IF j < k THEN j ELSE j + 1
    <3>1. a \in 1..Len(q) /\ b \in 1..Len(q) BY <2>5
    <3>2. x[i] = q[a] /\ x[j] = q[b] BY <2>4
    <3>3. a = b BY <3>1, <3>2 DEF Distinct
    <3>4. QED BY <2>3, <2>4, <3>3
  <2>7. \A i \in 1..Len(x) : x[i] # o
    <3> SUFFICES ASSUME NEW i \in 1..Len(x) PROVE x[i] # o
      OBVIOUS
    <3> DEFINE a == IF i < k THEN i ELSE i + 1
    <3>1. a \in 1..Len(q) /\ a # k BY <2>3, <2>5
    <3>2. x[i] = q[a] BY <2>4
    <3>3. QED BY <2>2, <2>3, <3>1, <3>2 DEF Distinct
  <2>8. DOMAIN x = 1..Len(x) BY <2>4
  <2>9. QED BY <2>3, <2>6, <2>7, <2>8 DEF Distinct, ToSet
<1>3. QED BY <1>1, <1>2

\* Caller a gets new resumes, of operations that nobody is to resume.
LEMMA SingleNew ==
  ASSUME NEW td \in [Callers -> Seq(Resumes)], Single(td), NEW a \in Callers,
         NEW new \in Seq(Resumes),
         \A j, k \in 1..Len(new) : new[j].op = new[k].op => j = k,
         \A j \in 1..Len(new) : new[j].op \notin Due(td)
  PROVE  /\ Single([td EXCEPT ![a] = new])
         /\ Due([td EXCEPT ![a] = new]) \subseteq Due(td) \cup {new[j].op : j \in 1..Len(new)}
<1> DEFINE te == [td EXCEPT ![a] = new]
<1>1. te[a] = new /\ \A c \in Callers \ {a} : te[c] = td[c] OBVIOUS
<1>2. \A j \in 1..Len(new) : new[j].op \in Ops
  <2>1. \A j \in 1..Len(new) : new[j] \in Resumes OBVIOUS
  <2>2. QED BY <2>1 DEF Resumes
<1> HIDE DEF te
<1>3. Single(te)
  <2> SUFFICES ASSUME NEW c \in Callers, NEW d \in Callers, NEW j \in 1..Len(te[c]),
                      NEW k \in 1..Len(te[d]), te[c][j].op = te[d][k].op
               PROVE  c = d /\ j = k
    BY DEF Single
  <2>1. CASE c = a /\ d = a BY <1>1, <2>1
  <2>2. CASE c = a /\ d # a BY <1>1, <1>2, <2>2 DEF Due
  <2>3. CASE c # a /\ d = a BY <1>1, <1>2, <2>3 DEF Due
  <2>4. CASE c # a /\ d # a BY <1>1, <2>4 DEF Single
  <2>5. QED BY <2>1, <2>2, <2>3, <2>4
<1>4. Due(te) \subseteq Due(td) \cup {new[j].op : j \in 1..Len(new)}
  <2> SUFFICES ASSUME NEW o \in Ops, NEW c \in Callers, NEW j \in 1..Len(te[c]), te[c][j].op = o
               PROVE  o \in Due(td) \cup {new[k].op : k \in 1..Len(new)}
    BY DEF Due
  <2>1. CASE c = a BY <1>1, <2>1
  <2>2. CASE c # a BY <1>1, <2>2 DEF Due
  <2>3. QED BY <2>1, <2>2
<1>5. QED BY <1>3, <1>4 DEF te

\* Caller a makes its first resume.
LEMMA SingleTail ==
  ASSUME NEW td \in [Callers -> Seq(Resumes)], Single(td), NEW a \in Callers, td[a] # <<>>
  PROVE  /\ Single([td EXCEPT ![a] = Tail(td[a])])
         /\ Due([td EXCEPT ![a] = Tail(td[a])]) \subseteq Due(td) \ {Head(td[a]).op}
         /\ Head(td[a]).op \in Due(td)
<1> DEFINE te == [td EXCEPT ![a] = Tail(td[a])]
<1>0. td[a] \in Seq(Resumes) OBVIOUS
<1>1. te[a] = Tail(td[a]) /\ \A c \in Callers \ {a} : te[c] = td[c] OBVIOUS
<1>2. /\ Head(td[a]) = td[a][1] /\ 1 \in 1..Len(td[a]) /\ Head(td[a]).op \in Ops
      /\ \A i \in 1..Len(Tail(td[a])) :
           i + 1 \in 1..Len(td[a]) /\ Tail(td[a])[i] = td[a][i + 1] /\ i + 1 # 1
  <2>1. Head(td[a]) \in Resumes BY <1>0, HeadTailType
  <2>2. QED BY <1>0, <2>1 DEF Resumes
<1> HIDE DEF te
\* Where a remaining resume was before.
<1>3. ASSUME NEW c \in Callers, NEW j \in 1..Len(te[c])
      PROVE  \E i \in 1..Len(td[c]) :
               /\ te[c][j] = td[c][i] /\ i = (IF c = a THEN j + 1 ELSE j)
               /\ td[c][i].op # Head(td[a]).op
  <2>1. CASE c = a
    <3>1. j + 1 \in 1..Len(td[a]) /\ te[c][j] = td[a][j + 1] /\ j + 1 # 1 BY <1>1, <1>2, <2>1
    <3>2. td[a][j + 1].op # td[a][1].op BY <1>2, <3>1 DEF Single
    <3>3. QED BY <1>2, <2>1, <3>1, <3>2
  <2>2. CASE c # a
    <3>1. j \in 1..Len(td[c]) /\ te[c][j] = td[c][j] BY <1>1, <2>2
    <3>2. td[c][j].op # td[a][1].op BY <1>2, <2>2, <3>1 DEF Single
    <3>3. QED BY <1>2, <2>2, <3>1, <3>2
  <2>3. QED BY <2>1, <2>2
<1>4. Single(te)
  <2> SUFFICES ASSUME NEW c \in Callers, NEW d \in Callers, NEW j \in 1..Len(te[c]),
                      NEW k \in 1..Len(te[d]), te[c][j].op = te[d][k].op
               PROVE  c = d /\ j = k
    BY DEF Single
  <2>1. PICK x \in 1..Len(td[c]) : te[c][j] = td[c][x] /\ x = (IF c = a THEN j + 1 ELSE j) BY <1>3
  <2>2. PICK y \in 1..Len(td[d]) : te[d][k] = td[d][y] /\ y = (IF d = a THEN k + 1 ELSE k) BY <1>3
  <2>3. c = d /\ x = y BY <2>1, <2>2 DEF Single
  <2>4. QED BY <2>1, <2>2, <2>3
<1>5. Due(te) \subseteq Due(td) \ {Head(td[a]).op}
  <2> SUFFICES ASSUME NEW o \in Ops, NEW c \in Callers, NEW j \in 1..Len(te[c]), te[c][j].op = o
               PROVE  o \in Due(td) \ {Head(td[a]).op}
    BY DEF Due
  <2>1. PICK x \in 1..Len(td[c]) : te[c][j] = td[c][x] /\ td[c][x].op # Head(td[a]).op BY <1>3
  <2>2. QED BY <2>1 DEF Due
<1>6. Head(td[a]).op \in Due(td) BY <1>2 DEF Due
<1>7. QED BY <1>4, <1>5, <1>6 DEF te

\* What the two forms of a push leave to its caller.
LEMMA SingleOne ==
  ASSUME NEW td \in [Callers -> Seq(Resumes)], Single(td), NEW a \in Callers,
         NEW x \in Resumes, x.op \notin Due(td)
  PROVE  /\ Single([td EXCEPT ![a] = <<x>>])
         /\ Due([td EXCEPT ![a] = <<x>>]) \subseteq Due(td) \cup {x.op}
<1> DEFINE new == <<x>>
<1>1. new \in Seq(Resumes) /\ Len(new) = 1 /\ new[1] = x OBVIOUS
<1> HIDE DEF new
<1>2. \A j \in 1..Len(new) : j = 1 BY <1>1
<1>3. /\ Single([td EXCEPT ![a] = new])
      /\ Due([td EXCEPT ![a] = new]) \subseteq Due(td) \cup {new[j].op : j \in 1..Len(new)}
  BY <1>1, <1>2, SingleNew
<1>4. {new[j].op : j \in 1..Len(new)} \subseteq {x.op} BY <1>1, <1>2
<1>5. QED BY <1>3, <1>4 DEF new

LEMMA SingleTwo ==
  ASSUME NEW td \in [Callers -> Seq(Resumes)], Single(td), NEW a \in Callers,
         NEW x \in Resumes, NEW y \in Resumes,
         x.op \notin Due(td), y.op \notin Due(td), x.op # y.op
  PROVE  /\ Single([td EXCEPT ![a] = <<x, y>>])
         /\ Due([td EXCEPT ![a] = <<x, y>>]) \subseteq Due(td) \cup {x.op, y.op}
<1> DEFINE new == <<x, y>>
<1>1. new \in Seq(Resumes) /\ Len(new) = 2 /\ new[1] = x /\ new[2] = y OBVIOUS
<1> HIDE DEF new
<1>2. \A j \in 1..Len(new) : j = 1 \/ j = 2 BY <1>1
<1>3. \A j, k \in 1..Len(new) : new[j].op = new[k].op => j = k BY <1>1, <1>2
<1>4. \A j \in 1..Len(new) : new[j].op \notin Due(td) BY <1>1, <1>2
<1>5. /\ Single([td EXCEPT ![a] = new])
      /\ Due([td EXCEPT ![a] = new]) \subseteq Due(td) \cup {new[j].op : j \in 1..Len(new)}
  <2> HIDE OpsAssumption
  <2>1. QED BY <1>1, <1>3, <1>4, SingleNew, ZenonT(120)
<1>6. {new[j].op : j \in 1..Len(new)} \subseteq {x.op, y.op} BY <1>1, <1>2
<1>7. QED BY <1>5, <1>6 DEF new

LEMMA ResumeOp == \A o, v : Resume(o, v).op = o
  BY DEF Resume

\* The steps that change neither the lists nor the resumes.
LEMMA ResumingQuiet ==
  ASSUME Resuming, UNCHANGED <<writer_list, reader_list, todo>>,
         \A o \in Ops : st[o] = "suspended" => st'[o] = "suspended"
  PROVE  Resuming'
<1>1. SuspendedOps \subseteq SuspendedOps' BY DEF SuspendedOps
<1>2. QED BY <1>1 DEF Resuming

\* A list loses its front, one at the end comes, or one is taken out.
LEMMA ListFront ==
  ASSUME NEW S, NEW q \in Seq(S), q # <<>>, Distinct(q)
  PROVE  /\ Distinct(Tail(q)) /\ Head(q) \in S /\ Head(q) \in ToSet(q)
         /\ ToSet(Tail(q)) \subseteq ToSet(q) \ {Head(q)}
<1>1. Distinct(Tail(q)) /\ Head(q) \notin ToSet(Tail(q)) BY DistinctTail
<1>2. ToSet(Tail(q)) \subseteq ToSet(q) /\ Head(q) \in ToSet(q) BY ToSetFacts
<1>3. QED BY <1>1, <1>2, HeadTailType

LEMMA ReadResuming ==
  ASSUME ChannelTypeOK, Resuming, NEW r \in Readers, try_push_reader(r)
  PROVE  Resuming'
<1>0. /\ buffer \in Seq(Writers) /\ writer_list \in Seq(Writers) /\ reader_list \in Seq(Readers)
      /\ todo \in [Callers -> Seq(Resumes)] /\ r \in Callers /\ r \in Ops
      /\ Writers \subseteq Ops /\ st \in [Ops -> States]
  BY DEF ChannelTypeOK, Ops, Callers
<1>1. /\ st[r] = "created" /\ st' = [st EXCEPT ![r] = "suspended"]
      /\ ReadBuffered(r) \/ ReadDirect(r)
  BY DEF try_push_reader, Goto
<1>2. SuspendedOps' = SuspendedOps \cup {r} /\ r \notin SuspendedOps BY <1>0, <1>1 DEF SuspendedOps
<1>3. r \notin Due(todo) /\ r \notin ToSet(writer_list) /\ r \notin ToSet(reader_list)
  BY <1>2 DEF Resuming
<1>4. ToSet(writer_list) \subseteq Writers /\ ToSet(reader_list) \subseteq Readers
  BY <1>0 DEF ToSet
\* The values that are handed over.
<1>5. \A v \in Writers \cup {None} :
        /\ Resume(r, v) \in Resumes /\ Resume(r, v).op = r
        /\ \A w \in Writers : Resume(w, v) \in Resumes /\ Resume(w, v).op = w
  BY <1>0, ResumeType, ResumeOp
<1>6. CASE buffer # <<>> /\ writer_list # <<>>
  <2> DEFINE w == Head(writer_list)  v == Head(buffer)
  <2>1. /\ writer_list' = Tail(writer_list) /\ reader_list' = reader_list
        /\ todo' = [todo EXCEPT ![r] = <<Resume(w, None), Resume(r, v)>>]
    BY <1>1, <1>6 DEF ReadBuffered, ReadDirect
  <2>2. v \in Writers BY <1>0, <1>6, HeadTailType
  <2>3. /\ Distinct(Tail(writer_list)) /\ w \in Writers /\ w \in ToSet(writer_list)
        /\ ToSet(Tail(writer_list)) \subseteq ToSet(writer_list) \ {w}
    BY <1>0, <1>6, ListFront DEF Resuming
  <2> HIDE DEF w, v
  <2>4. w \notin Due(todo) /\ w # r /\ w \in SuspendedOps BY <1>3, <2>3 DEF Resuming
  <2>5. Single(todo') /\ Due(todo') \subseteq Due(todo) \cup {w, r}
    <3> DEFINE x == Resume(w, None)  y == Resume(r, v)
    <3>1. x \in Resumes /\ y \in Resumes /\ x.op = w /\ y.op = r BY <1>5, <2>2, <2>3
    <3>2. todo' = [todo EXCEPT ![r] = <<x, y>>] BY <2>1
    <3> HIDE DEF x, y
    <3>3. Single(todo) BY DEF Resuming
    <3>4. QED BY <1>0, <1>3, <2>4, <3>1, <3>2, <3>3, SingleTwo
  <2>6. w \notin ToSet(reader_list) BY <1>4, <2>3
  <2>7. QED BY <1>2, <1>3, <2>1, <2>3, <2>4, <2>5, <2>6 DEF Resuming
<1>7. CASE buffer # <<>> /\ writer_list = <<>>
  <2> DEFINE v == Head(buffer)
  <2>1. /\ writer_list' = writer_list /\ reader_list' = reader_list
        /\ todo' = [todo EXCEPT ![r] = <<Resume(r, v)>>]
    BY <1>1, <1>7 DEF ReadBuffered, ReadDirect
  <2>2. v \in Writers BY <1>0, <1>7, HeadTailType
  <2> HIDE DEF v
  <2>3. Single(todo') /\ Due(todo') \subseteq Due(todo) \cup {r}
    <3> DEFINE x == Resume(r, v)
    <3>1. x \in Resumes /\ x.op = r BY <1>5, <2>2
    <3>2. todo' = [todo EXCEPT ![r] = <<x>>] BY <2>1
    <3> HIDE DEF x
    <3>3. Single(todo) BY DEF Resuming
    <3>4. QED BY <1>0, <1>3, <3>1, <3>2, <3>3, SingleOne
  <2>4. QED BY <1>2, <1>3, <2>1, <2>3 DEF Resuming
<1>8. CASE buffer = <<>> /\ writer_list # <<>>
  <2> DEFINE w == Head(writer_list)
  <2>1. /\ writer_list' = Tail(writer_list) /\ reader_list' = reader_list
        /\ todo' = [todo EXCEPT ![r] = <<Resume(r, w), Resume(w, None)>>]
    BY <1>1, <1>8 DEF ReadBuffered, ReadDirect
  <2>2. /\ Distinct(Tail(writer_list)) /\ w \in Writers /\ w \in ToSet(writer_list)
        /\ ToSet(Tail(writer_list)) \subseteq ToSet(writer_list) \ {w}
    BY <1>0, <1>8, ListFront DEF Resuming
  <2> HIDE DEF w
  <2>3. w \notin Due(todo) /\ w # r /\ w \in SuspendedOps BY <1>3, <2>2 DEF Resuming
  <2>4. Single(todo') /\ Due(todo') \subseteq Due(todo) \cup {w, r}
    <3> DEFINE x == Resume(r, w)  y == Resume(w, None)
    <3>1. x \in Resumes /\ y \in Resumes /\ x.op = r /\ y.op = w BY <1>5, <2>2
    <3>2. todo' = [todo EXCEPT ![r] = <<x, y>>] BY <2>1
    <3> HIDE DEF x, y
    <3>3. Single(todo) BY DEF Resuming
    <3>4. Single(todo') /\ Due(todo') \subseteq Due(todo) \cup {x.op, y.op}
      BY <1>0, <1>3, <2>3, <3>1, <3>2, <3>3, SingleTwo
    <3>5. QED BY <3>1, <3>4
  <2>5. w \notin ToSet(reader_list) BY <1>4, <2>2
  <2>6. QED BY <1>2, <1>3, <2>1, <2>2, <2>3, <2>4, <2>5 DEF Resuming
<1>9. CASE buffer = <<>> /\ writer_list = <<>>
  <2>1. reader_list' = Append(reader_list, r) /\ writer_list' = writer_list /\ todo' = todo
    BY <1>1, <1>9 DEF ReadBuffered, ReadDirect
  <2>2. Distinct(Append(reader_list, r)) BY <1>0, <1>3, DistinctAppend DEF Resuming
  <2>3. ToSet(Append(reader_list, r)) = ToSet(reader_list) \cup {r} BY <1>0, ToSetFacts
  <2>4. QED BY <1>2, <1>3, <2>1, <2>2, <2>3 DEF Resuming
<1>10. QED BY <1>6, <1>7, <1>8, <1>9

LEMMA WriteResuming ==
  ASSUME ChannelTypeOK, Resuming, NEW w \in Writers, try_push_writer(w)
  PROVE  Resuming'
<1>0. /\ writer_list \in Seq(Writers) /\ reader_list \in Seq(Readers)
      /\ todo \in [Callers -> Seq(Resumes)] /\ w \in Callers /\ w \in Ops
      /\ Readers \subseteq Ops /\ st \in [Ops -> States]
  BY DEF ChannelTypeOK, Ops, Callers
<1>1. st[w] = "created" /\ st' = [st EXCEPT ![w] = "suspended"] /\ Write(w)
  BY DEF try_push_writer, Goto
<1>2. SuspendedOps' = SuspendedOps \cup {w} /\ w \notin SuspendedOps BY <1>0, <1>1 DEF SuspendedOps
<1>3. w \notin Due(todo) /\ w \notin ToSet(writer_list) /\ w \notin ToSet(reader_list)
  BY <1>2 DEF Resuming
<1>4. ToSet(writer_list) \subseteq Writers /\ ToSet(reader_list) \subseteq Readers
  BY <1>0 DEF ToSet
<1>5. /\ Resume(w, None) \in Resumes /\ Resume(w, None).op = w
      /\ \A r \in Readers : Resume(r, w) \in Resumes /\ Resume(r, w).op = r
  BY <1>0, ResumeType, ResumeOp
<1>6. CASE reader_list # <<>>
  <2> DEFINE r == Head(reader_list)
  <2>1. /\ reader_list' = Tail(reader_list) /\ writer_list' = writer_list
        /\ todo' = [todo EXCEPT ![w] = <<Resume(r, w), Resume(w, None)>>]
    BY <1>1, <1>6 DEF Write
  <2>2. /\ Distinct(Tail(reader_list)) /\ r \in Readers /\ r \in ToSet(reader_list)
        /\ ToSet(Tail(reader_list)) \subseteq ToSet(reader_list) \ {r}
    BY <1>0, <1>6, ListFront DEF Resuming
  <2> HIDE DEF r
  <2>3. r \notin Due(todo) /\ w # r /\ r \in SuspendedOps BY <1>3, <2>2 DEF Resuming
  <2>4. Single(todo') /\ Due(todo') \subseteq Due(todo) \cup {w, r}
    <3> DEFINE x == Resume(r, w)  y == Resume(w, None)
    <3>1. x \in Resumes /\ y \in Resumes /\ x.op = r /\ y.op = w BY <1>5, <2>2
    <3>2. todo' = [todo EXCEPT ![w] = <<x, y>>] BY <2>1
    <3> HIDE DEF x, y
    <3>3. Single(todo) BY DEF Resuming
    <3>4. Single(todo') /\ Due(todo') \subseteq Due(todo) \cup {x.op, y.op}
      BY <1>0, <1>3, <2>3, <3>1, <3>2, <3>3, SingleTwo
    <3>5. QED BY <3>1, <3>4
  <2>5. r \notin ToSet(writer_list) BY <1>4, <2>2
  <2>6. QED BY <1>2, <1>3, <2>1, <2>2, <2>3, <2>4, <2>5 DEF Resuming
<1>7. CASE reader_list = <<>> /\ HasRoom
  <2>1. /\ writer_list' = writer_list /\ reader_list' = reader_list
        /\ todo' = [todo EXCEPT ![w] = <<Resume(w, None)>>]
    BY <1>1, <1>7 DEF Write
  <2>2. Single(todo') /\ Due(todo') \subseteq Due(todo) \cup {w}
    <3> DEFINE x == Resume(w, None)
    <3>1. x \in Resumes /\ x.op = w BY <1>5
    <3>2. todo' = [todo EXCEPT ![w] = <<x>>] BY <2>1
    <3> HIDE DEF x
    <3>3. Single(todo) BY DEF Resuming
    <3>4. QED BY <1>0, <1>3, <3>1, <3>2, <3>3, SingleOne
  <2>3. QED BY <1>2, <1>3, <2>1, <2>2 DEF Resuming
<1>8. CASE reader_list = <<>> /\ ~HasRoom
  <2>1. writer_list' = Append(writer_list, w) /\ reader_list' = reader_list /\ todo' = todo
    BY <1>1, <1>8 DEF Write
  <2>2. Distinct(Append(writer_list, w)) BY <1>0, <1>3, DistinctAppend DEF Resuming
  <2>3. ToSet(Append(writer_list, w)) = ToSet(writer_list) \cup {w} BY <1>0, ToSetFacts
  <2>4. QED BY <1>2, <1>3, <2>1, <2>2, <2>3 DEF Resuming
<1>9. QED BY <1>6, <1>7, <1>8

\* clean_up takes over everybody who waits, a writer and a reader never being
\* the same operation.
LEMMA CleanUpResuming ==
  ASSUME ChannelTypeOK, Resuming, CleanUp
  PROVE  Resuming'
<1> DEFINE W == writer_list  R == reader_list  q == W \o R  new == ResumeAll(q)
<1>0. /\ W \in Seq(Writers) /\ R \in Seq(Readers) /\ todo \in [Callers -> Seq(Resumes)]
      /\ W \in Seq(Ops) /\ R \in Seq(Ops) /\ Close \in Callers
  BY DEF ChannelTypeOK, Ops, Callers
<1>1. /\ todo' = [todo EXCEPT ![Close] = new] /\ st' = st
      /\ writer_list' = <<>> /\ reader_list' = <<>>
  BY DEF CleanUp
<1>2. q \in Seq(Ops) /\ ToSet(q) = ToSet(W) \cup ToSet(R) BY <1>0, ToSetFacts, ConcatProperties
<1>3. Distinct(q)
  <2>1. /\ Len(q) = Len(W) + Len(R) /\ Len(W) \in Nat /\ Len(R) \in Nat
        /\ \A i \in 1..Len(W) : q[i] = W[i] /\ W[i] \in Writers
    BY <1>0
  <2>2. \A i \in 1..Len(R) : q[Len(W) + i] = R[i] /\ R[i] \in Readers BY <1>0
  <2> HIDE DEF q, W, R
  <2>3. ASSUME NEW i \in 1..Len(q), i > Len(W)
        PROVE  i - Len(W) \in 1..Len(R) /\ q[i] = R[i - Len(W)] /\ q[i] \in Readers
    <3>1. i - Len(W) \in 1..Len(R) /\ Len(W) + (i - Len(W)) = i BY <2>1, <2>3
    <3>2. QED BY <2>2, <3>1
  <2>4. ASSUME NEW i \in 1..Len(q), i <= Len(W)
        PROVE  i \in 1..Len(W) /\ q[i] = W[i] /\ q[i] \in Writers
    BY <2>1, <2>4
  <2> SUFFICES ASSUME NEW i \in 1..Len(q), NEW j \in 1..Len(q), q[i] = q[j] PROVE i = j
    BY DEF Distinct
  <2>5. CASE i > Len(W) /\ j > Len(W)
    <3>1. i - Len(W) = j - Len(W) BY <2>3, <2>5 DEF Resuming, Distinct, R
    <3>2. QED BY <2>1, <3>1
  <2>6. CASE i <= Len(W) /\ j <= Len(W) BY <2>4, <2>6 DEF Resuming, Distinct, W
  <2>7. CASE i > Len(W) /\ j <= Len(W) BY <2>3, <2>4, <2>7
  <2>8. CASE i <= Len(W) /\ j > Len(W) BY <2>3, <2>4, <2>8
  <2>9. QED BY <2>1, <2>5, <2>6, <2>7, <2>8
<1> HIDE DEF q
<1>4. /\ new \in Seq(Resumes) /\ DOMAIN q = 1..Len(q) /\ Len(new) = Len(q)
      /\ \A k \in 1..Len(q) : new[k].op = q[k]
  <2>1. new \in Seq(Resumes) BY <1>2, ResumeAllType
  <2>2. DOMAIN q = 1..Len(q) /\ DOMAIN new = DOMAIN q BY <1>2 DEF ResumeAll
  <2>3. Len(q) \in Nat /\ Len(new) \in Nat /\ DOMAIN new = 1..Len(new)
    <3> HIDE DEF new
    <3>1. QED BY <1>2, <2>1
  <2>4. Len(new) = Len(q)
    <3> HIDE DEF new
    <3>1. QED BY <2>2, <2>3
  <2>5. \A k \in 1..Len(q) : new[k].op = q[k] BY <2>2 DEF ResumeAll, Resume
  <2>6. QED BY <2>1, <2>2, <2>4, <2>5
<1> HIDE DEF new
<1>5. \A j \in 1..Len(new) : new[j].op \in ToSet(q) BY <1>4 DEF ToSet
<1>6. \A j, k \in 1..Len(new) : new[j].op = new[k].op => j = k BY <1>3, <1>4 DEF Distinct
<1>7. \A j \in 1..Len(new) : new[j].op \notin Due(todo) BY <1>2, <1>5 DEF Resuming
<1>8. /\ Single([todo EXCEPT ![Close] = new])
      /\ Due([todo EXCEPT ![Close] = new]) \subseteq Due(todo) \cup {new[j].op : j \in 1..Len(new)}
  <2>1. Single(todo) BY DEF Resuming
  <2>2. todo \in [Callers -> Seq(Resumes)] /\ Close \in Callers /\ new \in Seq(Resumes)
    BY <1>0, <1>4
  <2> HIDE OpsAssumption
  <2>3. QED BY <1>6, <1>7, <2>1, <2>2, SingleNew, ZenonT(60)
<1>9. Single(todo') /\ Due(todo') \subseteq Due(todo) \cup ToSet(q) BY <1>1, <1>5, <1>8
<1>10. ToSet(<<>>) = {} BY DEF ToSet
<1>11. Distinct(<<>>) BY DEF Distinct
<1>12. SuspendedOps' = SuspendedOps BY <1>1 DEF SuspendedOps
<1>13. QED BY <1>1, <1>2, <1>9, <1>10, <1>11, <1>12 DEF Resuming

LEMMA ResumingStep == IInv /\ Resuming /\ [ChannelNext]_channelVars => Resuming'
<1> SUFFICES ASSUME IInv, Resuming, [ChannelNext]_channelVars PROVE Resuming'
  OBVIOUS
<1>0. /\ ChannelTypeOK /\ writer_list \in Seq(Writers) /\ reader_list \in Seq(Readers)
      /\ todo \in [Callers -> Seq(Resumes)] /\ st \in [Ops -> States]
  BY DEF IInv, ChannelTypeOK
<1>1. ASSUME NEW o \in Ops, Create(o) \/ SuspendThrows(o) \/ Run(o)
      PROVE  Resuming'
  <2>1. UNCHANGED <<writer_list, reader_list, todo>>
    BY <1>1 DEF Create, SuspendThrows, Run, qVars
  <2>2. st[o] # "suspended" /\ \E s : st' = [st EXCEPT ![o] = s]
    BY <1>1 DEF Create, SuspendThrows, Run, Goto
  <2>3. QED BY <1>0, <2>1, <2>2, ResumingQuiet
\* Whoever leaves its list is in no other, and nobody is about to resume it.
<1>2. ASSUME NEW o \in Ops, Unwind(o) \/ Destroy(o)
      PROVE  Resuming'
  <2>1. /\ writer_list' = Without(writer_list, o) /\ reader_list' = Without(reader_list, o)
        /\ todo' = todo /\ \E s : st' = [st EXCEPT ![o] = s]
        /\ st[o] = "suspended" => o \in ToSet(writer_list) \cup ToSet(reader_list)
    BY <1>2 DEF Unwind, Destroy, RemoveOp, Goto, Listed
  <2>2. /\ Distinct(writer_list') /\ o \notin ToSet(writer_list')
        /\ ToSet(writer_list') \subseteq ToSet(writer_list)
    BY <1>0, <2>1, DistinctWithout, WithoutSeq DEF Resuming
  <2>3. /\ Distinct(reader_list') /\ o \notin ToSet(reader_list')
        /\ ToSet(reader_list') \subseteq ToSet(reader_list)
    BY <1>0, <2>1, DistinctWithout, WithoutSeq DEF Resuming
  <2>4. SuspendedOps \ {o} \subseteq SuspendedOps' BY <1>0, <2>1 DEF SuspendedOps
  <2>5. o \notin Due(todo) BY <2>1 DEF Resuming, SuspendedOps
  <2>6. QED BY <2>1, <2>2, <2>3, <2>4, <2>5 DEF Resuming
<1>3. ASSUME NEW r \in Readers, try_push_reader(r) PROVE Resuming'
  BY <1>0, <1>3, ReadResuming
<1>4. ASSUME NEW w \in Writers, try_push_writer(w) PROVE Resuming'
  BY <1>0, <1>4, WriteResuming
<1>5. ASSUME NEW c \in Callers, Dispatch(c) PROVE Resuming'
  <2> DEFINE o == Head(todo[c]).op
  <2>1. /\ todo[c] # <<>> /\ todo' = [todo EXCEPT ![c] = Tail(todo[c])]
        /\ st' = [st EXCEPT ![o] = "posted"] /\ UNCHANGED <<writer_list, reader_list>>
    BY <1>5 DEF Dispatch, Goto, qVars
  <2>2. /\ Single(todo') /\ Due(todo') \subseteq Due(todo) \ {o} /\ o \in Due(todo)
    BY <1>0, <2>1, SingleTail DEF Resuming
  <2> HIDE DEF o
  <2>3. SuspendedOps \ {o} \subseteq SuspendedOps' BY <1>0, <2>1 DEF SuspendedOps
  <2>4. QED BY <2>1, <2>2, <2>3 DEF Resuming
<1>6. CASE StoreClosed \/ CleanUpReturns \/ UNCHANGED channelVars
  <2>1. UNCHANGED <<writer_list, reader_list, todo, st>>
    BY <1>6 DEF StoreClosed, CleanUpReturns, channelVars, qVars
  <2>2. QED BY <2>1, ResumingQuiet
<1>7. CASE CleanUp BY <1>0, <1>7, CleanUpResuming
<1>8. QED BY <1>1, <1>2, <1>3, <1>4, <1>5, <1>6, <1>7 DEF ChannelNext, Step

\* A suspended coroutine is resumed by one caller and once, whoever finds it in
\* a list: handle.resume() is never called for a coroutine that runs, for any
\* capacity, operations and executors.
THEOREM ChannelResumesOnce == ChannelSpec => []ResumedOnce
<1>1. ChannelInit => Resuming
  <2> SUFFICES ASSUME ChannelInit PROVE Resuming
    OBVIOUS
  <2>1. writer_list = <<>> /\ reader_list = <<>> /\ \A c \in Callers : todo[c] = <<>> BY DEF ChannelInit
  <2>2. Distinct(<<>>) /\ ToSet(<<>>) = {} BY DEF Distinct, ToSet
  <2>3. Due(todo) = {} BY <2>1 DEF Due
  <2>4. Single(todo) BY <2>1 DEF Single
  <2>5. QED BY <2>1, <2>2, <2>3, <2>4 DEF Resuming
<1>2. IInv /\ Resuming => ResumedOnce
  <2> SUFFICES ASSUME IInv, Resuming, NEW c \in Callers, NEW j \in DOMAIN todo[c]
               PROVE  /\ st[todo[c][j].op] = "suspended" /\ ~Listed(todo[c][j].op)
                      /\ \A d \in Callers : \A k \in DOMAIN todo[d] :
                           todo[d][k].op = todo[c][j].op => d = c /\ k = j
    BY DEF ResumedOnce
  <2>1. \A d \in Callers : todo[d] \in Seq(Resumes) /\ DOMAIN todo[d] = 1..Len(todo[d])
    BY DEF IInv, ChannelTypeOK
  <2>2. todo[c][j] \in Resumes BY <2>1
  <2>3. todo[c][j].op \in Due(todo) BY <2>1, <2>2 DEF Due, Resumes
  <2>4. st[todo[c][j].op] = "suspended" /\ ~Listed(todo[c][j].op)
    BY <2>3 DEF Resuming, SuspendedOps, Listed
  <2>5. QED BY <2>1, <2>4 DEF Resuming, Single
<1>3. QED BY <1>1, <1>2, ResumingStep, Invariant, PTL DEF ChannelSpec

------------------------------------------------------------------------------
(* Nobody is lost.                                                          *)

\* A coroutine that is suspended is in a list or about to be resumed, and
\* clean_up leaves nobody in a list, nor does anybody get into one after it.
NobodyIsLost ==
  /\ \A o \in Ops : st[o] = "suspended" =>
       Listed(o) \/ \E c \in Callers : \E j \in DOMAIN todo[c] : todo[c][j].op = o
  /\ closing \in {"resume", "done"} => \A o \in Ops : ~Listed(o)

\* Who has not been suspended yet has nobody to resume, nor has close() before
\* clean_up: no resume is overwritten.
Unbegun ==
  /\ \A o \in Ops : st[o] \in {"new", "created"} => todo[o] = <<>>
  /\ closing \in {"no", "lock"} => todo[Close] = <<>>

\* close() lowers the flag first, and clean_up empties the lists.
Closed ==
  /\ closing # "no" => ~is_active
  /\ closing \in {"resume", "done"} => writer_list = <<>> /\ reader_list = <<>>

Accounted == SuspendedOps \subseteq ToSet(writer_list) \cup ToSet(reader_list) \cup Due(todo)

InPlace == Unbegun /\ Closed /\ Accounted

\* A caller that had nothing to do gets new resumes: none is lost.
LEMMA DueGrows ==
  ASSUME NEW td \in [Callers -> Seq(Resumes)], NEW a \in Callers, td[a] = <<>>, NEW new \in Seq(Resumes)
  PROVE  /\ Due(td) \subseteq Due([td EXCEPT ![a] = new])
         /\ \A j \in 1..Len(new) : new[j].op \in Due([td EXCEPT ![a] = new])
<1> DEFINE te == [td EXCEPT ![a] = new]
<1>1. te[a] = new /\ \A c \in Callers \ {a} : te[c] = td[c] OBVIOUS
<1>2. \A j \in 1..Len(new) : new[j].op \in Ops
  <2>1. \A j \in 1..Len(new) : new[j] \in Resumes OBVIOUS
  <2>2. QED BY <2>1 DEF Resumes
<1> HIDE DEF te
<1>3. Due(td) \subseteq Due(te)
  <2> SUFFICES ASSUME NEW o \in Ops, NEW c \in Callers, NEW j \in 1..Len(td[c]), td[c][j].op = o
               PROVE  o \in Due(te)
    BY DEF Due
  <2>1. c # a OBVIOUS
  <2>2. te[c] = td[c] BY <1>1, <2>1
  <2>3. QED BY <2>2 DEF Due
<1>4. \A j \in 1..Len(new) : new[j].op \in Due(te) BY <1>1, <1>2 DEF Due
<1>5. QED BY <1>3, <1>4 DEF te

LEMMA DueOne ==
  ASSUME NEW td \in [Callers -> Seq(Resumes)], NEW a \in Callers, td[a] = <<>>, NEW x \in Resumes
  PROVE  Due(td) \cup {x.op} \subseteq Due([td EXCEPT ![a] = <<x>>])
<1> DEFINE new == <<x>>
<1>1. new \in Seq(Resumes) /\ 1 \in 1..Len(new) /\ new[1] = x OBVIOUS
<1> HIDE DEF new
<1>2. /\ Due(td) \subseteq Due([td EXCEPT ![a] = new])
      /\ \A j \in 1..Len(new) : new[j].op \in Due([td EXCEPT ![a] = new])
  BY <1>1, DueGrows
<1>3. QED BY <1>1, <1>2 DEF new

LEMMA DueTwo ==
  ASSUME NEW td \in [Callers -> Seq(Resumes)], NEW a \in Callers, td[a] = <<>>,
         NEW x \in Resumes, NEW y \in Resumes
  PROVE  Due(td) \cup {x.op, y.op} \subseteq Due([td EXCEPT ![a] = <<x, y>>])
<1> DEFINE new == <<x, y>>
<1>1. new \in Seq(Resumes) /\ 1 \in 1..Len(new) /\ 2 \in 1..Len(new) /\ new[1] = x /\ new[2] = y OBVIOUS
<1> HIDE DEF new
<1>2. /\ Due(td) \subseteq Due([td EXCEPT ![a] = new])
      /\ \A j \in 1..Len(new) : new[j].op \in Due([td EXCEPT ![a] = new])
  BY <1>1, DueGrows
<1>3. QED BY <1>1, <1>2 DEF new

\* A caller makes its first resume: the others stay due.
LEMMA DueShrinks ==
  ASSUME NEW td \in [Callers -> Seq(Resumes)], NEW a \in Callers, td[a] # <<>>
  PROVE  Due(td) \ {Head(td[a]).op} \subseteq Due([td EXCEPT ![a] = Tail(td[a])])
<1> DEFINE te == [td EXCEPT ![a] = Tail(td[a])]
<1>0. td[a] \in Seq(Resumes) OBVIOUS
<1>1. te[a] = Tail(td[a]) /\ \A c \in Callers \ {a} : te[c] = td[c] OBVIOUS
<1>2. /\ Head(td[a]) = td[a][1] /\ Len(td[a]) \in Nat
      /\ \A i \in 1..Len(td[a]) : i # 1 => i - 1 \in 1..Len(Tail(td[a])) /\ Tail(td[a])[i - 1] = td[a][i]
  BY <1>0
<1> HIDE DEF te
<1> SUFFICES ASSUME NEW o \in Ops, o # Head(td[a]).op,
                    NEW c \in Callers, NEW j \in 1..Len(td[c]), td[c][j].op = o
             PROVE  o \in Due(te)
  BY DEF Due, te
<1>3. CASE c = a
  <2>1. j # 1 BY <1>2, <1>3
  <2>2. PICK k \in 1..Len(te[a]) : te[a][k] = td[a][j] BY <1>1, <1>2, <1>3, <2>1
  <2>3. QED BY <1>3, <2>2 DEF Due
<1>4. CASE c # a
  <2>1. te[c] = td[c] BY <1>1, <1>4
  <2>2. QED BY <2>1 DEF Due
<1>5. QED BY <1>3, <1>4

\* A list loses its front only, or who is taken out only.
LEMMA TailKeeps ==
  ASSUME NEW S, NEW q \in Seq(S), q # <<>>
  PROVE  ToSet(q) \subseteq ToSet(Tail(q)) \cup {Head(q)}
<1>1. DOMAIN q = 1..Len(q) /\ Len(q) \in Nat /\ Head(q) = q[1] /\ DOMAIN Tail(q) = 1..(Len(q) - 1)
  OBVIOUS
<1>2. \A i \in 1..Len(q) : i # 1 => i - 1 \in 1..(Len(q) - 1) /\ Tail(q)[i - 1] = q[i]
  <2> SUFFICES ASSUME NEW i \in 1..Len(q), i # 1
               PROVE  i - 1 \in 1..(Len(q) - 1) /\ Tail(q)[i - 1] = q[i]
    OBVIOUS
  <2>1. i - 1 \in 1..(Len(q) - 1) /\ (i - 1) + 1 = i
    OBVIOUS
  <2>2. \A n \in 1..(Len(q) - 1) : Tail(q)[n] = q[n + 1]
    OBVIOUS
  <2>3. Tail(q)[i - 1] = q[(i - 1) + 1]
    BY <2>1, <2>2, Zenon
  <2>4. QED BY <2>1, <2>3, Zenon
<1>3. SUFFICES ASSUME NEW i \in 1..Len(q)
               PROVE  q[i] \in ToSet(Tail(q)) \cup {Head(q)}
  BY <1>1 DEF ToSet
<1>4. CASE i = 1
  BY <1>1, <1>4
<1>5. CASE i # 1
  <2>1. i - 1 \in DOMAIN Tail(q) /\ Tail(q)[i - 1] = q[i]
    BY <1>1, <1>2, <1>5
  <2>2. Tail(q)[i - 1] \in ToSet(Tail(q))
    BY <2>1, Zenon DEF ToSet
  <2>3. QED BY <2>1, <2>2, Zenon
<1>6. QED BY <1>4, <1>5

LEMMA WithoutKeeps ==
  ASSUME NEW S, NEW s \in Seq(S), NEW o
  PROVE  ToSet(s) \ {o} \subseteq ToSet(Without(s, o))
<1>1. CASE o \notin ToSet(s)
  BY <1>1 DEF Without
<1>2. CASE o \in ToSet(s)
  <2> DEFINE k == CHOOSE j \in DOMAIN s : s[j] = o
  <2>1. \E j \in DOMAIN s : s[j] = o BY <1>2 DEF ToSet
  <2>2. k \in DOMAIN s /\ s[k] = o BY <2>1
  <2>3. k \in 1..Len(s) /\ Len(s) \in Nat /\ Without(s, o) = RemoveAt(s, k) BY <1>2, <2>2 DEF Without
  <2> HIDE DEF k
  <2>4. /\ RemoveAt(s, k) \in Seq(S) /\ Len(RemoveAt(s, k)) = Len(s) - 1
        /\ \A i \in 1..(Len(s) - 1) : RemoveAt(s, k)[i] = IF i < k THEN s[i] ELSE s[i + 1]
    BY <2>3, RemoveAtSeq
  <2> DEFINE r == RemoveAt(s, k)
  <2>5. r \in Seq(S) /\ DOMAIN r = 1..(Len(s) - 1) BY <2>3, <2>4
  <2> HIDE DEF r
  <2>6. ASSUME NEW i \in 1..Len(s), s[i] # o PROVE \E j \in DOMAIN r : r[j] = s[i]
    <3>1. CASE i < k
      <4>1. i \in 1..(Len(s) - 1) BY <2>3, <3>1
      <4>2. r[i] = s[i] BY <2>4, <3>1, <4>1 DEF r
      <4>3. QED BY <2>5, <4>1, <4>2
    <3>2. CASE i > k
      <4>1. PICK j \in 1..(Len(s) - 1) : i = j + 1 /\ ~(j < k)
        <5>1. i - 1 \in 1..(Len(s) - 1) /\ i = (i - 1) + 1 /\ ~(i - 1 < k) BY <2>3, <3>2
        <5>2. QED BY <5>1
      <4>2. r[j] = s[j + 1] BY <2>4, <4>1 DEF r
      <4>3. QED BY <2>5, <4>1, <4>2
    <3>3. i # k BY <2>2, <2>6
    <3>4. QED BY <2>3, <3>1, <3>2, <3>3
  <2>7. DOMAIN s = 1..Len(s) OBVIOUS
  <2>8. QED BY <2>3, <2>6, <2>7 DEF ToSet, r
<1>3. QED BY <1>1, <1>2

\* A read or a write: the operation goes to a list or is to be resumed, and so
\* does who leaves a list for it.
LEMMA ReadAccounted ==
  ASSUME ChannelTypeOK, InPlace, NEW r \in Readers, try_push_reader(r)
  PROVE  Accounted'
<1>0. /\ writer_list \in Seq(Writers) /\ reader_list \in Seq(Readers) /\ buffer \in Seq(Writers)
      /\ todo \in [Callers -> Seq(Resumes)] /\ r \in Callers /\ r \in Ops /\ st \in [Ops -> States]
  BY DEF ChannelTypeOK, Ops, Callers
<1>1. /\ st[r] = "created" /\ st' = [st EXCEPT ![r] = "suspended"]
      /\ ReadBuffered(r) \/ ReadDirect(r)
  BY DEF try_push_reader, Goto
<1>2. SuspendedOps' = SuspendedOps \cup {r}
  <2>1. st \in [Ops -> States] /\ r \in Ops BY <1>0
  <2>2. st'[r] = "suspended" /\ \A p \in Ops \ {r} : st'[p] = st[p] BY <1>1, <2>1
  <2>3. QED BY <2>1, <2>2 DEF SuspendedOps
<1>3. todo[r] = <<>>
  <2>1. r \in Ops /\ st[r] \in {"new", "created"} BY <1>0, <1>1
  <2>2. QED BY <2>1 DEF InPlace, Unbegun
<1>5. \A v \in Writers \cup {None} :
        /\ Resume(r, v) \in Resumes /\ Resume(r, v).op = r
        /\ \A w \in Writers : Resume(w, v) \in Resumes /\ Resume(w, v).op = w
  BY <1>0, ResumeType, ResumeOp DEF Ops
<1>6. CASE writer_list # <<>>
  <2> DEFINE w == Head(writer_list)  v == Head(buffer)
  <2>1. /\ writer_list' = Tail(writer_list) /\ reader_list' = reader_list
        /\ \/ buffer # <<>> /\ todo' = [todo EXCEPT ![r] = <<Resume(w, None), Resume(r, v)>>]
           \/ todo' = [todo EXCEPT ![r] = <<Resume(r, w), Resume(w, None)>>]
    BY <1>1, <1>6 DEF ReadBuffered, ReadDirect
  <2>2. w \in Writers /\ (buffer # <<>> => v \in Writers) BY <1>0, <1>6, HeadTailType
  <2>3. ToSet(writer_list) \subseteq ToSet(Tail(writer_list)) \cup {w} BY <1>0, <1>6, TailKeeps
  <2> HIDE DEF w, v
  <2>4. Due(todo) \cup {w, r} \subseteq Due(todo')
    <3>1. CASE buffer # <<>> /\ todo' = [todo EXCEPT ![r] = <<Resume(w, None), Resume(r, v)>>]
      <4> DEFINE x == Resume(w, None)  y == Resume(r, v)
      <4>1. x \in Resumes /\ y \in Resumes /\ x.op = w /\ y.op = r BY <1>5, <2>2, <3>1
      <4>2. todo' = [todo EXCEPT ![r] = <<x, y>>] BY <3>1
      <4> HIDE DEF x, y
      <4>3. Due(todo) \cup {x.op, y.op} \subseteq Due([todo EXCEPT ![r] = <<x, y>>])
        BY <1>0, <1>3, <4>1, DueTwo
      <4>4. QED BY <4>1, <4>2, <4>3
    <3>2. CASE todo' = [todo EXCEPT ![r] = <<Resume(r, w), Resume(w, None)>>]
      <4> DEFINE x == Resume(r, w)  y == Resume(w, None)
      <4>1. x \in Resumes /\ y \in Resumes /\ x.op = r /\ y.op = w BY <1>5, <2>2
      <4>2. todo' = [todo EXCEPT ![r] = <<x, y>>] BY <3>2
      <4> HIDE DEF x, y
      <4>3. Due(todo) \cup {x.op, y.op} \subseteq Due([todo EXCEPT ![r] = <<x, y>>])
        BY <1>0, <1>3, <4>1, DueTwo
      <4>4. QED BY <4>1, <4>2, <4>3
    <3>3. QED BY <2>1, <3>1, <3>2
  <2>5. QED BY <1>2, <2>1, <2>3, <2>4 DEF InPlace, Accounted
<1>7. CASE buffer # <<>> /\ writer_list = <<>>
  <2> DEFINE v == Head(buffer)  x == Resume(r, v)
  <2>1. UNCHANGED <<writer_list, reader_list>> /\ todo' = [todo EXCEPT ![r] = <<x>>]
    BY <1>1, <1>7 DEF ReadBuffered, ReadDirect
  <2>2. v \in Writers BY <1>0, <1>7, HeadTailType
  <2>3. x \in Resumes /\ x.op = r BY <1>5, <2>2
  <2> HIDE DEF x
  <2>4. Due(todo) \cup {x.op} \subseteq Due([todo EXCEPT ![r] = <<x>>]) BY <1>0, <1>3, <2>3, DueOne
  <2>5. QED BY <1>2, <2>1, <2>3, <2>4 DEF InPlace, Accounted
<1>8. CASE buffer = <<>> /\ writer_list = <<>>
  <2>1. reader_list' = Append(reader_list, r) /\ UNCHANGED <<writer_list, todo>>
    BY <1>1, <1>8 DEF ReadBuffered, ReadDirect
  <2>2. ToSet(Append(reader_list, r)) = ToSet(reader_list) \cup {r} BY <1>0, ToSetFacts
  <2>3. QED BY <1>2, <2>1, <2>2 DEF InPlace, Accounted
<1>9. QED BY <1>6, <1>7, <1>8

LEMMA WriteAccounted ==
  ASSUME ChannelTypeOK, InPlace, NEW w \in Writers, try_push_writer(w)
  PROVE  Accounted'
<1>0. /\ writer_list \in Seq(Writers) /\ reader_list \in Seq(Readers)
      /\ todo \in [Callers -> Seq(Resumes)] /\ w \in Callers /\ w \in Ops /\ st \in [Ops -> States]
  BY DEF ChannelTypeOK, Ops, Callers
<1>1. st[w] = "created" /\ st' = [st EXCEPT ![w] = "suspended"] /\ Write(w)
  BY DEF try_push_writer, Goto
<1>2. SuspendedOps' = SuspendedOps \cup {w}
  <2>1. st \in [Ops -> States] /\ w \in Ops BY <1>0
  <2>2. st'[w] = "suspended" /\ \A p \in Ops \ {w} : st'[p] = st[p] BY <1>1, <2>1
  <2>3. QED BY <2>1, <2>2 DEF SuspendedOps
<1>3. todo[w] = <<>>
  <2>1. w \in Ops /\ st[w] \in {"new", "created"} BY <1>0, <1>1
  <2>2. QED BY <2>1 DEF InPlace, Unbegun
<1>5. /\ Resume(w, None) \in Resumes /\ Resume(w, None).op = w
      /\ \A r \in Readers : Resume(r, w) \in Resumes /\ Resume(r, w).op = r
  BY <1>0, ResumeType, ResumeOp DEF Ops
<1>6. CASE reader_list # <<>>
  <2> DEFINE r == Head(reader_list)  x == Resume(r, w)  y == Resume(w, None)
  <2>1. /\ reader_list' = Tail(reader_list) /\ writer_list' = writer_list
        /\ todo' = [todo EXCEPT ![w] = <<x, y>>]
    BY <1>1, <1>6 DEF Write
  <2>2. r \in Readers BY <1>0, <1>6, HeadTailType
  <2>3. ToSet(reader_list) \subseteq ToSet(Tail(reader_list)) \cup {r} BY <1>0, <1>6, TailKeeps
  <2>4. x \in Resumes /\ y \in Resumes /\ x.op = r /\ y.op = w BY <1>5, <2>2
  <2> HIDE DEF x, y, r
  <2>5. Due(todo) \cup {x.op, y.op} \subseteq Due([todo EXCEPT ![w] = <<x, y>>])
    BY <1>0, <1>3, <2>4, DueTwo
  <2>6. QED BY <1>2, <2>1, <2>3, <2>4, <2>5 DEF InPlace, Accounted
<1>7. CASE reader_list = <<>> /\ HasRoom
  <2> DEFINE x == Resume(w, None)
  <2>1. UNCHANGED <<writer_list, reader_list>> /\ todo' = [todo EXCEPT ![w] = <<x>>]
    BY <1>1, <1>7 DEF Write
  <2>2. x \in Resumes /\ x.op = w BY <1>5
  <2> HIDE DEF x
  <2>3. Due(todo) \cup {x.op} \subseteq Due([todo EXCEPT ![w] = <<x>>]) BY <1>0, <1>3, <2>2, DueOne
  <2>4. QED BY <1>2, <2>1, <2>2, <2>3 DEF InPlace, Accounted
<1>8. CASE reader_list = <<>> /\ ~HasRoom
  <2>1. writer_list' = Append(writer_list, w) /\ UNCHANGED <<reader_list, todo>>
    BY <1>1, <1>8 DEF Write
  <2>2. ToSet(Append(writer_list, w)) = ToSet(writer_list) \cup {w} BY <1>0, ToSetFacts
  <2>3. QED BY <1>2, <2>1, <2>2 DEF InPlace, Accounted
<1>9. QED BY <1>6, <1>7, <1>8

\* clean_up takes over everybody who waits.
LEMMA CleanUpAccounted ==
  ASSUME ChannelTypeOK, InPlace, CleanUp
  PROVE  Accounted'
<1> DEFINE q == writer_list \o reader_list  new == ResumeAll(q)
<1>0. /\ writer_list \in Seq(Ops) /\ reader_list \in Seq(Ops)
      /\ todo \in [Callers -> Seq(Resumes)] /\ Close \in Callers /\ todo[Close] = <<>>
  BY DEF ChannelTypeOK, Ops, Callers, CleanUp, InPlace, Unbegun
<1>1. /\ todo' = [todo EXCEPT ![Close] = new] /\ st' = st
  BY DEF CleanUp
<1>2. q \in Seq(Ops) /\ ToSet(q) = ToSet(writer_list) \cup ToSet(reader_list)
  BY <1>0, ToSetFacts, ConcatProperties
<1> HIDE DEF q
<1>3. /\ new \in Seq(Resumes) /\ DOMAIN q = 1..Len(q) /\ DOMAIN new = DOMAIN q
      /\ \A k \in DOMAIN q : new[k].op = q[k]
  BY <1>2, ResumeAllType DEF ResumeAll, Resume
<1> HIDE DEF new
<1>4. DOMAIN new = 1..Len(new) BY <1>3
<1>5. /\ Due(todo) \subseteq Due([todo EXCEPT ![Close] = new])
      /\ \A j \in 1..Len(new) : new[j].op \in Due([todo EXCEPT ![Close] = new])
  BY <1>0, <1>3, DueGrows
<1>6. ToSet(q) \subseteq Due(todo') BY <1>1, <1>3, <1>4, <1>5 DEF ToSet
<1>7. SuspendedOps' = SuspendedOps BY <1>1 DEF SuspendedOps
<1>8. QED BY <1>1, <1>2, <1>5, <1>6, <1>7 DEF InPlace, Accounted

\* A step that leaves the lists alone, suspends nobody and starts no call anew.
LEMMA KeptAside ==
  ASSUME InPlace, UNCHANGED <<writer_list, reader_list, todo>>,
         closing' \in {"resume", "done"} => closing \in {"resume", "done"},
         closing' # "no" => ~is_active',
         closing' \in {"no", "lock"} => closing \in {"no", "lock"},
         \A o \in Ops : st'[o] = "suspended" => st[o] = "suspended",
         \A o \in Ops : st'[o] \in {"new", "created"} => st[o] \in {"new", "created"}
  PROVE  InPlace'
<1>1. SuspendedOps' \subseteq SuspendedOps BY DEF SuspendedOps
<1>2. QED BY <1>1 DEF InPlace, Unbegun, Closed, Accounted

\* A read or a write happens before close() lowers the flag.
LEMMA PushKept ==
  ASSUME ChannelTypeOK, InPlace, NEW o \in Ops, Goto(o, "suspended"), is_active, UNCHANGED <<is_active, closing>>,
         \A c \in Callers \ {o} : todo'[c] = todo[c]
  PROVE  Unbegun' /\ Closed'
<1>1. st'[o] = "suspended" /\ \A p \in Ops \ {o} : st'[p] = st[p] BY DEF Goto, ChannelTypeOK
<1>2. closing = "no" BY DEF InPlace, Closed
<1>3. Close \in Callers \ {o} /\ Ops \subseteq Callers BY DEF Callers
<1>4. QED BY <1>1, <1>2, <1>3 DEF InPlace, Unbegun, Closed

LEMMA KeptStep == ChannelTypeOK /\ InPlace /\ [ChannelNext]_channelVars => InPlace'
<1> SUFFICES ASSUME ChannelTypeOK, InPlace, [ChannelNext]_channelVars PROVE InPlace'
  OBVIOUS
<1>0. /\ writer_list \in Seq(Writers) /\ reader_list \in Seq(Readers)
      /\ todo \in [Callers -> Seq(Resumes)] /\ st \in [Ops -> States] /\ Ops \subseteq Callers
      /\ closing \in {"no", "lock", "resume", "done"}
  BY DEF ChannelTypeOK, Callers
<1>1. ASSUME NEW o \in Ops, Create(o) \/ SuspendThrows(o) \/ Run(o)
      PROVE  InPlace'
  <2>1. UNCHANGED <<writer_list, reader_list, todo, is_active, closing>>
    BY <1>1 DEF Create, SuspendThrows, Run, qVars
  <2>2. \E s \in {"created", "throwing", "threw", "returned"} :
          st' = [st EXCEPT ![o] = s] /\ (s = "created" => st[o] = "new")
    BY <1>1 DEF Create, SuspendThrows, Run, Goto
  <2>3. /\ \A p \in Ops : st'[p] = "suspended" => st[p] = "suspended"
        /\ \A p \in Ops : st'[p] \in {"new", "created"} => st[p] \in {"new", "created"}
    BY <1>0, <2>2
  <2>4. QED BY <2>1, <2>3, KeptAside DEF InPlace, Closed
<1>2. ASSUME NEW o \in Ops, Unwind(o) \/ Destroy(o)
      PROVE  InPlace'
  <2>1. /\ writer_list' = Without(writer_list, o) /\ reader_list' = Without(reader_list, o)
        /\ UNCHANGED <<todo, is_active, closing>> /\ \E s \in {"threw", "destroyed"} : st' = [st EXCEPT ![o] = s]
    BY <1>2 DEF Unwind, Destroy, RemoveOp, Goto
  <2>2. /\ st'[o] \notin {"new", "created", "suspended"} /\ \A p \in Ops \ {o} : st'[p] = st[p]
    BY <1>0, <2>1
  <2>3. /\ ToSet(writer_list) \ {o} \subseteq ToSet(writer_list')
        /\ ToSet(reader_list) \ {o} \subseteq ToSet(reader_list')
    BY <1>0, <2>1, WithoutKeeps
  <2>4. /\ writer_list = <<>> => writer_list' = <<>>
        /\ reader_list = <<>> => reader_list' = <<>>
    BY <1>0, <2>1, WithoutSeq
  <2>5. SuspendedOps' \subseteq SuspendedOps \ {o} BY <2>2 DEF SuspendedOps
  <2>6. Accounted' BY <2>1, <2>3, <2>5 DEF InPlace, Accounted
  <2>7. Unbegun' /\ Closed' BY <2>1, <2>2, <2>4 DEF InPlace, Unbegun, Closed
  <2>8. QED BY <2>6, <2>7 DEF InPlace
<1>3. ASSUME NEW r \in Readers, try_push_reader(r) PROVE InPlace'
  <2>1. Accounted' BY <1>3, ReadAccounted
  <2>2. /\ Goto(r, "suspended") /\ is_active /\ UNCHANGED <<is_active, closing>> /\ r \in Ops
        /\ todo' = todo \/ \E s : todo' = [todo EXCEPT ![r] = s]
    BY <1>3 DEF try_push_reader, ReadBuffered, ReadDirect, Ops
  <2>3. \A c \in Callers \ {r} : todo'[c] = todo[c] BY <1>0, <2>2
  <2>4. QED BY <2>1, <2>2, <2>3, PushKept DEF InPlace
<1>4. ASSUME NEW w \in Writers, try_push_writer(w) PROVE InPlace'
  <2>1. Accounted' BY <1>4, WriteAccounted
  <2>2. /\ Goto(w, "suspended") /\ is_active /\ UNCHANGED <<is_active, closing>> /\ w \in Ops
        /\ todo' = todo \/ \E s : todo' = [todo EXCEPT ![w] = s]
    BY <1>4 DEF try_push_writer, Write, Ops
  <2>3. \A c \in Callers \ {w} : todo'[c] = todo[c] BY <1>0, <2>2
  <2>4. QED BY <2>1, <2>2, <2>3, PushKept DEF InPlace
<1>5. ASSUME NEW c \in Callers, Dispatch(c) PROVE InPlace'
  <2> DEFINE o == Head(todo[c]).op
  <2>1. /\ todo[c] # <<>> /\ todo' = [todo EXCEPT ![c] = Tail(todo[c])]
        /\ st' = [st EXCEPT ![o] = "posted"] /\ UNCHANGED <<writer_list, reader_list, is_active, closing>>
    BY <1>5 DEF Dispatch, Goto, qVars
  <2>2. Due(todo) \ {o} \subseteq Due(todo') BY <1>0, <2>1, DueShrinks
  <2> HIDE DEF o
  <2>3. /\ SuspendedOps' \subseteq SuspendedOps \ {o}
        /\ \A p \in Ops : st'[p] \in {"new", "created"} => st[p] \in {"new", "created"}
    BY <1>0, <2>1 DEF SuspendedOps
  <2>4. Accounted' BY <2>1, <2>2, <2>3 DEF InPlace, Accounted
  <2>5. \A d \in Callers \ {c} : todo'[d] = todo[d] BY <1>0, <2>1
  <2>6. Unbegun' BY <1>0, <2>1, <2>3, <2>5 DEF InPlace, Unbegun, Callers
  <2>7. Closed' BY <2>1 DEF InPlace, Closed
  <2>8. QED BY <2>4, <2>6, <2>7 DEF InPlace
<1>6. CASE StoreClosed BY <1>6, KeptAside DEF StoreClosed, qVars
<1>7. CASE CleanUp
  <2>1. Accounted' BY <1>7, CleanUpAccounted
  <2>2. /\ closing = "lock" /\ closing' = "resume" /\ writer_list' = <<>> /\ reader_list' = <<>>
        /\ UNCHANGED <<is_active, st>> /\ todo' = [todo EXCEPT ![Close] = ResumeAll(writer_list \o reader_list)]
    BY <1>7 DEF CleanUp
  <2>3. \A o \in Ops : todo'[o] = todo[o] BY <1>0, <2>2
  <2>4. Unbegun' /\ Closed' BY <2>2, <2>3 DEF InPlace, Unbegun, Closed
  <2>5. QED BY <2>1, <2>4 DEF InPlace
<1>8. CASE CleanUpReturns BY <1>8, KeptAside DEF CleanUpReturns, qVars, InPlace, Closed
<1>9. CASE UNCHANGED channelVars BY <1>9, KeptAside DEF channelVars, qVars, InPlace, Closed
<1>10. QED BY <1>1, <1>2, <1>3, <1>4, <1>5, <1>6, <1>7, <1>8, <1>9 DEF ChannelNext, Step

\* A coroutine that waits is never lost, however reads, writes, destructions
\* and close() interleave: it is in a list or somebody is about to resume it,
\* and once clean_up has run nobody is in a list, or gets into one.
THEOREM ChannelLosesNobody == ChannelSpec => []NobodyIsLost
<1>1. ChannelInit => InPlace
  <2> SUFFICES ASSUME ChannelInit PROVE InPlace
    OBVIOUS
  <2>1. SuspendedOps = {} BY DEF ChannelInit, SuspendedOps
  <2>2. QED BY <2>1 DEF ChannelInit, InPlace, Unbegun, Closed, Accounted, Callers
<1>2. IInv /\ InPlace => NobodyIsLost
  <2> SUFFICES ASSUME IInv, InPlace PROVE NobodyIsLost
    OBVIOUS
  <2>1. \A c \in Callers : DOMAIN todo[c] = 1..Len(todo[c]) BY DEF IInv, ChannelTypeOK
  <2>2. ASSUME NEW o \in Ops, st[o] = "suspended"
        PROVE  Listed(o) \/ \E c \in Callers : \E j \in DOMAIN todo[c] : todo[c][j].op = o
    <3>1. o \in ToSet(writer_list) \cup ToSet(reader_list) \cup Due(todo)
      BY <2>2 DEF InPlace, Accounted, SuspendedOps
    <3>2. QED BY <2>1, <3>1 DEF Listed, Due
  <2>3. closing \in {"resume", "done"} => \A o \in Ops : ~Listed(o)
    BY DEF InPlace, Closed, Listed, ToSet
  <2>4. QED BY <2>2, <2>3 DEF NobodyIsLost
<1>3. IInv => ChannelTypeOK BY DEF IInv
<1>4. QED BY <1>1, <1>2, <1>3, KeptStep, Invariant, PTL DEF ChannelSpec

------------------------------------------------------------------------------
(* Any use of executors by any number of threads.                           *)

\* What a program may do next, whatever main, its threads and its callbacks are.
RegistrationNext ==
  \/ \E u \in Users : RegistrationStep(u) \/ SpinLeaves(u)
  \/ \E u \in Users, op \in DOMAIN FirstStep, e \in Execs : \E n : Begin(u, op, e, n)
  \/ \E e \in Execs, poll \in BOOLEAN : \E busy : Fill(e, busy, poll)
  \/ \E e \in Execs : Wake(e) \/ Released(e) \/ \E phase : Taken(e, phase)
  \/ \E share : Assign(share)
  \/ ContextShutdown \/ InterruptWaitSets

\* For any number of executors, and one thread more.
RegistrationSpec == (\E count : RegistrationInit(count)) /\ [][RegistrationNext]_regVars

\* Executors and calls have the fields the actions change, and a call is where its operation
\* can be.
IsExecutor(x) ==
  x = [weak_nodes |-> x.weak_nodes, guards |-> x.guards, spinning |-> x.spinning,
       interrupt |-> x.interrupt, phase |-> x.phase, wait_set |-> x.wait_set]
IsCall(c) ==
  /\ c = [op |-> c.op, exec |-> c.exec, node |-> c.node, at |-> c.at, removed |-> c.removed]
  /\ c.at # "idle" => c.exec \in Execs
  /\ c.at \in {"exchange", "push", "guard"} => c.op \in {"add", "some"}
  /\ c.at \in {"erase", "store"} => c.op \in {"remove", "some"}
  /\ c.at = "trigger" => c.op \in {"add", "remove"}
  /\ c.at \in {"begin", "some"} => c.op = "some"
AreExecutors == exec = [e \in Execs |-> exec[e]] /\ \A e \in Execs : IsExecutor(exec[e])
AreCalls == call = [u \in Users |-> call[u]] /\ \A u \in Users : IsCall(call[u])
Shapes == AreExecutors /\ AreCalls

\* A step of a call, and what it leaves of the others.
LEMMA CallEffect ==
  ASSUME AreCalls, Execs' = Execs, NEW u \in Users,
         NEW c, IsCall(c), call' = [call EXCEPT ![u] = c]
  PROVE  /\ Users' = Users /\ AreCalls'
         /\ call'[u] = c /\ \A v \in Users \ {u} : call'[v] = call[v]
<1>1. Users' = Users /\ call' = [v \in Users |-> IF v = u THEN c ELSE call[v]]
  BY DEF AreCalls, Users
<1>2. QED BY <1>1 DEF AreCalls, IsCall

LEMMA ExecEffect ==
  ASSUME AreExecutors, NEW e \in Execs,
         NEW x, IsExecutor(x), exec' = [exec EXCEPT ![e] = x]
  PROVE  /\ Execs' = Execs /\ AreExecutors'
         /\ exec'[e] = x /\ \A f \in Execs \ {e} : exec'[f] = exec[f]
<1>1. Execs' = Execs /\ exec' = [f \in Execs |-> IF f = e THEN x ELSE exec[f]]
  BY DEF AreExecutors, Execs
<1>2. QED BY <1>1 DEF AreExecutors

LEMMA SameExec == ASSUME AreExecutors, UNCHANGED exec PROVE Execs' = Execs /\ AreExecutors'
BY DEF AreExecutors, Execs

LEMMA SameCall ==
  ASSUME AreCalls, UNCHANGED call, Execs' = Execs
  PROVE  Users' = Users /\ AreCalls'
BY DEF AreCalls, Users, IsCall

\* Writing a field of an executor leaves the others.
SetList(x, v) == [x EXCEPT !.weak_nodes = v]
SetGuards(x, v) == [x EXCEPT !.guards = v]
SetSpinning(x, v) == [x EXCEPT !.spinning = v]
SetInterrupt(x, v) == [x EXCEPT !.interrupt = v]
SetPhase(x, v) == [x EXCEPT !.phase = v]
SetWaitSet(x, v) == [x EXCEPT !.wait_set = v]

LEMMA NewList ==
  ASSUME NEW x, IsExecutor(x), NEW v
  PROVE  /\ IsExecutor(SetList(x, v)) /\ SetList(x, v).weak_nodes = v
         /\ SetList(x, v).guards = x.guards /\ SetList(x, v).spinning = x.spinning
         /\ SetList(x, v).interrupt = x.interrupt /\ SetList(x, v).phase = x.phase
         /\ SetList(x, v).wait_set = x.wait_set
BY DEF IsExecutor, SetList

LEMMA NewGuards ==
  ASSUME NEW x, IsExecutor(x), NEW v
  PROVE  /\ IsExecutor(SetGuards(x, v)) /\ SetGuards(x, v).guards = v
         /\ SetGuards(x, v).weak_nodes = x.weak_nodes /\ SetGuards(x, v).spinning = x.spinning
         /\ SetGuards(x, v).interrupt = x.interrupt /\ SetGuards(x, v).phase = x.phase
         /\ SetGuards(x, v).wait_set = x.wait_set
BY DEF IsExecutor, SetGuards

LEMMA NewSpinning ==
  ASSUME NEW x, IsExecutor(x), NEW v
  PROVE  /\ IsExecutor(SetSpinning(x, v)) /\ SetSpinning(x, v).spinning = v
         /\ SetSpinning(x, v).weak_nodes = x.weak_nodes /\ SetSpinning(x, v).guards = x.guards
         /\ SetSpinning(x, v).interrupt = x.interrupt /\ SetSpinning(x, v).phase = x.phase
         /\ SetSpinning(x, v).wait_set = x.wait_set
BY DEF IsExecutor, SetSpinning

LEMMA NewInterrupt ==
  ASSUME NEW x, IsExecutor(x), NEW v
  PROVE  /\ IsExecutor(SetInterrupt(x, v)) /\ SetInterrupt(x, v).interrupt = v
         /\ SetInterrupt(x, v).weak_nodes = x.weak_nodes /\ SetInterrupt(x, v).guards = x.guards
         /\ SetInterrupt(x, v).spinning = x.spinning /\ SetInterrupt(x, v).phase = x.phase
         /\ SetInterrupt(x, v).wait_set = x.wait_set
BY DEF IsExecutor, SetInterrupt

LEMMA NewPhase ==
  ASSUME NEW x, IsExecutor(x), NEW v
  PROVE  /\ IsExecutor(SetPhase(x, v)) /\ SetPhase(x, v).phase = v
         /\ SetPhase(x, v).weak_nodes = x.weak_nodes /\ SetPhase(x, v).guards = x.guards
         /\ SetPhase(x, v).spinning = x.spinning /\ SetPhase(x, v).interrupt = x.interrupt
         /\ SetPhase(x, v).wait_set = x.wait_set
BY DEF IsExecutor, SetPhase

LEMMA NewWaitSet ==
  ASSUME NEW x, IsExecutor(x), NEW v
  PROVE  /\ IsExecutor(SetWaitSet(x, v)) /\ SetWaitSet(x, v).wait_set = v
         /\ SetWaitSet(x, v).weak_nodes = x.weak_nodes /\ SetWaitSet(x, v).guards = x.guards
         /\ SetWaitSet(x, v).spinning = x.spinning /\ SetWaitSet(x, v).interrupt = x.interrupt
         /\ SetWaitSet(x, v).phase = x.phase
BY DEF IsExecutor, SetWaitSet

LEMMA IdleIsCall == IsCall(Idle)
BY DEF IsCall, Idle

\* Where the steps of a call lead.
Onwards(c, step) == [c EXCEPT !.at = step]
LEMMA OnwardsIsCall ==
  ASSUME NEW c, IsCall(c), NEW step, c.at # "idle",
         step \in {"push", "guard"} => c.op \in {"add", "some"},
         step = "trigger" => c.op \in {"add", "remove"},
         step = "erase" => c.op \in {"remove", "some"},
         step \in {"begin", "some"} => c.op = "some",
         step \notin {"exchange", "store"}
  PROVE  /\ IsCall(Onwards(c, step)) /\ Onwards(c, step).at = step
         /\ Onwards(c, step).op = c.op /\ Onwards(c, step).exec = c.exec
         /\ Onwards(c, step).node = c.node /\ Onwards(c, step).removed = c.removed
BY DEF IsCall, Onwards

Erased(c, was) == [c EXCEPT !.at = "store", !.removed = was]
LEMMA ErasedIsCall ==
  ASSUME NEW c, IsCall(c), c.at # "idle", c.op \in {"remove", "some"}, NEW was
  PROVE  /\ IsCall(Erased(c, was)) /\ Erased(c, was).at = "store"
         /\ Erased(c, was).removed = was /\ Erased(c, was).op = c.op
         /\ Erased(c, was).exec = c.exec /\ Erased(c, was).node = c.node
<1>1. Erased(c, was) = [op |-> c.op, exec |-> c.exec, node |-> c.node, at |-> "store", removed |-> was]
  <2> DEFINE b == [c EXCEPT !.at = "store"]
  <2>1. b = [op |-> c.op, exec |-> c.exec, node |-> c.node, at |-> "store", removed |-> c.removed]
    BY DEF IsCall
  <2>2. Erased(c, was) = [b EXCEPT !.removed = was] BY DEF Erased
  <2> HIDE DEF b
  <2>3. QED BY <2>1, <2>2
<1>2. c.exec \in Execs BY DEF IsCall
<1>3. QED BY <1>1, <1>2 DEF IsCall

LEMMA GoOnOnwards ==
  ASSUME AreCalls, NEW u \in Users, NEW step, GoOn(u, step)
  PROVE  call' = [call EXCEPT ![u] = Onwards(call[u], step)]
BY DEF AreCalls, GoOn, Onwards, Users

------------------------------------------------------------------------------
(* What a thread in rcl_wait misses is about to be told to it.              *)

WaitedFor(e) == exec[e].wait_set.nodes \cup exec[e].wait_set.busy

\* add_node(n) has listed the node and not yet interrupted the wait, spin_node_some has not
\* yet got to its spin.
Adding(u, e, n) ==
  /\ call[u].exec = e /\ call[u].node = n
  /\ \/ call[u].op = "add" /\ call[u].at = "trigger"
     \/ call[u].op = "some" /\ call[u].at \in {"guard", "begin"}

\* remove_node(n) has erased the node and not yet interrupted the wait.
Removing(u, e, n) ==
  /\ call[u].exec = e /\ call[u].node = n /\ call[u].op = "remove"
  /\ call[u].at = "trigger" \/ (call[u].at = "store" /\ call[u].removed)

\* An entity was added to the node, and its guard condition is not yet triggered.
Notifying(u, n) == call[u].at = "notify" /\ call[u].node = n

Undisturbed(e) == exec[e].phase = "wait" /\ ~ exec[e].interrupt

AddsAreTold ==
  \A e \in Execs : Undisturbed(e) =>
    \A n \in exec[e].weak_nodes \ (expired \cup unannounced \cup WaitedFor(e)) :
      \E u \in Users : Adding(u, e, n)
RemovesAreTold ==
  \A e \in Execs : Undisturbed(e) =>
    \A n \in WaitedFor(e) \ (expired \cup unannounced \cup exec[e].weak_nodes) :
      \E u \in Users : Removing(u, e, n)
EntitiesAreTold ==
  \A e \in Execs : exec[e].phase = "wait" =>
    \A n \in (exec[e].wait_set.guards \cap WaitedFor(e) \cap entities)
               \ (expired \cup stolen \cup exec[e].wait_set.entities) :
      n \in notified \/ \E u \in Users : Notifying(u, n)
Told == AddsAreTold /\ RemovesAreTold /\ EntitiesAreTold

\* A step that leaves nobody in the dark: what it changes is told, or the one who will tell it
\* goes on.
StaysInWait(e) ==
  /\ exec[e].phase = "wait" /\ exec'[e].wait_set = exec[e].wait_set
  /\ ~ exec'[e].interrupt =>
       /\ ~ exec[e].interrupt
       /\ \A n \in exec'[e].weak_nodes \ exec[e].weak_nodes : \E u \in Users : Adding(u, e, n)'
       /\ \A n \in exec[e].weak_nodes \ exec'[e].weak_nodes :
            n \in unannounced' \/ \E u \in Users : Removing(u, e, n)'
       /\ \A u \in Users : \A n : Adding(u, e, n) => Adding(u, e, n)' \/ n \in unannounced'
       /\ \A u \in Users : \A n : Removing(u, e, n) => Removing(u, e, n)'
  /\ \A n \in exec[e].wait_set.guards \cap (notified \ notified') : n \in expired' \cup stolen'
BeginsToWait(e) ==
  WaitedFor(e)' = exec'[e].weak_nodes /\ exec'[e].weak_nodes \cap entities' \subseteq exec'[e].wait_set.entities
Tells ==
  /\ Execs' = Execs /\ Users' = Users
  /\ expired \subseteq expired' /\ unannounced \subseteq unannounced' /\ stolen \subseteq stolen'
  /\ \A e \in Execs : exec'[e].phase = "wait" => StaysInWait(e) \/ BeginsToWait(e)
  /\ \A n \in entities' \ entities : \E u \in Users : Notifying(u, n)'
  /\ \A u \in Users : \A n : Notifying(u, n) => Notifying(u, n)' \/ n \in notified'

LEMMA TellsKeepsTold == Told /\ Tells => Told'
<1> SUFFICES ASSUME Told, Tells PROVE Told' OBVIOUS
<1>1. ASSUME NEW e \in Execs, exec'[e].phase = "wait" PROVE StaysInWait(e) \/ BeginsToWait(e)
  BY <1>1 DEF Tells
<1>2. /\ Execs' = Execs /\ Users' = Users
      /\ expired \subseteq expired' /\ unannounced \subseteq unannounced' /\ stolen \subseteq stolen'
  BY DEF Tells
<1>3. ASSUME NEW e \in Execs, StaysInWait(e) PROVE WaitedFor(e)' = WaitedFor(e)
  BY <1>3 DEF StaysInWait, WaitedFor
<1>4. AddsAreTold'
  <2> SUFFICES ASSUME NEW e \in Execs, Undisturbed(e)',
                      NEW n \in exec'[e].weak_nodes, n \notin expired' \cup unannounced',
                      n \notin WaitedFor(e)'
               PROVE  \E u \in Users : Adding(u, e, n)'
    BY <1>2 DEF AddsAreTold
  <2>1. exec'[e].phase = "wait" /\ ~ exec'[e].interrupt BY DEF Undisturbed
  <2>2. StaysInWait(e) BY <1>1, <2>1 DEF BeginsToWait
  <2>3. CASE n \in exec[e].weak_nodes
    <3>1. Undisturbed(e) /\ n \notin WaitedFor(e) BY <1>3, <2>1, <2>2 DEF StaysInWait, Undisturbed
    <3>2. PICK u \in Users : Adding(u, e, n) BY <1>2, <2>3, <3>1 DEF Told, AddsAreTold
    <3>3. QED BY <2>1, <2>2, <3>2 DEF StaysInWait
  <2>4. CASE n \notin exec[e].weak_nodes BY <2>1, <2>2, <2>4 DEF StaysInWait
  <2>5. QED BY <2>3, <2>4
<1>5. RemovesAreTold'
  <2> SUFFICES ASSUME NEW e \in Execs, Undisturbed(e)',
                      NEW n \in WaitedFor(e)', n \notin expired' \cup unannounced',
                      n \notin exec'[e].weak_nodes
               PROVE  \E u \in Users : Removing(u, e, n)'
    BY <1>2 DEF RemovesAreTold
  <2>1. exec'[e].phase = "wait" /\ ~ exec'[e].interrupt BY DEF Undisturbed
  <2>2. StaysInWait(e) BY <1>1, <2>1 DEF BeginsToWait
  <2>3. CASE n \notin exec[e].weak_nodes
    <3>1. Undisturbed(e) /\ n \in WaitedFor(e) BY <1>3, <2>1, <2>2 DEF StaysInWait, Undisturbed
    <3>2. PICK u \in Users : Removing(u, e, n) BY <1>2, <2>3, <3>1 DEF Told, RemovesAreTold
    <3>3. QED BY <2>1, <2>2, <3>2 DEF StaysInWait
  <2>4. CASE n \in exec[e].weak_nodes BY <2>1, <2>2, <2>4 DEF StaysInWait
  <2>5. QED BY <2>3, <2>4
<1>6. EntitiesAreTold'
  <2> SUFFICES ASSUME NEW e \in Execs, exec'[e].phase = "wait",
                      NEW n \in exec'[e].wait_set.guards, n \in WaitedFor(e)', n \in entities',
                      n \notin expired' \cup stolen', n \notin exec'[e].wait_set.entities
               PROVE  n \in notified' \/ \E u \in Users : Notifying(u, n)'
    BY <1>2 DEF EntitiesAreTold
  <2>1. StaysInWait(e) BY <1>1 DEF BeginsToWait
  <2>2. CASE n \in entities
    <3>1. /\ exec[e].phase = "wait" /\ n \in exec[e].wait_set.guards /\ n \in WaitedFor(e)
          /\ n \notin exec[e].wait_set.entities
      BY <1>3, <2>1 DEF StaysInWait
    <3>2. n \in notified \/ \E u \in Users : Notifying(u, n)
      BY <1>2, <2>2, <3>1 DEF Told, EntitiesAreTold
    <3>3. n \in notified => n \in notified' BY <2>1, <3>1 DEF StaysInWait
    <3>4. QED BY <3>2, <3>3 DEF Tells
  <2>3. CASE n \notin entities BY <2>3 DEF Tells
  <2>4. QED BY <2>2, <2>3
<1>7. QED BY <1>4, <1>5, <1>6 DEF Told

------------------------------------------------------------------------------
(* The flag of a node stands for one claim to it.                           *)

\* An executor lists the node, or a call is on its way from the flag to the list or back.
Lists(e, n) == n \in exec[e].weak_nodes
Moves(u, n) ==
  call[u].node = n /\ (call[u].at = "push" \/ (call[u].at = "store" /\ call[u].removed))

Excepted == expired \cup misremoved
ClaimedOnce(n) ==
  /\ n \in has_executor <=> (\E e \in Execs : Lists(e, n)) \/ (\E u \in Users : Moves(u, n))
  /\ \A e, f \in Execs : Lists(e, n) /\ Lists(f, n) => e = f
  /\ \A u, v \in Users : Moves(u, n) /\ Moves(v, n) => u = v
  /\ \A e \in Execs, u \in Users : ~ (Lists(e, n) /\ Moves(u, n))
OneClaim == \A n : n \notin Excepted => ClaimedOnce(n)

SameClaim(n) ==
  /\ Execs' = Execs /\ Users' = Users
  /\ n \in has_executor' <=> n \in has_executor
  /\ \A e \in Execs : Lists(e, n)' <=> Lists(e, n)
  /\ \A u \in Users : Moves(u, n)' <=> Moves(u, n)

LEMMA SameClaimKept == ASSUME NEW n, ClaimedOnce(n), SameClaim(n) PROVE ClaimedOnce(n)'
BY DEF ClaimedOnce, SameClaim

LEMMA SameClaimsKept ==
  ASSUME OneClaim, Excepted \subseteq Excepted', \A n : n \notin Excepted' => SameClaim(n)
  PROVE  OneClaim'
<1> SUFFICES ASSUME NEW n, n \notin Excepted' PROVE ClaimedOnce(n)' BY DEF OneClaim
<1>1. ClaimedOnce(n) /\ SameClaim(n) BY DEF OneClaim
<1>2. QED BY <1>1, SameClaimKept

------------------------------------------------------------------------------
(* The steps of the calls.                                                  *)

\* A step of a call that is not part of a claim and does not become one.
LEMMA Unclaimed ==
  ASSUME OneClaim, Execs' = Execs, Users' = Users, NEW u \in Users,
         \A v \in Users \ {u} : call'[v] = call[v],
         \A n : ~ Moves(u, n), \A n : ~ Moves(u, n)',
         \A e \in Execs : exec'[e].weak_nodes = exec[e].weak_nodes,
         UNCHANGED <<has_executor, misremoved>>, expired \subseteq expired'
  PROVE  OneClaim'
<1>1. \A n : SameClaim(n) BY DEF SameClaim, Lists, Moves
<1>2. QED BY <1>1, SameClaimsKept DEF Excepted

\* A step of a call that leaves the lists alone, and tells what there is to tell.
LEMMA TellsOn ==
  ASSUME Execs' = Execs, Users' = Users, NEW u \in Users,
         \A v \in Users \ {u} : call'[v] = call[v],
         \A e \in Execs : \A n : Adding(u, e, n) =>
           \/ Adding(u, e, n)'
           \/ exec'[e].phase # "wait" \/ exec'[e].interrupt \/ n \in unannounced',
         \A e \in Execs : \A n : Removing(u, e, n) =>
           Removing(u, e, n)' \/ exec'[e].phase # "wait" \/ exec'[e].interrupt,
         \A n : Notifying(u, n) => n \in notified',
         \A e \in Execs : exec'[e].phase = "wait" =>
           /\ exec[e].phase = "wait" /\ exec'[e].wait_set = exec[e].wait_set
           /\ exec'[e].weak_nodes = exec[e].weak_nodes
           /\ exec[e].interrupt => exec'[e].interrupt,
         UNCHANGED entities, notified \ notified' \subseteq expired',
         expired \subseteq expired', unannounced \subseteq unannounced', UNCHANGED stolen
  PROVE  Tells
<1>1. ASSUME NEW e \in Execs, exec'[e].phase = "wait" PROVE StaysInWait(e)
  BY <1>1 DEF StaysInWait, Adding, Removing
<1>2. QED BY <1>1 DEF Tells, Notifying

\* A call goes on.
LEMMA Goes ==
  ASSUME AreCalls, Execs' = Execs, NEW u \in Users, NEW step, GoOn(u, step), call[u].at # "idle",
         step \in {"push", "guard"} => call[u].op \in {"add", "some"},
         step = "trigger" => call[u].op \in {"add", "remove"},
         step = "erase" => call[u].op \in {"remove", "some"},
         step \in {"begin", "some"} => call[u].op = "some",
         step \notin {"exchange", "store"}
  PROVE  /\ Users' = Users /\ AreCalls'
         /\ \A v \in Users \ {u} : call'[v] = call[v]
         /\ call'[u].at = step /\ call'[u].op = call[u].op /\ call'[u].exec = call[u].exec
         /\ call'[u].node = call[u].node /\ call'[u].removed = call[u].removed
<1> DEFINE c == Onwards(call[u], step)
<1>1. IsCall(call[u]) BY DEF AreCalls
<1>2. IsCall(c) /\ c.at = step /\ c.op = call[u].op /\ c.exec = call[u].exec /\ c.node = call[u].node
      /\ c.removed = call[u].removed
  BY <1>1, OnwardsIsCall
<1>3. call' = [call EXCEPT ![u] = c] BY GoOnOnwards
<1> HIDE DEF c
<1>4. QED BY <1>2, <1>3, CallEffect, ZenonT(60)

\* A call returns.
LEMMA Returns ==
  ASSUME AreCalls, Execs' = Execs, NEW u \in Users, Return(u)
  PROVE  /\ Users' = Users /\ AreCalls'
         /\ \A v \in Users \ {u} : call'[v] = call[v]
         /\ call'[u] = Idle /\ call'[u].at = "idle"
<1>1. call' = [call EXCEPT ![u] = Idle] /\ IsCall(Idle) BY IdleIsCall DEF Return
<1>2. Idle.at = "idle" BY DEF Idle
<1>3. QED BY <1>1, <1>2, CallEffect

LEMMA ExchangeStep ==
  ASSUME Shapes, OneClaim, NEW u \in Users, Exchange(u)
  PROVE  Shapes' /\ Tells /\ OneClaim'
<1> DEFINE m == call[u].node
           c == IF m \in has_executor THEN Idle ELSE Onwards(call[u], "push")
<1>1. AreExecutors /\ AreCalls /\ IsCall(call[u]) /\ call[u].at = "exchange"
  BY DEF Shapes, AreCalls, Exchange, At
<1>2. /\ UNCHANGED <<ok, exec, entities, notified, expired, undefined, misremoved, unannounced, stolen>>
      /\ has_executor' = has_executor \cup {m}
  BY DEF Exchange
<1>3. IsCall(c) BY <1>1, IdleIsCall, OnwardsIsCall DEF IsCall
<1>4. call' = [call EXCEPT ![u] = c] BY <1>1, GoOnOnwards DEF Exchange, Throw, Return
<1>5. c.at = (IF m \in has_executor THEN "idle" ELSE "push") /\ (m \notin has_executor => c.node = m)
  BY <1>1 DEF Idle, Onwards, IsCall
<1> HIDE DEF c
<1>6. Execs' = Execs /\ AreExecutors' BY <1>1, <1>2, SameExec
<1>7. /\ Users' = Users /\ AreCalls'
      /\ call'[u] = c /\ \A v \in Users \ {u} : call'[v] = call[v]
  BY <1>1, <1>3, <1>4, <1>6, CallEffect
<1>8. Tells
  <2>1. \A e, n : ~ Adding(u, e, n) /\ ~ Removing(u, e, n) /\ ~ Notifying(u, n)
    BY <1>1 DEF Adding, Removing, Notifying
  <2>2. QED BY <1>2, <1>6, <1>7, <2>1, TellsOn
<1>9. OneClaim'
  <2>1. CASE m \in has_executor
    <3>1. \A n : ~ Moves(u, n) /\ ~ Moves(u, n)' BY <1>1, <1>5, <1>7, <2>1 DEF Moves
    <3>2. QED BY <1>2, <1>6, <1>7, <2>1, <3>1, Unclaimed
  <2>2. CASE m \notin has_executor
    <3> SUFFICES ASSUME NEW n, n \notin Excepted PROVE ClaimedOnce(n)' BY <1>2 DEF OneClaim, Excepted
    <3>1. ClaimedOnce(n) BY DEF OneClaim
    <3>2. /\ \A e \in Execs : Lists(e, n)' <=> Lists(e, n)
          /\ \A v \in Users \ {u} : Moves(v, n)' <=> Moves(v, n)
          /\ ~ Moves(u, n) /\ (Moves(u, n)' <=> n = m)
      BY <1>1, <1>2, <1>5, <1>7, <2>2 DEF Lists, Moves
    <3>3. CASE n = m BY <1>2, <1>6, <1>7, <2>2, <3>1, <3>2, <3>3 DEF ClaimedOnce
    <3>4. CASE n # m
      <4>1. SameClaim(n) BY <1>2, <1>6, <1>7, <3>2, <3>4 DEF SameClaim
      <4>2. QED BY <3>1, <4>1, SameClaimKept
    <3>5. QED BY <3>3, <3>4
  <2>3. QED BY <2>1, <2>2
<1>10. QED BY <1>6, <1>7, <1>8, <1>9 DEF Shapes

\* What Push leaves of the claims: its call gives its claim to the list.
LEMMA PushStep ==
  ASSUME Shapes, OneClaim, NEW u \in Users, Push(u)
  PROVE  Shapes' /\ Tells /\ OneClaim'
<1> SUFFICES ASSUME NEW e, NEW m, e = call[u].exec, m = call[u].node
             PROVE  Shapes' /\ Tells /\ OneClaim'
  OBVIOUS
<1> DEFINE x == SetList(exec[e], exec[e].weak_nodes \cup {m})
<1>1. /\ AreExecutors /\ AreCalls /\ IsCall(call[u]) /\ call[u].at = "push"
      /\ e \in Execs /\ IsExecutor(exec[e]) /\ call[u].op \in {"add", "some"}
  BY DEF Shapes, AreCalls, AreExecutors, IsCall, Push, At
<1>2. UNCHANGED <<ok, has_executor, entities, notified, expired, misremoved, unannounced, stolen>>
  BY DEF Push
<1>3. CASE m \in exec[e].weak_nodes
  <2>1. Return(u) /\ UNCHANGED exec BY <1>3 DEF Push, Throw
  <2>2. Execs' = Execs /\ AreExecutors' BY <1>1, <2>1, SameExec
  <2>3. /\ Users' = Users /\ AreCalls'
        /\ \A v \in Users \ {u} : call'[v] = call[v]
        /\ call'[u].at = "idle"
    BY <1>1, <2>1, <2>2, Returns
  <2>4. Tells
    <3>1. \A f, n : ~ Adding(u, f, n) /\ ~ Removing(u, f, n) /\ ~ Notifying(u, n)
      BY <1>1 DEF Adding, Removing, Notifying
    <3>2. QED BY <1>2, <2>1, <2>2, <2>3, <3>1, TellsOn
  <2>5. OneClaim'
    <3> SUFFICES ASSUME NEW n, n \notin Excepted PROVE ClaimedOnce(n)' BY <1>2 DEF OneClaim, Excepted
    <3>1. ClaimedOnce(n) BY DEF OneClaim
    <3>2. n # m BY <1>1, <1>3, <3>1 DEF ClaimedOnce, Lists, Moves
    <3>3. SameClaim(n) BY <1>1, <1>2, <2>1, <2>2, <2>3, <3>2 DEF SameClaim, Lists, Moves
    <3>4. QED BY <3>1, <3>3, SameClaimKept
  <2>6. QED BY <2>2, <2>3, <2>4, <2>5 DEF Shapes
<1>4. CASE m \notin exec[e].weak_nodes
  <2>1. /\ exec' = [exec EXCEPT ![e] = x]
        /\ GoOn(u, IF call[u].op = "add" THEN "trigger" ELSE "guard")
    BY <1>4 DEF Push, SetList
  <2>2. /\ IsExecutor(x) /\ x.weak_nodes = exec[e].weak_nodes \cup {m} /\ x.interrupt = exec[e].interrupt
        /\ x.phase = exec[e].phase /\ x.wait_set = exec[e].wait_set
    BY <1>1, NewList
  <2> HIDE DEF x
  <2>3. /\ Execs' = Execs /\ AreExecutors'
        /\ exec'[e] = x /\ \A f \in Execs \ {e} : exec'[f] = exec[f]
    BY <1>1, <2>1, <2>2, ExecEffect
  <2>4. /\ Users' = Users /\ AreCalls'
        /\ \A v \in Users \ {u} : call'[v] = call[v]
        /\ call'[u].at = (IF call[u].op = "add" THEN "trigger" ELSE "guard")
        /\ call'[u].op = call[u].op /\ call'[u].exec = e /\ call'[u].node = m
    BY <1>1, <2>1, <2>3, Goes
  <2>5. Tells
    <3>1. \A f, n : ~ Adding(u, f, n) /\ ~ Removing(u, f, n) /\ ~ Notifying(u, n)
      BY <1>1 DEF Adding, Removing, Notifying
    <3>2. Adding(u, e, m)' BY <1>1, <2>4 DEF Adding
    <3>3. ASSUME NEW f \in Execs, exec'[f].phase = "wait" PROVE StaysInWait(f)
      <4>1. /\ exec[f].phase = "wait" /\ exec'[f].wait_set = exec[f].wait_set
            /\ exec'[f].interrupt = exec[f].interrupt
        BY <2>2, <2>3, <3>3
      <4>2. \A n \in exec'[f].weak_nodes \ exec[f].weak_nodes : f = e /\ n = m BY <2>2, <2>3
      <4>3. exec[f].weak_nodes \subseteq exec'[f].weak_nodes BY <2>2, <2>3
      <4>4. \A v \in Users : \A n : Adding(v, f, n) => Adding(v, f, n)' BY <2>4, <3>1 DEF Adding
      <4>5. \A v \in Users : \A n : Removing(v, f, n) => Removing(v, f, n)' BY <2>4, <3>1 DEF Removing
      <4>6. QED BY <1>2, <2>4, <3>2, <4>1, <4>2, <4>3, <4>4, <4>5 DEF StaysInWait
    <3>4. \A v \in Users : \A n : Notifying(v, n) => Notifying(v, n)' BY <2>4, <3>1 DEF Notifying
    <3>5. QED BY <1>2, <2>3, <2>4, <3>3, <3>4 DEF Tells
  <2>6. OneClaim'
    <3> SUFFICES ASSUME NEW n, n \notin Excepted PROVE ClaimedOnce(n)' BY <1>2 DEF OneClaim, Excepted
    <3>1. ClaimedOnce(n) BY DEF OneClaim
    <3>2. CASE n = m
      <4>1. Moves(u, m) /\ ~ Moves(u, m)' BY <1>1, <2>4 DEF Moves
      <4>2. \A v \in Users : ~ Moves(v, m)' BY <2>4, <3>1, <3>2, <4>1 DEF ClaimedOnce, Moves
      <4>3. Lists(e, m)' /\ \A f \in Execs \ {e} : ~ Lists(f, m)'
        <5>1. \A f \in Execs : ~ Lists(f, m) BY <3>1, <3>2, <4>1 DEF ClaimedOnce
        <5>2. QED BY <2>2, <2>3, <5>1 DEF Lists
      <4>4. m \in has_executor' BY <1>2, <3>1, <3>2, <4>1 DEF ClaimedOnce
      <4>5. QED BY <1>1, <2>3, <2>4, <3>2, <4>2, <4>3, <4>4 DEF ClaimedOnce
    <3>3. CASE n # m
      <4>1. SameClaim(n) BY <1>2, <2>2, <2>3, <2>4, <1>1, <3>3 DEF SameClaim, Lists, Moves
      <4>2. QED BY <3>1, <4>1, SameClaimKept
    <3>4. QED BY <3>2, <3>3
  <2>7. QED BY <2>3, <2>4, <2>5, <2>6 DEF Shapes
<1>5. QED BY <1>3, <1>4

\* Erase takes the claim back from the list.
LEMMA EraseStep ==
  ASSUME Shapes, OneClaim, NEW u \in Users, Erase(u)
  PROVE  Shapes' /\ Tells /\ OneClaim'
<1> SUFFICES ASSUME NEW e, NEW m, NEW was, e = call[u].exec, m = call[u].node,
                    was = (m \in exec[e].weak_nodes)
             PROVE  Shapes' /\ Tells /\ OneClaim'
  OBVIOUS
<1> DEFINE x == SetList(exec[e], exec[e].weak_nodes \ {m})
           c == Erased(call[u], was)
<1>1. /\ AreExecutors /\ AreCalls /\ IsCall(call[u]) /\ call[u].at = "erase"
      /\ e \in Execs /\ IsExecutor(exec[e]) /\ call[u].op \in {"remove", "some"}
  BY DEF Shapes, AreCalls, AreExecutors, IsCall, Erase, At
<1>2. /\ UNCHANGED <<ok, has_executor, entities, notified, expired, misremoved, stolen>>
      /\ unannounced' = IF call[u].op = "some" /\ exec[e].phase = "wait"
                        THEN unannounced \cup {m} ELSE unannounced
  BY DEF Erase
<1>3. exec' = [exec EXCEPT ![e] = x] BY DEF Erase, SetList
<1>4. /\ IsExecutor(x) /\ x.weak_nodes = exec[e].weak_nodes \ {m} /\ x.interrupt = exec[e].interrupt
      /\ x.phase = exec[e].phase /\ x.wait_set = exec[e].wait_set
  BY <1>1, NewList
<1>5. call' = [call EXCEPT ![u] = c] BY <1>1 DEF Erase, AreCalls, Erased
<1>6. IsCall(c) /\ c.at = "store" /\ c.removed = was /\ c.op = call[u].op /\ c.exec = e /\ c.node = m
  BY <1>1, ErasedIsCall
<1> HIDE DEF x, c
<1>7. /\ Execs' = Execs /\ AreExecutors'
      /\ exec'[e] = x /\ \A f \in Execs \ {e} : exec'[f] = exec[f]
  BY <1>1, <1>3, <1>4, ExecEffect
<1>8. /\ Users' = Users /\ AreCalls'
      /\ call'[u] = c /\ \A v \in Users \ {u} : call'[v] = call[v]
  BY <1>1, <1>5, <1>6, <1>7, CallEffect
<1>9. Tells
  <2>1. \A f, n : ~ Adding(u, f, n) /\ ~ Removing(u, f, n) /\ ~ Notifying(u, n)
    BY <1>1 DEF Adding, Removing, Notifying
  <2>2. (was /\ call[u].op = "remove") => Removing(u, e, m)' BY <1>6, <1>8 DEF Removing
  <2>3. ASSUME NEW f \in Execs, exec'[f].phase = "wait" PROVE StaysInWait(f)
    <3>1. /\ exec[f].phase = "wait" /\ exec'[f].wait_set = exec[f].wait_set
          /\ exec'[f].interrupt = exec[f].interrupt
      BY <1>4, <1>7, <2>3
    <3>2. \A n \in exec[f].weak_nodes \ exec'[f].weak_nodes : f = e /\ n = m /\ was BY <1>4, <1>7
    <3>3. exec'[f].weak_nodes \subseteq exec[f].weak_nodes BY <1>4, <1>7
    <3>4. \A v \in Users : \A n : Adding(v, f, n) => Adding(v, f, n)' BY <1>8, <2>1 DEF Adding
    <3>5. \A v \in Users : \A n : Removing(v, f, n) => Removing(v, f, n)' BY <1>8, <2>1 DEF Removing
    <3>6. \A n \in exec[f].weak_nodes \ exec'[f].weak_nodes :
            n \in unannounced' \/ \E v \in Users : Removing(v, f, n)'
      BY <1>1, <1>2, <2>2, <3>1, <3>2
    <3>7. QED BY <1>2, <1>8, <3>1, <3>3, <3>4, <3>5, <3>6 DEF StaysInWait
  <2>4. \A v \in Users : \A n : Notifying(v, n) => Notifying(v, n)' BY <1>8, <2>1 DEF Notifying
  <2>5. QED BY <1>2, <1>7, <1>8, <2>3, <2>4 DEF Tells
<1>10. OneClaim'
  <2> SUFFICES ASSUME NEW n, n \notin Excepted PROVE ClaimedOnce(n)' BY <1>2 DEF OneClaim, Excepted
  <2>1. ClaimedOnce(n) BY DEF OneClaim
  <2>2. CASE n = m /\ was
    <3>1. Lists(e, m) BY <2>2 DEF Lists
    <3>2. \A v \in Users : ~ Moves(v, m) BY <1>1, <2>1, <2>2, <3>1 DEF ClaimedOnce
    <3>3. Moves(u, m)' /\ \A v \in Users \ {u} : ~ Moves(v, m)'
      BY <1>6, <1>8, <2>2, <3>2 DEF Moves
    <3>4. \A f \in Execs \ {e} : ~ Lists(f, m) BY <1>1, <2>1, <2>2, <3>1 DEF ClaimedOnce
    <3>5. \A f \in Execs : ~ Lists(f, m)' BY <1>4, <1>7, <3>4 DEF Lists
    <3>6. m \in has_executor' BY <1>1, <1>2, <2>1, <2>2, <3>1 DEF ClaimedOnce
    <3>7. QED BY <1>7, <1>8, <2>2, <3>3, <3>5, <3>6 DEF ClaimedOnce
  <2>3. CASE ~ (n = m /\ was)
    <3>1. ~ Moves(u, n) /\ ~ Moves(u, n)' BY <1>1, <1>6, <1>8, <2>3 DEF Moves
    <3>2. \A v \in Users : Moves(v, n)' <=> Moves(v, n) BY <1>8, <3>1 DEF Moves
    <3>3. \A f \in Execs : Lists(f, n)' <=> Lists(f, n) BY <1>4, <1>7, <2>3 DEF Lists
    <3>4. SameClaim(n) BY <1>2, <1>7, <1>8, <3>2, <3>3 DEF SameClaim
    <3>5. QED BY <2>1, <3>4, SameClaimKept
  <2>4. QED BY <2>2, <2>3
<1>11. QED BY <1>7, <1>8, <1>9, <1>10 DEF Shapes

\* Store gives the claim up; of another's claim it clears the flag, and the node is excepted.
LEMMA StoreStep ==
  ASSUME Shapes, OneClaim, NEW u \in Users, Store(u)
  PROVE  Shapes' /\ Tells /\ OneClaim'
<1> SUFFICES ASSUME NEW m, m = call[u].node PROVE Shapes' /\ Tells /\ OneClaim' OBVIOUS
<1>1. AreExecutors /\ AreCalls /\ IsCall(call[u]) /\ call[u].at = "store" /\ call[u].op \in {"remove", "some"}
  BY DEF Shapes, AreCalls, IsCall, Store, At
<1>2. /\ UNCHANGED <<ok, exec, entities, notified, expired, undefined, unannounced, stolen>>
      /\ has_executor' = has_executor \ {m}
      /\ misremoved' = IF call[u].removed THEN misremoved ELSE misremoved \cup ({m} \cap has_executor)
      /\ GoOn(u, IF call[u].removed /\ call[u].op = "remove" THEN "trigger" ELSE "unguard")
  BY DEF Store
<1>3. Execs' = Execs /\ AreExecutors' BY <1>1, <1>2, SameExec
<1>4. /\ Users' = Users /\ AreCalls'
      /\ \A v \in Users \ {u} : call'[v] = call[v]
      /\ call'[u].at = (IF call[u].removed /\ call[u].op = "remove" THEN "trigger" ELSE "unguard")
      /\ call'[u].op = call[u].op /\ call'[u].exec = call[u].exec /\ call'[u].node = m
  BY <1>1, <1>2, <1>3, Goes
<1>5. Tells
  <2>1. \A f, n : ~ Adding(u, f, n) /\ ~ Notifying(u, n) BY <1>1 DEF Adding, Notifying
  <2>2. \A f, n : Removing(u, f, n) => Removing(u, f, n)' BY <1>1, <1>4 DEF Removing
  <2>3. QED BY <1>2, <1>3, <1>4, <2>1, <2>2, TellsOn
<1>6. OneClaim'
  <2> SUFFICES ASSUME NEW n, n \notin Excepted' PROVE ClaimedOnce(n)' BY DEF OneClaim
  <2>1. n \notin Excepted /\ ClaimedOnce(n) BY <1>2 DEF OneClaim, Excepted
  <2>2. ~ Moves(u, n)' BY <1>4 DEF Moves
  <2>3. \A v \in Users \ {u} : Moves(v, n)' <=> Moves(v, n) BY <1>4 DEF Moves
  <2>4. \A f \in Execs : Lists(f, n)' <=> Lists(f, n) BY <1>2 DEF Lists
  <2>5. CASE Moves(u, n)
    <3>1. n = m BY <2>5 DEF Moves
    <3>2. \A v \in Users : ~ Moves(v, n)' BY <2>1, <2>2, <2>3, <2>5 DEF ClaimedOnce
    <3>3. \A f \in Execs : ~ Lists(f, n)' BY <2>1, <2>4, <2>5 DEF ClaimedOnce
    <3>4. QED BY <1>2, <1>3, <1>4, <3>1, <3>2, <3>3 DEF ClaimedOnce
  <2>6. CASE ~ Moves(u, n)
    <3>1. n = m => ~ call[u].removed BY <1>1, <2>6 DEF Moves
    <3>2. n \in has_executor' <=> n \in has_executor BY <1>2, <3>1 DEF Excepted
    <3>3. SameClaim(n) BY <1>3, <1>4, <2>2, <2>3, <2>4, <2>6, <3>2 DEF SameClaim
    <3>4. QED BY <2>1, <3>3, SameClaimKept
  <2>7. QED BY <2>5, <2>6
<1>7. QED BY <1>3, <1>4, <1>5, <1>6 DEF Shapes

LEMMA TriggerStep ==
  ASSUME Shapes, OneClaim, NEW u \in Users, Trigger(u)
  PROVE  Shapes' /\ Tells /\ OneClaim'
<1> SUFFICES ASSUME NEW e, NEW m, e = call[u].exec, m = call[u].node
             PROVE  Shapes' /\ Tells /\ OneClaim'
  OBVIOUS
<1> DEFINE x == SetInterrupt(exec[e], TRUE)
<1>1. /\ AreExecutors /\ AreCalls /\ IsCall(call[u]) /\ call[u].at = "trigger"
      /\ e \in Execs /\ IsExecutor(exec[e]) /\ call[u].op \in {"add", "remove"}
  BY DEF Shapes, AreCalls, AreExecutors, IsCall, Trigger, At
<1>2. /\ UNCHANGED regRest /\ exec' = [exec EXCEPT ![e] = x]
      /\ GoOn(u, IF call[u].op = "add" THEN "guard" ELSE "unguard")
  BY DEF Trigger, SetInterrupt
<1>3. /\ IsExecutor(x) /\ x.weak_nodes = exec[e].weak_nodes /\ x.interrupt = TRUE
      /\ x.phase = exec[e].phase /\ x.wait_set = exec[e].wait_set
  BY <1>1, NewInterrupt, ZenonT(60)
<1> HIDE DEF x
<1>4. /\ Execs' = Execs /\ AreExecutors'
      /\ exec'[e] = x /\ \A f \in Execs \ {e} : exec'[f] = exec[f]
  BY <1>1, <1>2, <1>3, ExecEffect
<1>5. /\ Users' = Users /\ AreCalls' /\ \A v \in Users \ {u} : call'[v] = call[v]
      /\ call'[u].at \in {"guard", "unguard"}
  BY <1>1, <1>2, <1>4, Goes
<1>6. Tells
  <2>1. \A f, n : Adding(u, f, n) \/ Removing(u, f, n) => f = e BY DEF Adding, Removing
  <2>2. \A n : ~ Notifying(u, n) BY <1>1 DEF Notifying
  <2>3. \A f \in Execs : exec'[f].phase = "wait" =>
           /\ exec[f].phase = "wait" /\ exec'[f].wait_set = exec[f].wait_set
           /\ exec'[f].weak_nodes = exec[f].weak_nodes
           /\ exec[f].interrupt => exec'[f].interrupt
    BY <1>3, <1>4
  <2>4. exec'[e].interrupt BY <1>3, <1>4
  <2>5. QED BY <1>2, <1>4, <1>5, <2>1, <2>2, <2>3, <2>4, TellsOn DEF regRest
<1>7. OneClaim'
  <2>1. \A n : ~ Moves(u, n) /\ ~ Moves(u, n)' BY <1>1, <1>5 DEF Moves
  <2>2. \A f \in Execs : exec'[f].weak_nodes = exec[f].weak_nodes BY <1>3, <1>4
  <2>3. QED BY <1>2, <1>4, <1>5, <2>1, <2>2, Unclaimed DEF regRest
<1>8. QED BY <1>4, <1>5, <1>6, <1>7 DEF Shapes

LEMMA AddGuardStep ==
  ASSUME Shapes, OneClaim, NEW u \in Users, AddGuard(u)
  PROVE  Shapes' /\ Tells /\ OneClaim'
<1> SUFFICES ASSUME NEW e, NEW m, e = call[u].exec, m = call[u].node
             PROVE  Shapes' /\ Tells /\ OneClaim'
  OBVIOUS
<1> DEFINE x == SetGuards(exec[e], exec[e].guards \cup {m})
<1>1. /\ AreExecutors /\ AreCalls /\ IsCall(call[u]) /\ call[u].at = "guard"
      /\ e \in Execs /\ IsExecutor(exec[e]) /\ call[u].op \in {"add", "some"}
  BY DEF Shapes, AreCalls, AreExecutors, IsCall, AddGuard, At
<1>2. /\ UNCHANGED regRest /\ exec' = [exec EXCEPT ![e] = x]
      /\ IF call[u].op = "add" THEN Return(u) ELSE GoOn(u, "begin")
  BY DEF AddGuard, SetGuards
<1>3. /\ IsExecutor(x) /\ x.weak_nodes = exec[e].weak_nodes /\ x.interrupt = exec[e].interrupt
      /\ x.phase = exec[e].phase /\ x.wait_set = exec[e].wait_set
  BY <1>1, NewGuards
<1> HIDE DEF x
<1>4. /\ Execs' = Execs /\ AreExecutors'
      /\ exec'[e] = x /\ \A f \in Execs \ {e} : exec'[f] = exec[f]
  BY <1>1, <1>2, <1>3, ExecEffect
<1>5. /\ Users' = Users /\ AreCalls' /\ \A v \in Users \ {u} : call'[v] = call[v]
      /\ call'[u].at \in {"idle", "begin"}
      /\ call[u].op = "some" =>
           /\ call'[u].at = "begin" /\ call'[u].op = "some"
           /\ call'[u].exec = e /\ call'[u].node = m
  <2>1. CASE call[u].op = "add" BY <1>1, <1>2, <1>4, <2>1, Returns
  <2>2. CASE call[u].op = "some" BY <1>1, <1>2, <1>4, <2>2, Goes
  <2>3. QED BY <1>1, <2>1, <2>2
<1>6. Tells
  <2>1. \A f, n : Adding(u, f, n) => Adding(u, f, n)' BY <1>1, <1>5 DEF Adding
  <2>2. \A f, n : ~ Removing(u, f, n) /\ ~ Notifying(u, n) BY <1>1 DEF Removing, Notifying
  <2>3. \A f \in Execs : exec'[f].phase = "wait" =>
           /\ exec[f].phase = "wait" /\ exec'[f].wait_set = exec[f].wait_set
           /\ exec'[f].weak_nodes = exec[f].weak_nodes
           /\ exec[f].interrupt => exec'[f].interrupt
    BY <1>3, <1>4
  <2>4. QED BY <1>2, <1>4, <1>5, <2>1, <2>2, <2>3, TellsOn DEF regRest
<1>7. OneClaim'
  <2>1. \A n : ~ Moves(u, n) /\ ~ Moves(u, n)' BY <1>1, <1>5 DEF Moves
  <2>2. \A f \in Execs : exec'[f].weak_nodes = exec[f].weak_nodes BY <1>3, <1>4
  <2>3. QED BY <1>2, <1>4, <1>5, <2>1, <2>2, Unclaimed DEF regRest
<1>8. QED BY <1>4, <1>5, <1>6, <1>7 DEF Shapes

LEMMA RemoveGuardStep ==
  ASSUME Shapes, OneClaim, NEW u \in Users, RemoveGuard(u)
  PROVE  Shapes' /\ Tells /\ OneClaim'
<1> SUFFICES ASSUME NEW e, e = call[u].exec PROVE Shapes' /\ Tells /\ OneClaim' OBVIOUS
<1> DEFINE x == SetGuards(exec[e], exec[e].guards \ {call[u].node})
<1>1. /\ AreExecutors /\ AreCalls /\ call[u].at = "unguard"
      /\ e \in Execs /\ IsExecutor(exec[e])
  BY DEF Shapes, AreCalls, AreExecutors, IsCall, RemoveGuard, At
<1>2. UNCHANGED regRest /\ exec' = [exec EXCEPT ![e] = x] /\ Return(u) BY DEF RemoveGuard, SetGuards
<1>3. /\ IsExecutor(x) /\ x.weak_nodes = exec[e].weak_nodes /\ x.interrupt = exec[e].interrupt
      /\ x.phase = exec[e].phase /\ x.wait_set = exec[e].wait_set
  BY <1>1, NewGuards
<1> HIDE DEF x
<1>4. /\ Execs' = Execs /\ AreExecutors'
      /\ exec'[e] = x /\ \A f \in Execs \ {e} : exec'[f] = exec[f]
  BY <1>1, <1>2, <1>3, ExecEffect
<1>5. Users' = Users /\ AreCalls' /\ (\A v \in Users \ {u} : call'[v] = call[v]) /\ call'[u].at = "idle"
  BY <1>1, <1>2, <1>4, Returns
<1>6. Tells
  <2>1. \A f, n : ~ Adding(u, f, n) /\ ~ Removing(u, f, n) /\ ~ Notifying(u, n)
    BY <1>1 DEF Adding, Removing, Notifying
  <2>2. \A f \in Execs : exec'[f].phase = "wait" =>
           /\ exec[f].phase = "wait" /\ exec'[f].wait_set = exec[f].wait_set
           /\ exec'[f].weak_nodes = exec[f].weak_nodes
           /\ exec[f].interrupt => exec'[f].interrupt
    BY <1>3, <1>4
  <2>3. QED BY <1>2, <1>4, <1>5, <2>1, <2>2, TellsOn DEF regRest
<1>7. OneClaim'
  <2>1. \A n : ~ Moves(u, n) /\ ~ Moves(u, n)' BY <1>1, <1>5 DEF Moves
  <2>2. \A f \in Execs : exec'[f].weak_nodes = exec[f].weak_nodes BY <1>3, <1>4
  <2>3. QED BY <1>2, <1>4, <1>5, <2>1, <2>2, Unclaimed DEF regRest
<1>8. QED BY <1>4, <1>5, <1>6, <1>7 DEF Shapes

LEMMA AddEntityStep ==
  ASSUME Shapes, OneClaim, NEW u \in Users, AddEntity(u)
  PROVE  Shapes' /\ Tells /\ OneClaim'
<1> SUFFICES ASSUME NEW m, m = call[u].node PROVE Shapes' /\ Tells /\ OneClaim' OBVIOUS
<1>1. AreExecutors /\ AreCalls /\ call[u].at = "create" BY DEF Shapes, AddEntity, At
<1>2. /\ UNCHANGED <<ok, exec, has_executor, notified, expired, misremoved, unannounced, stolen>>
      /\ entities' = entities \cup {m} /\ GoOn(u, "notify")
  BY DEF AddEntity, EntersGroup
<1>3. Execs' = Execs /\ AreExecutors' BY <1>1, <1>2, SameExec
<1>4. /\ Users' = Users /\ AreCalls' /\ \A v \in Users \ {u} : call'[v] = call[v]
      /\ call'[u].at = "notify" /\ call'[u].node = m
  BY <1>1, <1>2, <1>3, Goes
<1>5. Tells
  <2>1. \A f, n : ~ Adding(u, f, n) /\ ~ Removing(u, f, n) /\ ~ Notifying(u, n)
    BY <1>1 DEF Adding, Removing, Notifying
  <2>2. ASSUME NEW f \in Execs, exec'[f].phase = "wait" PROVE StaysInWait(f)
    <3>1. \A v \in Users : \A n : Adding(v, f, n) => Adding(v, f, n)' BY <1>4, <2>1 DEF Adding
    <3>2. \A v \in Users : \A n : Removing(v, f, n) => Removing(v, f, n)' BY <1>4, <2>1 DEF Removing
    <3>3. QED BY <1>2, <1>4, <2>2, <3>1, <3>2 DEF StaysInWait
  <2>3. \A v \in Users : \A n : Notifying(v, n) => Notifying(v, n)' BY <1>4, <2>1 DEF Notifying
  <2>4. Notifying(u, m)' BY <1>4 DEF Notifying
  <2>5. QED BY <1>2, <1>3, <1>4, <2>2, <2>3, <2>4 DEF Tells
<1>6. OneClaim'
  <2>1. \A n : ~ Moves(u, n) /\ ~ Moves(u, n)' BY <1>1, <1>4 DEF Moves
  <2>2. QED BY <1>2, <1>3, <1>4, <2>1, Unclaimed
<1>7. QED BY <1>3, <1>4, <1>5, <1>6 DEF Shapes

LEMMA NotifyEntityStep ==
  ASSUME Shapes, OneClaim, NEW u \in Users, NotifyEntity(u)
  PROVE  Shapes' /\ Tells /\ OneClaim'
<1>1. AreExecutors /\ AreCalls /\ call[u].at = "notify" BY DEF Shapes, NotifyEntity, At
<1>2. /\ UNCHANGED <<ok, exec, has_executor, entities, expired, undefined, misremoved, unannounced, stolen>>
      /\ notified' = notified \cup {call[u].node} /\ Return(u)
  BY DEF NotifyEntity
<1>3. Execs' = Execs /\ AreExecutors' BY <1>1, <1>2, SameExec
<1>4. Users' = Users /\ AreCalls' /\ (\A v \in Users \ {u} : call'[v] = call[v]) /\ call'[u].at = "idle"
  BY <1>1, <1>2, <1>3, Returns
<1>5. Tells
  <2>1. \A f, n : ~ Adding(u, f, n) /\ ~ Removing(u, f, n) BY <1>1 DEF Adding, Removing
  <2>2. \A n : Notifying(u, n) => n \in notified' BY <1>2 DEF Notifying
  <2>3. QED BY <1>2, <1>3, <1>4, <2>1, <2>2, TellsOn
<1>6. OneClaim'
  <2>1. \A n : ~ Moves(u, n) /\ ~ Moves(u, n)' BY <1>1, <1>4 DEF Moves
  <2>2. QED BY <1>2, <1>3, <1>4, <2>1, Unclaimed
<1>7. QED BY <1>3, <1>4, <1>5, <1>6 DEF Shapes

LEMMA DestroyNodeStep ==
  ASSUME Shapes, OneClaim, NEW u \in Users, DestroyNode(u)
  PROVE  Shapes' /\ Tells /\ OneClaim'
<1>1. AreExecutors /\ AreCalls /\ call[u].at = "destroy" BY DEF Shapes, DestroyNode, At
<1>2. /\ UNCHANGED <<ok, exec, has_executor, entities, misremoved, unannounced, stolen>>
      /\ expired' = expired \cup {call[u].node} /\ notified' = notified \ {call[u].node} /\ Return(u)
  BY DEF DestroyNode
<1>3. Execs' = Execs /\ AreExecutors' BY <1>1, <1>2, SameExec
<1>4. Users' = Users /\ AreCalls' /\ (\A v \in Users \ {u} : call'[v] = call[v]) /\ call'[u].at = "idle"
  BY <1>1, <1>2, <1>3, Returns
<1>5. Tells
  <2>1. \A f, n : ~ Adding(u, f, n) /\ ~ Removing(u, f, n) /\ ~ Notifying(u, n)
    BY <1>1 DEF Adding, Removing, Notifying
  <2>2. expired \subseteq expired' /\ notified \ notified' \subseteq expired' BY <1>2
  <2>3. QED BY <1>2, <1>3, <1>4, <2>1, <2>2, TellsOn
<1>6. OneClaim'
  <2>1. \A n : ~ Moves(u, n) /\ ~ Moves(u, n)' BY <1>1, <1>4 DEF Moves
  <2>2. QED BY <1>2, <1>3, <1>4, <2>1, Unclaimed
<1>7. QED BY <1>3, <1>4, <1>5, <1>6 DEF Shapes

\* The executor gives up what it lists.
LEMMA DestroyExecutorStep ==
  ASSUME Shapes, OneClaim, NEW u \in Users, DestroyExecutor(u)
  PROVE  Shapes' /\ Tells /\ OneClaim'
<1> SUFFICES ASSUME NEW e, e = call[u].exec PROVE Shapes' /\ Tells /\ OneClaim' OBVIOUS
<1> DEFINE x == SetPhase(NewExecutor, "gone")
<1>1. AreExecutors /\ AreCalls /\ call[u].at = "destruct" /\ e \in Execs
  BY DEF Shapes, AreCalls, IsCall, DestroyExecutor, At
<1>2. /\ UNCHANGED <<ok, entities, notified, expired, undefined, misremoved, unannounced, stolen>>
      /\ has_executor' = has_executor \ (exec[e].weak_nodes \ expired)
      /\ exec' = [exec EXCEPT ![e] = x] /\ Return(u)
  BY DEF DestroyExecutor, SetPhase
<1>3. IsExecutor(x) /\ x.weak_nodes = {} /\ x.phase = "gone"
  <2>1. IsExecutor(NewExecutor) /\ NewExecutor.weak_nodes = {} BY DEF IsExecutor, NewExecutor
  <2>2. QED BY <2>1, NewPhase
<1> HIDE DEF x
<1>4. /\ Execs' = Execs /\ AreExecutors'
      /\ exec'[e] = x /\ \A f \in Execs \ {e} : exec'[f] = exec[f]
  BY <1>1, <1>2, <1>3, ExecEffect
<1>5. Users' = Users /\ AreCalls' /\ (\A v \in Users \ {u} : call'[v] = call[v]) /\ call'[u].at = "idle"
  BY <1>1, <1>2, <1>4, Returns
<1>6. Tells
  <2>1. \A f, n : ~ Adding(u, f, n) /\ ~ Removing(u, f, n) /\ ~ Notifying(u, n)
    BY <1>1 DEF Adding, Removing, Notifying
  <2>2. \A f \in Execs : exec'[f].phase = "wait" => f # e BY <1>3, <1>4
  <2>3. QED BY <1>2, <1>4, <1>5, <2>1, <2>2, TellsOn
<1>7. OneClaim'
  <2> SUFFICES ASSUME NEW n, n \notin Excepted PROVE ClaimedOnce(n)' BY <1>2 DEF OneClaim, Excepted
  <2>1. ClaimedOnce(n) BY DEF OneClaim
  <2>2. \A v \in Users : Moves(v, n)' <=> Moves(v, n) BY <1>1, <1>5 DEF Moves
  <2>3. ~ Lists(e, n)' BY <1>3, <1>4 DEF Lists
  <2>4. \A f \in Execs \ {e} : Lists(f, n)' <=> Lists(f, n) BY <1>4 DEF Lists
  <2>5. CASE Lists(e, n)
    <3>1. n \notin has_executor' BY <1>2, <2>5 DEF Lists, Excepted
    <3>2. \A f \in Execs : ~ Lists(f, n)' BY <1>1, <2>1, <2>3, <2>4, <2>5 DEF ClaimedOnce
    <3>3. \A v \in Users : ~ Moves(v, n)' BY <1>1, <2>1, <2>2, <2>5 DEF ClaimedOnce
    <3>4. QED BY <1>4, <1>5, <3>1, <3>2, <3>3 DEF ClaimedOnce
  <2>6. CASE ~ Lists(e, n)
    <3>1. n \in has_executor' <=> n \in has_executor BY <1>2, <2>6 DEF Lists
    <3>2. SameClaim(n) BY <1>4, <1>5, <2>2, <2>3, <2>4, <2>6, <3>1 DEF SameClaim
    <3>3. QED BY <2>1, <3>2, SameClaimKept
  <2>7. QED BY <2>5, <2>6
<1>8. QED BY <1>4, <1>5, <1>6, <1>7 DEF Shapes

\* A call that goes on or returns, and begins or ends to spin.
LEMMA SpinStep ==
  ASSUME Shapes, OneClaim, NEW u \in Users, NEW e \in Execs, NEW p, p \in {"choose", "out"}, NEW s,
         UNCHANGED <<ok, has_executor, entities, notified, expired, misremoved, stolen>>,
         unannounced \subseteq unannounced',
         \/ UNCHANGED exec
         \/ exec' = [exec EXCEPT ![e].spinning = s, ![e].phase = p],
         \/ Return(u)
         \/ GoOn(u, "loop")
         \/ GoOn(u, "some") /\ call[u].op = "some",
         call[u].at \in {"spin", "loop", "begin"}, call[u].exec = e,
         call[u].at = "begin" => call[u].node \in unannounced' \/ exec'[e].phase = "choose"
  PROVE  Shapes' /\ Tells /\ OneClaim'
<1> DEFINE x == SetPhase(SetSpinning(exec[e], s), p)
<1>1. AreExecutors /\ AreCalls /\ IsExecutor(exec[e]) BY DEF Shapes, AreExecutors
<1>2. /\ IsExecutor(x) /\ x.weak_nodes = exec[e].weak_nodes /\ x.phase = p
  BY <1>1, NewSpinning, NewPhase
<1>3. UNCHANGED exec \/ exec' = [exec EXCEPT ![e] = x] BY <1>1 DEF SetPhase, SetSpinning, AreExecutors
<1> HIDE DEF x
<1>4. /\ Execs' = Execs /\ AreExecutors'
      /\ exec'[e] = exec[e] \/ exec'[e] = x
      /\ \A f \in Execs \ {e} : exec'[f] = exec[f]
  <2>1. CASE UNCHANGED exec BY <1>1, <2>1, SameExec
  <2>2. CASE exec' = [exec EXCEPT ![e] = x] BY <1>1, <1>2, <2>2, ExecEffect
  <2>3. QED BY <1>3, <2>1, <2>2
<1>5. /\ Users' = Users /\ AreCalls' /\ \A v \in Users \ {u} : call'[v] = call[v]
      /\ call'[u].at \in {"idle", "loop", "some"}
  <2>1. CASE Return(u) BY <1>1, <1>4, <2>1, Returns
  <2>2. CASE GoOn(u, "loop") BY <1>1, <1>4, <2>2, Goes
  <2>3. CASE GoOn(u, "some") /\ call[u].op = "some" BY <1>1, <1>4, <2>3, Goes
  <2>4. QED BY <2>1, <2>2, <2>3
<1>6. Tells
  <2>1. \A f, n : ~ Removing(u, f, n) /\ ~ Notifying(u, n) BY DEF Removing, Notifying
  <2>2. \A f, n : Adding(u, f, n) => f = e /\ n = call[u].node /\ call[u].at = "begin" BY DEF Adding
  <2>3. \A f, n : Adding(u, f, n) => n \in unannounced' \/ exec'[f].phase # "wait" BY <2>2
  <2>4. \A f \in Execs : exec'[f].phase = "wait" => exec'[f] = exec[f] BY <1>2, <1>4
  <2>5. QED BY <1>4, <1>5, <2>1, <2>3, <2>4, TellsOn
<1>7. OneClaim'
  <2>1. \A n : ~ Moves(u, n) /\ ~ Moves(u, n)' BY <1>5 DEF Moves
  <2>2. \A f \in Execs : exec'[f].weak_nodes = exec[f].weak_nodes BY <1>2, <1>4
  <2>3. QED BY <1>4, <1>5, <2>1, <2>2, Unclaimed
<1>8. QED BY <1>4, <1>5, <1>6, <1>7 DEF Shapes

LEMMA SpinBeginsStep ==
  ASSUME Shapes, OneClaim, NEW u \in Users, SpinBegins(u)
  PROVE  Shapes' /\ Tells /\ OneClaim'
<1>1. call[u].at = "spin" /\ call[u].exec \in Execs
  BY DEF Shapes, AreCalls, IsCall, SpinBegins, At
<1>2. /\ UNCHANGED <<ok, has_executor, entities, notified, expired, misremoved, stolen>>
      /\ UNCHANGED unannounced
  BY DEF SpinBegins, regRest
<1>3. \/ Return(u) /\ UNCHANGED exec
      \/ /\ GoOn(u, "loop")
         /\ exec' = [exec EXCEPT ![call[u].exec].spinning = TRUE, ![call[u].exec].phase = "choose"]
  BY DEF SpinBegins, Throw
<1>4. QED BY <1>1, <1>2, <1>3, SpinStep

LEMMA SpinLeavesStep ==
  ASSUME Shapes, OneClaim, NEW u \in Users, SpinLeaves(u)
  PROVE  Shapes' /\ Tells /\ OneClaim'
<1>1. call[u].at = "loop" /\ call[u].exec \in Execs
  BY DEF Shapes, AreCalls, IsCall, SpinLeaves, At
<1>2. /\ UNCHANGED <<ok, has_executor, entities, notified, expired, misremoved, stolen>>
      /\ UNCHANGED unannounced
  BY DEF SpinLeaves, regRest
<1>3. /\ Return(u)
      /\ exec' = [exec EXCEPT ![call[u].exec].spinning = FALSE, ![call[u].exec].phase = "out"]
  BY DEF SpinLeaves
<1>4. QED BY <1>1, <1>2, <1>3, SpinStep

LEMMA SomeBeginsStep ==
  ASSUME Shapes, OneClaim, NEW u \in Users, SomeBegins(u)
  PROVE  Shapes' /\ Tells /\ OneClaim'
<1>1. AreExecutors /\ AreCalls /\ call[u].at = "begin" /\ call[u].exec \in Execs /\ call[u].op = "some"
  BY DEF Shapes, AreCalls, IsCall, SomeBegins, At
<1>2. UNCHANGED <<ok, has_executor, entities, notified, expired, misremoved, stolen>> BY DEF SomeBegins
<1>3. CASE exec[call[u].exec].spinning
  <2>1. Return(u) /\ UNCHANGED exec /\ unannounced' = unannounced \cup {call[u].node}
    BY <1>3 DEF SomeBegins, Throw
  <2>2. QED BY <1>1, <1>2, <2>1, SpinStep
<1>4. CASE ~ exec[call[u].exec].spinning
  <2> SUFFICES ASSUME NEW e, e = call[u].exec PROVE Shapes' /\ Tells /\ OneClaim' OBVIOUS
  <2>1. /\ exec' = [exec EXCEPT ![e].spinning = TRUE, ![e].phase = "choose"]
        /\ GoOn(u, "some") /\ UNCHANGED unannounced
    BY <1>4 DEF SomeBegins
  <2>2. exec'[e].phase = "choose"
    <3> SUFFICES ASSUME NEW s, exec' = [exec EXCEPT ![e].spinning = s, ![e].phase = "choose"]
                 PROVE  exec'[e].phase = "choose"
      BY <2>1
    <3> DEFINE x == SetPhase(SetSpinning(exec[e], s), "choose")
    <3>1. IsExecutor(exec[e]) /\ e \in Execs BY <1>1 DEF AreExecutors
    <3>2. IsExecutor(x) /\ x.phase = "choose" BY <3>1, NewSpinning, NewPhase
    <3>3. exec' = [exec EXCEPT ![e] = x] BY <1>1 DEF SetPhase, SetSpinning, AreExecutors
    <3> HIDE DEF x
    <3>4. QED BY <1>1, <3>1, <3>2, <3>3, ExecEffect
  <2>3. QED BY <1>1, <1>2, <2>1, <2>2, SpinStep
<1>5. QED BY <1>3, <1>4

\* An executor drops the nodes that are gone.
LEMMA CleanedList ==
  ASSUME NEW x, IsExecutor(x)
  PROVE  IsExecutor(Cleaned(x)) /\ Cleaned(x).weak_nodes = x.weak_nodes \ expired
<1> DEFINE y == SetGuards(SetList(x, x.weak_nodes \ expired), x.guards \ (x.weak_nodes \cap expired))
<1>1. IsExecutor(y) /\ y.weak_nodes = x.weak_nodes \ expired BY NewList, NewGuards
<1>2. Cleaned(x) = y BY NewList DEF Cleaned, SetGuards, SetList
<1>3. QED BY <1>1, <1>2

\* A step that changes no call, and drops no more than the nodes that are gone.
LEMMA NoNewClaim ==
  ASSUME OneClaim, Execs' = Execs, Users' = Users, \A n : \A v \in Users : Moves(v, n)' <=> Moves(v, n),
         \A e \in Execs : exec[e].weak_nodes \ expired \subseteq exec'[e].weak_nodes
                          /\ exec'[e].weak_nodes \subseteq exec[e].weak_nodes,
         UNCHANGED <<has_executor, expired, misremoved>>
  PROVE  OneClaim'
<1>1. Excepted' = Excepted BY DEF Excepted
<1>2. ASSUME NEW n, n \notin Excepted PROVE SameClaim(n)
  <2>1. \A e \in Execs : Lists(e, n)' <=> Lists(e, n) BY <1>2 DEF Lists, Excepted
  <2>2. QED BY <2>1 DEF SameClaim
<1>3. QED BY <1>1, <1>2, SameClaimsKept

LEMMA SomeEndsStep ==
  ASSUME Shapes, OneClaim, NEW u \in Users, SomeEnds(u)
  PROVE  Shapes' /\ Tells /\ OneClaim'
<1> SUFFICES ASSUME NEW e, e = call[u].exec, NEW idle, idle = FALSE PROVE Shapes' /\ Tells /\ OneClaim'
  OBVIOUS
<1> DEFINE x == SetPhase(SetSpinning(Cleaned(exec[e]), idle), "out")
<1>1. /\ AreExecutors /\ AreCalls /\ call[u].at = "some" /\ call[u].op = "some"
      /\ e \in Execs /\ IsExecutor(exec[e])
  BY DEF Shapes, AreCalls, AreExecutors, IsCall, SomeEnds, At
<1>2. UNCHANGED regRest /\ exec' = [exec EXCEPT ![e] = x] /\ GoOn(u, "erase")
  BY DEF SomeEnds, SetPhase, SetSpinning
<1>3. IsExecutor(x) /\ x.weak_nodes = exec[e].weak_nodes \ expired /\ x.phase = "out"
  BY <1>1, CleanedList, NewSpinning, NewPhase
<1> HIDE DEF x
<1>4. /\ Execs' = Execs /\ AreExecutors'
      /\ exec'[e] = x /\ \A f \in Execs \ {e} : exec'[f] = exec[f]
  BY <1>1, <1>2, <1>3, ExecEffect
<1>5. Users' = Users /\ AreCalls' /\ (\A v \in Users \ {u} : call'[v] = call[v]) /\ call'[u].at = "erase"
  BY <1>1, <1>2, <1>4, Goes
<1>6. Tells
  <2>1. \A f, n : ~ Adding(u, f, n) /\ ~ Removing(u, f, n) /\ ~ Notifying(u, n)
    BY <1>1 DEF Adding, Removing, Notifying
  <2>2. \A f \in Execs : exec'[f].phase = "wait" => exec'[f] = exec[f] BY <1>3, <1>4
  <2>3. QED BY <1>2, <1>4, <1>5, <2>1, <2>2, TellsOn DEF regRest
<1>7. OneClaim'
  <2>1. \A n : \A v \in Users : Moves(v, n)' <=> Moves(v, n) BY <1>1, <1>5 DEF Moves
  <2>2. \A f \in Execs : exec[f].weak_nodes \ expired \subseteq exec'[f].weak_nodes
                          /\ exec'[f].weak_nodes \subseteq exec[f].weak_nodes
    BY <1>3, <1>4
  <2>3. QED BY <1>2, <1>4, <1>5, <2>1, <2>2, NoNewClaim DEF regRest
<1>8. QED BY <1>4, <1>5, <1>6, <1>7 DEF Shapes

LEMMA BeginStep ==
  ASSUME Shapes, OneClaim, NEW u \in Users, NEW op \in DOMAIN FirstStep, NEW e \in Execs, NEW m,
         Begin(u, op, e, m)
  PROVE  Shapes' /\ Tells /\ OneClaim'
<1> DEFINE c == Begun(op, e, m)
<1>1. AreExecutors /\ AreCalls /\ call[u].at = "idle" BY DEF Shapes, Begin, Idle
<1>2. UNCHANGED <<exec, regRest>> /\ call' = [call EXCEPT ![u] = c] BY DEF Begin
<1>3. IsCall(c) /\ c.at \in {"exchange", "erase", "spin", "create", "destroy", "destruct"}
  <2>1. op \in {"add", "some", "remove", "spin", "create", "destroy", "destruct"} BY DEF FirstStep
  <2>2. c = [op |-> op, exec |-> e, node |-> m, at |-> FirstStep[op], removed |-> FALSE] BY DEF Begun
  <2>3. FirstStep["add"] = "exchange" /\ FirstStep["some"] = "exchange" /\ FirstStep["remove"] = "erase"
        /\ FirstStep["spin"] = "spin" /\ FirstStep["create"] = "create"
        /\ FirstStep["destroy"] = "destroy" /\ FirstStep["destruct"] = "destruct"
    BY DEF FirstStep
  <2> HIDE DEF c
  <2>4. QED BY <2>1, <2>2, <2>3 DEF IsCall
<1> HIDE DEF c
<1>4. Execs' = Execs /\ AreExecutors' BY <1>1, <1>2, SameExec
<1>5. Users' = Users /\ AreCalls' /\ (\A v \in Users \ {u} : call'[v] = call[v]) /\ call'[u] = c
  BY <1>1, <1>2, <1>3, <1>4, CallEffect
<1>6. Tells
  <2>1. \A f, n : ~ Adding(u, f, n) /\ ~ Removing(u, f, n) /\ ~ Notifying(u, n)
    BY <1>1 DEF Adding, Removing, Notifying
  <2>2. QED BY <1>2, <1>4, <1>5, <2>1, TellsOn DEF regRest
<1>7. OneClaim'
  <2>1. \A n : ~ Moves(u, n) /\ ~ Moves(u, n)' BY <1>1, <1>3, <1>5 DEF Moves
  <2>2. QED BY <1>2, <1>4, <1>5, <2>1, Unclaimed DEF regRest
<1>8. QED BY <1>4, <1>5, <1>6, <1>7 DEF Shapes

------------------------------------------------------------------------------
(* The steps of the executors.                                              *)

\* A step that changes no call.
LEMMA ExecTells ==
  ASSUME AreCalls, Execs' = Execs, UNCHANGED <<call, entities, expired, unannounced>>,
         stolen \subseteq stolen',
         \A e \in Execs : exec'[e].phase = "wait" =>
           \/ BeginsToWait(e)
           \/ /\ exec[e].phase = "wait" /\ exec'[e].wait_set = exec[e].wait_set
              /\ exec'[e].weak_nodes = exec[e].weak_nodes
              /\ exec[e].interrupt => exec'[e].interrupt
              /\ exec[e].wait_set.guards \cap (notified \ notified') \subseteq stolen'
  PROVE  Users' = Users /\ AreCalls' /\ Tells
<1>1. Users' = Users /\ AreCalls' BY SameCall
<1>2. ASSUME NEW e \in Execs, exec'[e].phase = "wait" PROVE StaysInWait(e) \/ BeginsToWait(e)
  <2>1. \A u \in Users : \A n : /\ Adding(u, e, n)' <=> Adding(u, e, n)
                                /\ Removing(u, e, n)' <=> Removing(u, e, n)
    BY DEF Adding, Removing
  <2>2. QED BY <1>2, <2>1 DEF StaysInWait
<1>3. \A u \in Users : \A n : Notifying(u, n) => Notifying(u, n)' BY DEF Notifying
<1>4. QED BY <1>1, <1>2, <1>3 DEF Tells

LEMMA SameMoves ==
  ASSUME UNCHANGED call
  PROVE  \A n : \A v \in Users : Moves(v, n)' <=> Moves(v, n)
BY DEF Moves

LEMMA FillStep ==
  ASSUME Shapes, OneClaim, NEW e \in Execs, NEW busy, NEW poll, Fill(e, busy, poll)
  PROVE  Shapes' /\ Tells /\ OneClaim'
<1> SUFFICES ASSUME NEW y, y = Cleaned(exec[e]), NEW w,
                    w = [nodes |-> y.weak_nodes \ busy, busy |-> y.weak_nodes \cap busy,
                         guards |-> y.guards, entities |-> y.weak_nodes \cap entities, poll |-> poll]
             PROVE  Shapes' /\ Tells /\ OneClaim'
  OBVIOUS
<1> DEFINE x == SetWaitSet(SetPhase(y, "wait"), w)
<1>1. AreExecutors /\ AreCalls /\ IsExecutor(exec[e]) BY DEF Shapes, AreExecutors
<1>2. UNCHANGED <<call, regRest>> /\ exec' = [exec EXCEPT ![e] = x]
  BY DEF Fill, SetWaitSet, SetPhase
<1>3. IsExecutor(y) /\ y.weak_nodes = exec[e].weak_nodes \ expired BY <1>1, CleanedList
<1>4. IsExecutor(x) /\ x.weak_nodes = exec[e].weak_nodes \ expired /\ x.wait_set = w
  BY <1>3, NewPhase, NewWaitSet
<1>5. w.nodes \cup w.busy = x.weak_nodes /\ w.entities = x.weak_nodes \cap entities
  BY <1>3, <1>4
<1> HIDE DEF x
<1>6. /\ Execs' = Execs /\ AreExecutors'
      /\ exec'[e] = x /\ \A f \in Execs \ {e} : exec'[f] = exec[f]
  BY <1>1, <1>2, <1>4, ExecEffect
<1>7. BeginsToWait(e) BY <1>2, <1>4, <1>5, <1>6 DEF BeginsToWait, WaitedFor, regRest
<1>8. Users' = Users /\ AreCalls' /\ Tells BY <1>1, <1>2, <1>6, <1>7, ExecTells DEF regRest
<1>9. OneClaim'
  <2>1. \A f \in Execs : exec[f].weak_nodes \ expired \subseteq exec'[f].weak_nodes
                          /\ exec'[f].weak_nodes \subseteq exec[f].weak_nodes
    BY <1>4, <1>6
  <2>2. QED BY <1>2, <1>6, <1>8, <2>1, SameMoves, NoNewClaim DEF regRest
<1>10. QED BY <1>6, <1>8, <1>9 DEF Shapes

\* Nobody else waits in vain for a guard condition an executor has consumed, but where it was
\* stolen.
LEMMA LeavesStep ==
  ASSUME Shapes, OneClaim, NEW e \in Execs, NEW phase \in {"choose", "busy"}, LeavesWait(e, phase)
  PROVE  Shapes' /\ Tells /\ OneClaim'
<1> SUFFICES ASSUME NEW no, no = FALSE PROVE Shapes' /\ Tells /\ OneClaim' OBVIOUS
<1> DEFINE x == SetWaitSet(SetInterrupt(SetPhase(exec[e], phase), no), NotWaiting)
<1>1. AreExecutors /\ AreCalls /\ IsExecutor(exec[e]) BY DEF Shapes, AreExecutors
<1>2. /\ exec' = [exec EXCEPT ![e] = x]
      /\ notified' = notified \ exec[e].wait_set.guards
      /\ \A f \in Execs \ {e} : exec[f].phase = "wait" =>
           exec[f].wait_set.guards \cap (notified \ notified') \subseteq stolen'
      /\ stolen \subseteq stolen'
      /\ UNCHANGED <<ok, has_executor, entities, expired, call, undefined, misremoved, unannounced>>
  BY DEF LeavesWait, SetWaitSet, SetInterrupt, SetPhase
<1>3. IsExecutor(x) /\ x.weak_nodes = exec[e].weak_nodes /\ x.phase = phase
  BY <1>1, NewPhase, NewInterrupt, NewWaitSet
<1> HIDE DEF x
<1>4. /\ Execs' = Execs /\ AreExecutors'
      /\ exec'[e] = x /\ \A f \in Execs \ {e} : exec'[f] = exec[f]
  BY <1>1, <1>2, <1>3, ExecEffect
<1>5. Users' = Users /\ AreCalls' /\ Tells BY <1>1, <1>2, <1>3, <1>4, ExecTells
<1>6. OneClaim'
  <2>1. \A f \in Execs : exec'[f].weak_nodes = exec[f].weak_nodes BY <1>3, <1>4
  <2>2. QED BY <1>2, <1>4, <1>5, <2>1, SameMoves, NoNewClaim
<1>7. QED BY <1>4, <1>5, <1>6 DEF Shapes

LEMMA WakeStep ==
  ASSUME Shapes, OneClaim, NEW e \in Execs, Wake(e)
  PROVE  Shapes' /\ Tells /\ OneClaim'
<1>1. LeavesWait(e, "choose") BY DEF Wake
<1>2. QED BY <1>1, LeavesStep

\* A thread of an executor takes a callback, or gives back.
LEMMA ThreadStep ==
  ASSUME Shapes, OneClaim, NEW e \in Execs, UNCHANGED <<call, regRest>>,
         NEW x, IsExecutor(x), exec' = [exec EXCEPT ![e] = x],
         x.weak_nodes = exec[e].weak_nodes,
         x.phase = "wait" =>
           /\ exec[e].phase = "wait" /\ x.wait_set = exec[e].wait_set
           /\ exec[e].interrupt => x.interrupt
  PROVE  Shapes' /\ Tells /\ OneClaim'
<1>1. AreExecutors /\ AreCalls BY DEF Shapes
<1>2. /\ Execs' = Execs /\ AreExecutors'
      /\ exec'[e] = x /\ \A f \in Execs \ {e} : exec'[f] = exec[f]
  BY <1>1, ExecEffect
<1>3. Users' = Users /\ AreCalls' /\ Tells BY <1>1, <1>2, ExecTells DEF regRest
<1>4. OneClaim'
  <2>1. \A f \in Execs : exec'[f].weak_nodes = exec[f].weak_nodes BY <1>2
  <2>2. QED BY <1>2, <1>3, <2>1, SameMoves, NoNewClaim DEF regRest
<1>5. QED BY <1>2, <1>3, <1>4 DEF Shapes

LEMMA TakenStep ==
  ASSUME Shapes, OneClaim, NEW e \in Execs, NEW phase, Taken(e, phase)
  PROVE  Shapes' /\ Tells /\ OneClaim'
<1>1. phase \in {"choose", "busy"} BY DEF Taken
<1>2. CASE LeavesWait(e, phase) BY <1>1, <1>2, LeavesStep
<1>3. CASE ~ LeavesWait(e, phase)
  <2> DEFINE x == SetWaitSet(SetPhase(exec[e], phase), NotWaiting)
  <2>1. IsExecutor(exec[e]) BY DEF Shapes, AreExecutors
  <2>2. UNCHANGED <<call, regRest>> /\ exec' = [exec EXCEPT ![e] = x]
    BY <1>3 DEF Taken, SetWaitSet, SetPhase
  <2>3. IsExecutor(x) /\ x.weak_nodes = exec[e].weak_nodes /\ x.phase = phase
    BY <2>1, NewPhase, NewWaitSet
  <2> HIDE DEF x
  <2>4. QED BY <1>1, <2>2, <2>3, ThreadStep
<1>4. QED BY <1>2, <1>3

LEMMA ReleasedStep ==
  ASSUME Shapes, OneClaim, NEW e \in Execs, Released(e)
  PROVE  Shapes' /\ Tells /\ OneClaim'
<1>0. SUFFICES ASSUME NEW yes, yes = TRUE, NEW p,
                     p = IF exec[e].phase = "busy" THEN "choose" ELSE exec[e].phase
              PROVE  Shapes' /\ Tells /\ OneClaim'
  OBVIOUS
<1> DEFINE x == SetPhase(SetInterrupt(exec[e], yes), p)
<1>1. AreExecutors /\ IsExecutor(exec[e]) BY DEF Shapes, AreExecutors
<1>2. UNCHANGED <<call, regRest>> /\ exec' = [exec EXCEPT ![e] = x]
  BY <1>0, <1>1 DEF Released, SetInterrupt, SetPhase, AreExecutors, IsExecutor
<1>3. /\ IsExecutor(x) /\ x.weak_nodes = exec[e].weak_nodes /\ x.phase = p /\ x.interrupt = yes
      /\ x.wait_set = exec[e].wait_set
  <2> DEFINE y == SetInterrupt(exec[e], yes)
  <2>1. /\ IsExecutor(y) /\ y.weak_nodes = exec[e].weak_nodes /\ y.interrupt = yes
        /\ y.wait_set = exec[e].wait_set
    BY <1>1, NewInterrupt
  <2>2. x = SetPhase(y, p) OBVIOUS
  <2> HIDE DEF x, y
  <2>3. QED BY <2>1, <2>2, NewPhase
<1> HIDE DEF x
<1>4. QED BY <1>0, <1>2, <1>3, ThreadStep

LEMMA AssignStep ==
  ASSUME Shapes, OneClaim, NEW share, Assign(share)
  PROVE  Shapes' /\ Tells /\ OneClaim'
<1> DEFINE x(e) == SetInterrupt(SetGuards(SetList(exec[e], share[e]), share[e]),
                                exec[e].interrupt \/ share[e] # {})
<1>1. AreExecutors /\ AreCalls /\ \A u \in Users : call[u].at = "idle"
  <2>1. Idle.at = "idle" BY DEF Idle
  <2>2. QED BY <2>1 DEF Shapes, Assign
<1>2. /\ exec' = [e \in Execs |-> x(e)]
      /\ has_executor' = UNION {share[e] : e \in Execs}
      /\ \A e, f \in Execs : e # f => share[e] \cap share[f] = {}
      /\ \A e \in Execs : exec[e].phase = "out"
      /\ UNCHANGED <<ok, entities, notified, expired, call, undefined, misremoved, unannounced, stolen>>
  BY DEF Assign, SetInterrupt, SetGuards, SetList
<1>3. ASSUME NEW e \in Execs PROVE IsExecutor(x(e)) /\ x(e).weak_nodes = share[e] /\ x(e).phase = exec[e].phase
  <2> SUFFICES ASSUME NEW i, i = (exec[e].interrupt \/ share[e] # {}),
                      NEW y, y = SetInterrupt(SetGuards(SetList(exec[e], share[e]), share[e]), i)
               PROVE  IsExecutor(y) /\ y.weak_nodes = share[e] /\ y.phase = exec[e].phase
    OBVIOUS
  <2>1. IsExecutor(exec[e]) BY <1>1 DEF AreExecutors
  <2>2. QED BY <2>1, NewList, NewGuards, NewInterrupt
<1> HIDE DEF x
<1>4. Execs' = Execs /\ AreExecutors' /\ \A e \in Execs : exec'[e].weak_nodes = share[e] /\ exec'[e].phase = "out"
  BY <1>2, <1>3 DEF AreExecutors, Execs
<1>5. Users' = Users /\ AreCalls' /\ Tells BY <1>1, <1>2, <1>4, ExecTells
<1>6. OneClaim'
  <2> SUFFICES ASSUME NEW n PROVE ClaimedOnce(n)' BY DEF OneClaim
  <2>1. \A v \in Users : ~ Moves(v, n)' BY <1>1, <1>2 DEF Moves
  <2>2. \A e \in Execs : Lists(e, n)' <=> n \in share[e] BY <1>4 DEF Lists
  <2>3. n \in has_executor' <=> \E e \in Execs : n \in share[e] BY <1>2
  <2>4. QED BY <1>2, <1>4, <1>5, <2>1, <2>2, <2>3 DEF ClaimedOnce
<1>7. QED BY <1>4, <1>5, <1>6 DEF Shapes

LEMMA ShutdownStep ==
  ASSUME Shapes, OneClaim, ContextShutdown
  PROVE  Shapes' /\ Tells /\ OneClaim'
<1>1. UNCHANGED <<exec, has_executor, entities, notified, expired, call, misremoved, unannounced, stolen>>
  BY DEF ContextShutdown
<1>2. Execs' = Execs /\ AreExecutors' BY <1>1, SameExec DEF Shapes
<1>3. Users' = Users /\ AreCalls' /\ Tells BY <1>1, <1>2, ExecTells DEF Shapes
<1>4. OneClaim' BY <1>1, <1>2, <1>3, SameMoves, NoNewClaim
<1>5. QED BY <1>2, <1>3, <1>4 DEF Shapes

LEMMA InterruptStep ==
  ASSUME Shapes, OneClaim, InterruptWaitSets
  PROVE  Shapes' /\ Tells /\ OneClaim'
<1> SUFFICES ASSUME NEW yes, yes = TRUE PROVE Shapes' /\ Tells /\ OneClaim' OBVIOUS
<1>1. UNCHANGED <<call, regRest>> /\ exec' = [e \in Execs |-> SetInterrupt(exec[e], yes)]
  BY DEF InterruptWaitSets, SetInterrupt
<1>2. \A e \in Execs : LET y == SetInterrupt(exec[e], yes)
                       IN  /\ IsExecutor(y) /\ y.weak_nodes = exec[e].weak_nodes /\ y.interrupt = yes
                           /\ y.phase = exec[e].phase /\ y.wait_set = exec[e].wait_set
  BY NewInterrupt, ZenonT(60) DEF Shapes, AreExecutors
<1>3. /\ Execs' = Execs /\ AreExecutors'
      /\ \A e \in Execs : /\ exec'[e].weak_nodes = exec[e].weak_nodes /\ exec'[e].interrupt
                          /\ exec'[e].phase = exec[e].phase /\ exec'[e].wait_set = exec[e].wait_set
  BY <1>1, <1>2 DEF AreExecutors, Execs
<1>4. Users' = Users /\ AreCalls' /\ Tells BY <1>1, <1>3, ExecTells DEF Shapes, regRest
<1>5. OneClaim' BY <1>1, <1>3, <1>4, SameMoves, NoNewClaim DEF regRest
<1>6. QED BY <1>3, <1>4, <1>5 DEF Shapes

------------------------------------------------------------------------------
(* The invariant and the theorems.                                          *)

RegistrationInv == Shapes /\ Told /\ OneClaim

LEMMA RegistrationStarts == ASSUME NEW count, RegistrationInit(count) PROVE RegistrationInv
<1>1. /\ exec = [e \in 1 .. count |-> NewExecutor] /\ call = [u \in 0 .. count |-> Idle]
      /\ has_executor = {}
  BY DEF RegistrationInit
<1>2. /\ IsExecutor(NewExecutor) /\ NewExecutor.weak_nodes = {} /\ NewExecutor.phase = "out"
  BY DEF IsExecutor, NewExecutor
<1>3. /\ Execs = 1 .. count /\ \A e \in Execs : exec[e] = NewExecutor
      /\ Users = 0 .. count /\ \A u \in Users : call[u] = Idle
  BY <1>1 DEF Execs, Users
<1>4. Shapes BY <1>1, <1>2, <1>3, IdleIsCall DEF Shapes, AreExecutors, AreCalls
<1>5. Told
  <2>1. \A e \in Execs : exec[e].phase # "wait" BY <1>2, <1>3
  <2>2. QED BY <2>1 DEF Told, AddsAreTold, RemovesAreTold, EntitiesAreTold, Undisturbed
<1>6. OneClaim
  <2>1. Idle.at = "idle" BY DEF Idle
  <2>2. \A n : (\A e \in Execs : ~ Lists(e, n)) /\ (\A u \in Users : ~ Moves(u, n))
    BY <1>2, <1>3, <2>1 DEF Lists, Moves
  <2>3. QED BY <1>1, <2>2 DEF OneClaim, ClaimedOnce
<1>7. QED BY <1>4, <1>5, <1>6 DEF RegistrationInv

LEMMA RegistrationTells ==
  ASSUME Shapes, Told, OneClaim, [RegistrationNext]_regVars
  PROVE  Shapes' /\ Tells /\ OneClaim'
<1>1. ASSUME NEW u \in Users, RegistrationStep(u) PROVE Shapes' /\ Tells /\ OneClaim'
  BY <1>1, ExchangeStep, PushStep, TriggerStep, AddGuardStep, EraseStep, StoreStep, RemoveGuardStep,
     AddEntityStep, NotifyEntityStep, DestroyNodeStep, DestroyExecutorStep, SpinBeginsStep,
     SomeBeginsStep, SomeEndsStep DEF RegistrationStep
<1>2. ASSUME NEW u \in Users, SpinLeaves(u) PROVE Shapes' /\ Tells /\ OneClaim' BY <1>2, SpinLeavesStep
<1>3. ASSUME NEW u \in Users, NEW op \in DOMAIN FirstStep, NEW e \in Execs, NEW n, Begin(u, op, e, n)
      PROVE  Shapes' /\ Tells /\ OneClaim'
  BY <1>3, BeginStep
<1>4. ASSUME NEW e \in Execs, NEW poll \in BOOLEAN, NEW busy, Fill(e, busy, poll)
      PROVE  Shapes' /\ Tells /\ OneClaim'
  BY <1>4, FillStep
<1>5. ASSUME NEW e \in Execs, Wake(e) \/ Released(e) \/ \E phase : Taken(e, phase)
      PROVE  Shapes' /\ Tells /\ OneClaim'
  BY <1>5, WakeStep, ReleasedStep, TakenStep
<1>6. ASSUME NEW share, Assign(share) PROVE Shapes' /\ Tells /\ OneClaim' BY <1>6, AssignStep
<1>7. CASE ContextShutdown \/ InterruptWaitSets BY <1>7, ShutdownStep, InterruptStep
<1>8. CASE UNCHANGED regVars
  <2>1. UNCHANGED <<exec, call, regRest>> BY <1>8 DEF regVars
  <2>2. Execs' = Execs /\ AreExecutors' BY <2>1, SameExec DEF Shapes
  <2>3. Users' = Users /\ AreCalls' /\ Tells BY <2>1, <2>2, ExecTells DEF Shapes, regRest
  <2>4. OneClaim' BY <2>1, <2>2, <2>3, SameMoves, NoNewClaim DEF regRest
  <2>5. QED BY <2>2, <2>3, <2>4 DEF Shapes
<1>9. QED BY <1>1, <1>2, <1>3, <1>4, <1>5, <1>6, <1>7, <1>8 DEF RegistrationNext

LEMMA RegistrationStepKeeps == RegistrationInv /\ [RegistrationNext]_regVars => RegistrationInv'
BY RegistrationTells, TellsKeepsTold DEF RegistrationInv

LEMMA RegistrationInvariant == RegistrationSpec => []RegistrationInv
<1>1. (\E count : RegistrationInit(count)) => RegistrationInv BY RegistrationStarts
<1>2. QED BY <1>1, RegistrationStepKeeps, PTL DEF RegistrationSpec

LEMMA ToldSees == Told => WaitSeesRegistration
<1> SUFFICES ASSUME Told, Quiet, NEW e \in Execs, exec[e].phase = "wait", ~ Pending(e)
             PROVE  LET w == exec[e].wait_set
                        n == exec[e].weak_nodes \ expired
                    IN  /\ n \ unannounced \subseteq w.nodes \cup w.busy
                        /\ (w.nodes \cup w.busy) \ (expired \cup unannounced) \subseteq n
                        /\ (n \ (unannounced \cup stolen)) \cap w.guards \cap entities \subseteq w.entities
  BY DEF WaitSeesRegistration
<1>1. Undisturbed(e) /\ exec[e].wait_set.guards \cap notified = {} BY DEF Undisturbed, Pending
<1>2. \A u \in Users : call[u].at \in {"idle", "loop"} BY DEF Quiet
<1>3. \A u \in Users : \A n : ~ Adding(u, e, n) /\ ~ Removing(u, e, n) /\ ~ Notifying(u, n)
  BY <1>2 DEF Adding, Removing, Notifying
<1>4. exec[e].weak_nodes \ (expired \cup unannounced) \subseteq WaitedFor(e)
  BY <1>1, <1>3 DEF Told, AddsAreTold
<1>5. WaitedFor(e) \ (expired \cup unannounced) \subseteq exec[e].weak_nodes \ expired
  BY <1>1, <1>3 DEF Told, RemovesAreTold
<1>6. (exec[e].wait_set.guards \cap WaitedFor(e) \cap entities) \ (expired \cup stolen)
        \subseteq exec[e].wait_set.entities
  BY <1>1, <1>3 DEF Told, EntitiesAreTold
<1>7. QED BY <1>4, <1>5, <1>6 DEF WaitedFor

LEMMA OneClaimAssociates == OneClaim => AssociatedIffListed
<1> SUFFICES ASSUME OneClaim, Quiet,
                    NEW n \in (AllListed \cup has_executor) \ (expired \cup misremoved)
             PROVE  n \in has_executor /\ Cardinality({e \in Execs : n \in exec[e].weak_nodes}) = 1
  BY DEF AssociatedIffListed
<1>1. ClaimedOnce(n) BY DEF OneClaim, Excepted
<1>2. \A u \in Users : ~ Moves(u, n) BY DEF Quiet, Moves
<1>3. n \in has_executor \/ \E e \in Execs : Lists(e, n)
  <2>1. n \in AllListed => \E e \in Execs : Lists(e, n) BY DEF AllListed, Lists
  <2>2. QED BY <2>1
<1>4. PICK e \in Execs : Lists(e, n) BY <1>1, <1>2, <1>3 DEF ClaimedOnce
<1>5. {f \in Execs : n \in exec[f].weak_nodes} = {e} BY <1>1, <1>4 DEF ClaimedOnce, Lists
<1>6. QED BY <1>1, <1>4, <1>5, FS_Singleton DEF ClaimedOnce

\* Whatever threads call add_node, remove_node, spin, spin_some and the add_... of nodes, in
\* whatever order, and whenever nodes and executors are destroyed: an executor that stays in
\* rcl_wait waits for the nodes it has and for the entities of every node whose guard condition
\* it waits for.
THEOREM RegistrationIsSeen == RegistrationSpec => []WaitSeesRegistration
<1>1. RegistrationInv => WaitSeesRegistration BY ToldSees DEF RegistrationInv
<1>2. QED BY <1>1, RegistrationInvariant, PTL

\* And between such calls associated_with_executor_ is set exactly for the nodes that one
\* executor lists, and no two executors list the same node.
THEOREM OneExecutorPerNode == RegistrationSpec => []AssociatedIffListed
<1>1. RegistrationInv => AssociatedIffListed BY OneClaimAssociates DEF RegistrationInv
<1>2. QED BY <1>1, RegistrationInvariant, PTL

------------------------------------------------------------------------------
(* What the programs do is such a use.                                      *)

LEMMA MainRegisters == MainStep => [RegistrationNext]_regVars
<1>1. ASSUME MainCalls PROVE RegistrationNext
  <2>1. PICK op \in {"add", "remove", "spin"} : Begin(0, op, NextOp.exec, NextOp.node)
    BY <1>1 DEF MainCalls
  <2>2. op \in DOMAIN FirstStep BY DEF FirstStep
  <2>3. 0 \in Users /\ NextOp.exec \in Execs BY <2>1 DEF Begin
  <2>4. QED BY <2>1, <2>2, <2>3 DEF RegistrationNext
<1>2. ASSUME MainSpawns PROVE RegistrationNext
  <2>1. Begin(NextOp.exec, "spin", NextOp.exec, Nobody) BY <1>2 DEF MainSpawns
  <2>2. "spin" \in DOMAIN FirstStep BY DEF FirstStep
  <2>3. NextOp.exec \in Users /\ NextOp.exec \in Execs BY <2>1 DEF Begin
  <2>4. QED BY <2>1, <2>2, <2>3 DEF RegistrationNext
<1>3. (MainJoins \/ MainCalibrates) => UNCHANGED regVars BY DEF MainJoins, MainCalibrates
<1>4. MainEnds => RegistrationNext BY DEF MainEnds, RegistrationNext
<1>5. Allocate => RegistrationNext BY DEF Allocate, RegistrationNext
<1>6. QED BY <1>1, <1>2, <1>3, <1>4, <1>5 DEF MainStep

LEMMA ExecutorsRegister ==
  ASSUME NEW e \in Execs, ExecutorWaits(e) \/ ExecutorWakes(e)
  PROVE  RegistrationNext
<1>1. ASSUME ExecutorWaits(e) PROVE RegistrationNext
  <2>1. PICK poll \in BOOLEAN : \E busy : Fill(e, busy, poll) BY <1>1 DEF ExecutorWaits
  <2>2. QED BY <2>1 DEF RegistrationNext
<1>2. ASSUME ExecutorWakes(e) PROVE RegistrationNext BY <1>2 DEF ExecutorWakes, RegistrationNext
<1>3. QED BY <1>1, <1>2

LEMMA CallbacksRegister ==
  ASSUME NEW i, PathStep(i)
  PROVE  [RegistrationNext]_regVars
<1>1. ASSUME NEW e, NEW phase, Taken(e, phase) PROVE RegistrationNext
  <2>1. e \in Execs BY <1>1 DEF Taken
  <2>2. QED BY <1>1, <2>1 DEF RegistrationNext
<1>2. ASSUME NEW e, Released(e) PROVE RegistrationNext
  <2>1. e \in Execs BY <1>2 DEF Released
  <2>2. QED BY <1>2, <2>1 DEF RegistrationNext
<1>3. (Take(i) \/ ResumeRest(i)) => RegistrationNext BY <1>1 DEF Take, ResumeRest
<1>4. (RecordCoroutine(i) \/ CallbackReturns(i)) => RegistrationNext
  BY <1>2 DEF RecordCoroutine, CallbackReturns
<1>5. (Work(i) \/ Launch(i) \/ Await(i) \/ SleepEnds(i) \/ Sync(i) \/ Publish(i))
      => UNCHANGED regVars
  BY DEF Work, Launch, Await, SleepEnds, Sync, Publish
<1>6. QED BY <1>3, <1>4, <1>5 DEF PathStep

LEMMA ProgramsRegister == [Next]_vars => [RegistrationNext]_regVars
<1> SUFFICES ASSUME [Next]_vars PROVE [RegistrationNext]_regVars OBVIOUS
<1>1. CASE MainStep BY <1>1, MainRegisters
<1>2. InterruptAll => RegistrationNext BY DEF InterruptAll, RegistrationNext
<1>3. ASSUME NEW u \in Users, CallStep(u) \/ SpinReturns(u) PROVE RegistrationNext
  BY <1>3 DEF CallStep, SpinReturns, RegistrationNext
<1>4. ASSUME NEW e \in Execs, ExecutorWaits(e) \/ ExecutorWakes(e) PROVE RegistrationNext
  BY <1>4, ExecutorsRegister
<1>5. ASSUME NEW i, PathStep(i) PROVE [RegistrationNext]_regVars BY <1>5, CallbacksRegister
<1>6. Signal => RegistrationNext BY DEF Signal, RegistrationNext
<1>7. ASSUME NEW u, FreeCall(u) PROVE RegistrationNext
  <2>1. PICK op \in DOMAIN FirstStep : \E e, n : Begin(u, op, e, n) BY <1>7 DEF FreeCall
  <2>2. PICK e, n : Begin(u, op, e, n) BY <2>1
  <2>3. u \in Users /\ e \in Execs BY <2>2 DEF Begin
  <2>4. QED BY <2>2, <2>3 DEF RegistrationNext
<1>8. CASE UNCHANGED vars BY <1>8 DEF vars
<1>9. QED BY <1>1, <1>2, <1>3, <1>4, <1>5, <1>6, <1>7, <1>8 DEF Next, System

\* The executors of a program are the same ones to the end.
LEMMA ExecutorsKept == ASSUME RegistrationInv, [Next]_vars PROVE Execs' = Execs
BY ProgramsRegister, RegistrationTells DEF RegistrationInv, Tells

LEMMA ProgramsStartUnregistered == Init => \E count : RegistrationInit(count)
BY DEF Init

LEMMA ProgramsRegisterOnly == Spec => RegistrationSpec
BY ProgramsStartUnregistered, ProgramsRegister, PTL DEF Spec, RegistrationSpec

\* In every program a thread in rcl_wait misses no node and no entity that was registered.
THEOREM ProgramsSeeRegistration == Spec => []WaitSeesRegistration
BY ProgramsRegisterOnly, RegistrationIsSeen, PTL

\* In every program a node belongs to one executor, the one that lists it, or to none.
THEOREM ProgramsAssociateOnce == Spec => []AssociatedIffListed
BY ProgramsRegisterOnly, OneExecutorPerNode, PTL

------------------------------------------------------------------------------
(* How a program ends.                                                      *)

\* The program and its script are those that were chosen.
Fixed ==
  /\ prog \in DOMAIN Main /\ kind = Main[prog].kind
  /\ script = ScriptOf(prog) /\ threads = ThreadsIn(prog)
  /\ Count(prog) \in Nat /\ Execs = 1 .. Count(prog) /\ Users = 0 .. Count(prog)
  /\ graph = (IF Distr(prog) THEN GraphOf(prog) ELSE <<>>)
  /\ size = (IF Distr(prog) THEN <<Main[prog].threads[1], Main[prog].nodelets>> ELSE <<1, 1>>)
  /\ found = (IF graph = <<>> THEN <<>> ELSE Layers(graph))

\* Main is in the call before its position, and every other thread spins its executor.
Calling ==
  /\ at \in 1 .. Len(script) + 1
  /\ call[0].at # "idle" =>
       /\ at - 1 \in DOMAIN script /\ script[at - 1].op = call[0].op
       /\ script[at - 1].exec = call[0].exec /\ script[at - 1].node = call[0].node
       /\ \/ call[0].op = "add" /\ call[0].at \in {"exchange", "push", "trigger", "guard"}
          \/ call[0].op = "remove" /\ call[0].at \in {"erase", "store", "trigger", "unguard"}
          \/ call[0].op = "spin" /\ call[0].at \in {"spin", "loop"}
  /\ \A u \in Users \ {0} : call[u].at # "idle" =>
       call[u].at \in {"spin", "loop"} /\ call[u].exec = u /\ u \in OpenAt(script, at)

\* Executor e was given node n, but for what main is still about to do.
Given(e, n, before) ==
  \E i \in DOMAIN script :
    i < at /\ <<e, n>> \in Gives(prog, script[i]) /\ (call[0].at \in before => i # at - 1)

\* A node whose flag is set was given to an executor and is not removed.
Flagging ==
  \A n \in has_executor :
    /\ \E e : Given(e, n, {"exchange"})
    /\ \A j \in DOMAIN script :
         (j < at /\ script[j].op = "remove" /\ script[j].node = n) =>
           j = at - 1 /\ call[0].at \in {"erase", "store"}

\* A node that is listed was given to that executor, and remove_node takes it off the list.
Placing ==
  /\ \A e \in Execs : \A n \in exec[e].weak_nodes : Given(e, n, {"exchange", "push"})
  /\ call[0].at = "store" => call[0].node \notin exec[call[0].exec].weak_nodes
  /\ expired = {} /\ (misremoved # {} => prog = "executor_nodelet")

\* Who spins an executor is one thread.
Spinning ==
  /\ \A e \in Execs : exec[e].spinning => \E u \in Users : call[u].at = "loop" /\ call[u].exec = e
  /\ \A u \in Users \ {0} :
       ~ (call[u].at # "idle" /\ call[0].at \in {"spin", "loop"} /\ call[0].exec = u)

\* What spins again after a return, and whether main's spins have returned.
Returning ==
  /\ \A e \in spun : \E i \in SpinsAt(script, e) : i < at
  /\ \A u \in Users :
       (call[u].at \in {"spin", "loop"} /\ call[u].exec \in spun) =>
         \E i, j \in SpinsAt(script, call[u].exec) : i < j /\ j < at
  /\ \A k \in DOMAIN script :
       (k < at /\ script[k].op = "spin") => script[k].exec \in spun \/ (call[0].at # "idle" /\ k = at - 1)

EndInv ==
  /\ IsMain => /\ Fixed /\ Calling /\ Flagging /\ Placing /\ Spinning /\ Returning
               /\ ThrowsOnlyOnRespin /\ EndsClean
  /\ ~ IsMain => over \notin {"ended", "terminated"}

Ending == Fixed /\ Calling /\ Flagging /\ Placing /\ Spinning /\ Returning

\* What the assumption about the scripts says of the one that runs.
LEMMA ScriptFacts ==
  ASSUME Fixed
  PROVE  /\ Len(script) \in Nat /\ DOMAIN script = 1 .. Len(script)
         /\ \A i, j \in DOMAIN script : \A e, f, n :
              (<<e, n>> \in Gives(prog, script[i]) /\ <<f, n>> \in Gives(prog, script[j])) => i = j /\ e = f
         /\ \A i \in DOMAIN script : \A e, n : <<e, n>> \in Gives(prog, script[i]) =>
              /\ \E j \in DOMAIN script : script[j].op = "remove" /\ script[j].node = n
              /\ \A j \in DOMAIN script : (script[j].op = "remove" /\ script[j].node = n) =>
                   i < j /\ (prog = "executor_nodelet" \/ script[j].exec = e)
         /\ JoinsBefore(script) /\ SpinsTwice(prog, script)
<1> DEFINE given == [k \in DOMAIN script |-> Gives(prog, script[k])]
<1>1. SoundScript(prog, script) BY ScriptsAssumption DEF Fixed
<1>2. /\ Len(script) \in Nat /\ DOMAIN script = 1 .. Len(script)
      /\ GivesOnce(given) /\ RemovesGiven(prog, script, given)
      /\ JoinsBefore(script) /\ SpinsTwice(prog, script)
  BY <1>1 DEF SoundScript
<1>3. DOMAIN given = DOMAIN script /\ \A k \in DOMAIN script : given[k] = Gives(prog, script[k]) OBVIOUS
<1> HIDE DEF given
<1>4. ASSUME NEW i \in DOMAIN script, NEW j \in DOMAIN script, NEW e, NEW f, NEW n,
             <<e, n>> \in Gives(prog, script[i]), <<f, n>> \in Gives(prog, script[j])
      PROVE  i = j /\ e = f
  <2>1. <<e, n>> \in given[i] /\ <<f, n>> \in given[j] BY <1>3, <1>4
  <2>2. <<e, n>>[2] = <<f, n>>[2] OBVIOUS
  <2>3. i = j /\ <<e, n>> = <<f, n>> BY <1>2, <1>3, <2>1, <2>2 DEF GivesOnce
  <2>4. QED BY <2>3
<1>5. ASSUME NEW i \in DOMAIN script, NEW e, NEW n, <<e, n>> \in Gives(prog, script[i])
      PROVE  /\ \E j \in DOMAIN script : script[j].op = "remove" /\ script[j].node = n
             /\ \A j \in DOMAIN script : (script[j].op = "remove" /\ script[j].node = n) =>
                   i < j /\ (prog = "executor_nodelet" \/ script[j].exec = e)
  <2> SUFFICES ASSUME NEW g, g = <<e, n>>
               PROVE  /\ \E j \in DOMAIN script : script[j].op = "remove" /\ script[j].node = n
                      /\ \A j \in DOMAIN script : (script[j].op = "remove" /\ script[j].node = n) =>
                           i < j /\ (prog = "executor_nodelet" \/ script[j].exec = e)
    OBVIOUS
  <2>1. g \in given[i] /\ g[1] = e /\ g[2] = n BY <1>3, <1>5
  <2>2. LET removes == {j \in DOMAIN script : script[j].op = "remove" /\ script[j].node = g[2]}
        IN  removes # {} /\ \A j \in removes : i < j /\ (prog = "executor_nodelet" \/ script[j].exec = g[1])
    BY <1>2, <2>1 DEF RemovesGiven
  <2>3. QED BY <2>1, <2>2
<1>6. QED BY <1>2, <1>4, <1>5

\* A thread that is started is one to be joined, until it is.
LEMMA OpenGrows ==
  ASSUME NEW s, NEW k \in Nat \ {0}, NEW u
  PROVE  /\ u \in OpenAt(s, k) /\ ~ (s[k].op = "join" /\ s[k].exec = u) => u \in OpenAt(s, k + 1)
         /\ s[k].op = "spawn" => s[k].exec \in OpenAt(s, k + 1)
<1>1. ASSUME u \in OpenAt(s, k), ~ (s[k].op = "join" /\ s[k].exec = u) PROVE u \in OpenAt(s, k + 1)
  <2>1. PICK i \in 1 .. k - 1 :
          /\ u = s[i].exec /\ s[i].op = "spawn"
          /\ \A j \in i + 1 .. k - 1 : ~ (s[j].op = "join" /\ s[j].exec = s[i].exec)
    BY <1>1 DEF OpenAt
  <2>2. i \in 1 .. (k + 1) - 1 OBVIOUS
  <2>3. \A j \in i + 1 .. (k + 1) - 1 : j = k \/ j \in i + 1 .. k - 1 OBVIOUS
  <2>4. \A j \in i + 1 .. (k + 1) - 1 : ~ (s[j].op = "join" /\ s[j].exec = s[i].exec)
    BY <1>1, <2>1, <2>3
  <2>5. QED BY <2>1, <2>2, <2>4 DEF OpenAt
<1>2. ASSUME s[k].op = "spawn" PROVE s[k].exec \in OpenAt(s, k + 1)
  <2>1. k \in 1 .. (k + 1) - 1 /\ k + 1 .. (k + 1) - 1 = {} OBVIOUS
  <2>2. QED BY <1>2, <2>1 DEF OpenAt
<1>3. QED BY <1>1, <1>2

\* No two threads spin the same executor.
LEMMA OneSpins ==
  ASSUME Calling, Spinning, NEW u \in Users, NEW v \in Users,
         call[u].at \in {"spin", "loop"}, call[v].at \in {"spin", "loop"}, call[u].exec = call[v].exec
  PROVE  u = v
<1>1. CASE u = 0 /\ v # 0 BY <1>1 DEF Calling, Spinning
<1>2. CASE v = 0 /\ u # 0 BY <1>2 DEF Calling, Spinning
<1>3. CASE u # 0 /\ v # 0 BY <1>3 DEF Calling
<1>4. QED BY <1>1, <1>2, <1>3

\* Only main adds and removes.
LEMMA MainMoves ==
  ASSUME Calling, NEW u \in Users, call[u].at \notin {"idle", "spin", "loop"}
  PROVE  /\ u = 0 /\ call[0].at \in {"exchange", "push", "trigger", "guard", "erase", "store", "unguard"}
         /\ at - 1 \in DOMAIN script /\ script[at - 1].op = call[0].op
         /\ script[at - 1].exec = call[0].exec /\ script[at - 1].node = call[0].node
         /\ call[0].op \in {"add", "remove"}
         /\ call[0].at \in {"exchange", "push", "guard"} => call[0].op = "add"
         /\ call[0].at \in {"erase", "store", "unguard"} => call[0].op = "remove"
<1>1. u = 0 BY DEF Calling
<1>2. QED BY <1>1 DEF Calling

LEMMA FixedKept == ASSUME Fixed, UNCHANGED program, Execs' = Execs, Users' = Users PROVE Fixed'
BY DEF Fixed, program

\* A step of main's add_node or remove_node, but for the lists and flags.
LEMMA MainGoesOn ==
  ASSUME Ending, UNCHANGED <<program, at, spun>>, Execs' = Execs, Users' = Users, 0 \in Users,
         \A v \in Users \ {0} : call'[v] = call[v],
         call[0].at \notin {"idle", "spin", "loop"}, call'[0].at \notin {"spin", "loop"},
         call'[0].at # "idle" =>
           /\ call'[0].op = call[0].op /\ call'[0].exec = call[0].exec /\ call'[0].node = call[0].node
           /\ \/ call[0].op = "add" /\ call'[0].at \in {"push", "trigger", "guard"}
              \/ call[0].op = "remove" /\ call'[0].at \in {"store", "trigger", "unguard"},
         \A e \in Execs : exec'[e].spinning = exec[e].spinning
  PROVE  Fixed' /\ Calling' /\ Spinning' /\ Returning'
<1>1. UNCHANGED <<prog, script>> BY DEF program
<1>2. Fixed' BY FixedKept DEF Ending
<1>3. Calling' BY <1>1 DEF Ending, Calling
<1>4. Spinning'
  <2>1. ASSUME NEW e \in Execs, exec'[e].spinning PROVE \E u \in Users : call'[u].at = "loop" /\ call'[u].exec = e
    <3>1. PICK u \in Users : call[u].at = "loop" /\ call[u].exec = e BY <2>1 DEF Ending, Spinning
    <3>2. u # 0 BY <3>1
    <3>3. QED BY <3>1, <3>2
  <2>2. QED BY <2>1 DEF Ending, Spinning
<1>5. Returning'
  <2>1. script[at - 1].op # "spin" BY 0 \in Users, MainMoves DEF Ending
  <2>2. ASSUME NEW k \in DOMAIN script, k < at, script[k].op = "spin" PROVE script[k].exec \in spun
    BY <2>1, <2>2 DEF Ending, Returning
  <2>3. \A u \in Users : call'[u].at \in {"spin", "loop"} => u # 0 /\ call'[u] = call[u] OBVIOUS
  <2>4. QED BY <1>1, <2>2, <2>3 DEF Ending, Returning
<1>6. QED BY <1>2, <1>3, <1>4, <1>5

\* What is given stays given while main is at its call, and main's call gives its own node.
LEMMA GivenKept ==
  ASSUME UNCHANGED <<program, at>>, NEW e, NEW n, NEW before, NEW after,
         Given(e, n, before), call'[0].at \in after => call[0].at \in before
  PROVE  Given(e, n, after)'
BY DEF Given, program

LEMMA GivesOwn ==
  ASSUME Calling, at - 1 \in DOMAIN script, script[at - 1].op = "add"
  PROVE  /\ at - 1 < at
         /\ <<script[at - 1].exec, script[at - 1].node>> \in Gives(prog, script[at - 1])
<1>1. at \in Int BY DEF Calling
<1>2. QED BY <1>1 DEF Gives

\* add_node: the flag is not set, and the node is not listed.
LEMMA NotGivenBefore ==
  ASSUME Fixed, Calling, 0 \in Users, call[0].at \notin {"idle", "spin", "loop"}, call[0].op = "add",
         NEW before, call[0].at \in before, NEW e, Given(e, call[0].node, before)
  PROVE  FALSE
<1>1. /\ at - 1 \in DOMAIN script /\ script[at - 1].op = "add"
      /\ script[at - 1].exec = call[0].exec /\ script[at - 1].node = call[0].node
  BY MainMoves
<1>2. <<call[0].exec, call[0].node>> \in Gives(prog, script[at - 1]) BY <1>1, GivesOwn
<1>3. PICK i \in DOMAIN script : <<e, call[0].node>> \in Gives(prog, script[i]) /\ i # at - 1
  BY DEF Given
<1>4. QED BY <1>1, <1>2, <1>3, ScriptFacts

LEMMA ExchangeEnds ==
  ASSUME Shapes, Ending, NEW u \in Users, Exchange(u), UNCHANGED <<program, at, spun>>
  PROVE  Ending' /\ call'[u].at # "idle"
<1> DEFINE m == call[0].node
<1>1. call[u].at = "exchange" BY DEF Exchange, At
<1>2. /\ u = 0 /\ call[0].op = "add" /\ at - 1 \in DOMAIN script /\ script[at - 1].op = "add"
      /\ script[at - 1].exec = call[0].exec /\ script[at - 1].node = m
  BY <1>1, MainMoves DEF Ending
<1>3. m \notin has_executor
  <2> SUFFICES ASSUME m \in has_executor PROVE FALSE OBVIOUS
  <2>1. PICK e : Given(e, m, {"exchange"}) BY DEF Ending, Flagging
  <2>2. QED BY <1>1, <1>2, <2>1, NotGivenBefore DEF Ending
<1>4. /\ UNCHANGED <<exec, expired, misremoved>> /\ has_executor' = has_executor \cup {m}
      /\ GoOn(0, "push")
  BY <1>2, <1>3 DEF Exchange
<1>5. Execs' = Execs BY <1>4, SameExec DEF Shapes
<1>6. /\ Users' = Users /\ \A v \in Users \ {0} : call'[v] = call[v]
      /\ call'[0].at = "push" /\ call'[0].op = call[0].op /\ call'[0].exec = call[0].exec
      /\ call'[0].node = call[0].node
  BY <1>1, <1>2, <1>4, <1>5, Goes DEF Shapes
<1>7. Fixed' /\ Calling' /\ Spinning' /\ Returning' BY <1>1, <1>2, <1>4, <1>5, <1>6, MainGoesOn
<1>8. Flagging'
  <2>1. UNCHANGED <<prog, script>> BY DEF program
  <2> SUFFICES ASSUME NEW n \in has_executor \cup {m}
               PROVE  /\ \E e : Given(e, n, {"exchange"})'
                      /\ \A j \in DOMAIN script : (j < at /\ script[j].op = "remove" /\ script[j].node = n) => FALSE
    BY <1>4, <2>1 DEF Flagging
  <2>2. CASE n \in has_executor
    <3>1. PICK e : Given(e, n, {"exchange"}) BY <2>2 DEF Ending, Flagging
    <3>2. Given(e, n, {"exchange"})' BY <1>6, <3>1, GivenKept
    <3>3. QED BY <1>1, <1>2, <2>2, <3>2 DEF Ending, Flagging
  <2>3. CASE n = m
    <3>1. at - 1 < at /\ <<call[0].exec, n>> \in Gives(prog, script[at - 1]) BY <1>2, <2>3, GivesOwn DEF Ending
    <3>2. Given(call[0].exec, n, {"exchange"})' BY <1>2, <1>6, <2>1, <3>1 DEF Given
    <3>3. \A j \in DOMAIN script : (script[j].op = "remove" /\ script[j].node = n) => at - 1 < j
      BY <1>2, <3>1, ScriptFacts DEF Ending
    <3>4. at \in Int /\ DOMAIN script \subseteq Int BY ScriptFacts DEF Ending, Calling
    <3>5. QED BY <3>2, <3>3, <3>4
  <2>4. QED BY <2>2, <2>3
<1>9. Placing'
  <2>1. \A e \in Execs : \A n \in exec[e].weak_nodes : Given(e, n, {"exchange", "push"})'
    <3> SUFFICES ASSUME NEW e \in Execs, NEW n \in exec[e].weak_nodes
                 PROVE  Given(e, n, {"exchange", "push"})'
      OBVIOUS
    <3>1. Given(e, n, {"exchange", "push"}) BY DEF Ending, Placing
    <3>2. QED BY <1>1, <1>2, <3>1, GivenKept
  <2>2. QED BY <1>4, <1>5, <1>6, <2>1 DEF Ending, Placing, program
<1>10. QED BY <1>2, <1>6, <1>7, <1>8, <1>9 DEF Ending

LEMMA PushEnds ==
  ASSUME Shapes, Ending, NEW u \in Users, Push(u), UNCHANGED <<program, at, spun>>
  PROVE  Ending' /\ call'[u].at # "idle"
<1> SUFFICES ASSUME NEW e, NEW m, e = call[0].exec, m = call[0].node
             PROVE  Ending' /\ call'[u].at # "idle"
  OBVIOUS
<1> DEFINE x == SetList(exec[e], exec[e].weak_nodes \cup {m})
<1>1. call[u].at = "push" BY DEF Push, At
<1>2. /\ u = 0 /\ call[0].op = "add" /\ at - 1 \in DOMAIN script /\ script[at - 1].op = "add"
      /\ script[at - 1].exec = e /\ script[at - 1].node = m
  BY <1>1, MainMoves DEF Ending
<1>3. AreExecutors /\ AreCalls /\ e \in Execs /\ IsExecutor(exec[e])
  BY <1>1, <1>2 DEF Shapes, AreExecutors, AreCalls, IsCall
<1>4. m \notin exec[e].weak_nodes
  <2> SUFFICES ASSUME m \in exec[e].weak_nodes PROVE FALSE OBVIOUS
  <2>1. Given(e, m, {"exchange", "push"}) BY <1>3 DEF Ending, Placing
  <2>2. QED BY <1>1, <1>2, <2>1, NotGivenBefore DEF Ending
<1>5. /\ UNCHANGED <<has_executor, expired, misremoved>> /\ exec' = [exec EXCEPT ![e] = x]
      /\ GoOn(0, "trigger")
  BY <1>2, <1>4 DEF Push, SetList
<1>6. IsExecutor(x) /\ x.weak_nodes = exec[e].weak_nodes \cup {m} /\ x.spinning = exec[e].spinning
  BY <1>3, NewList
<1> HIDE DEF x
<1>7. /\ Execs' = Execs /\ exec'[e] = x /\ \A f \in Execs \ {e} : exec'[f] = exec[f]
  BY <1>3, <1>5, <1>6, ExecEffect
<1>8. /\ Users' = Users /\ \A v \in Users \ {0} : call'[v] = call[v]
      /\ call'[0].at = "trigger" /\ call'[0].op = call[0].op /\ call'[0].exec = call[0].exec
      /\ call'[0].node = call[0].node
  BY <1>1, <1>2, <1>3, <1>5, <1>7, Goes
<1>9. Fixed' /\ Calling' /\ Spinning' /\ Returning' BY <1>1, <1>2, <1>6, <1>7, <1>8, MainGoesOn
<1>10. UNCHANGED <<prog, script>> BY DEF program
<1>11. Flagging'
  <2> SUFFICES ASSUME NEW n \in has_executor
               PROVE  /\ \E f : Given(f, n, {"exchange"})'
                      /\ \A j \in DOMAIN script : (j < at /\ script[j].op = "remove" /\ script[j].node = n) => FALSE
    BY <1>5, <1>10 DEF Flagging
  <2>1. PICK f : Given(f, n, {"exchange"}) BY DEF Ending, Flagging
  <2>2. Given(f, n, {"exchange"})' BY <1>8, <2>1, GivenKept
  <2>3. QED BY <1>1, <1>2, <2>2 DEF Ending, Flagging
<1>12. Placing'
  <2>1. ASSUME NEW f \in Execs, NEW n \in exec[f].weak_nodes PROVE Given(f, n, {"exchange", "push"})'
    <3>1. Given(f, n, {"exchange", "push"}) BY DEF Ending, Placing
    <3>2. QED BY <1>8, <3>1, GivenKept
  <2>2. Given(e, m, {"exchange", "push"})'
    <3>1. at - 1 < at /\ <<e, m>> \in Gives(prog, script[at - 1]) BY <1>2, GivesOwn DEF Ending
    <3>2. QED BY <1>2, <1>8, <1>10, <3>1 DEF Given
  <2>3. \A f \in Execs : \A n \in exec'[f].weak_nodes : Given(f, n, {"exchange", "push"})'
    BY <1>6, <1>7, <2>1, <2>2
  <2>4. QED BY <1>5, <1>7, <1>8, <1>10, <2>3 DEF Ending, Placing
<1>13. QED BY <1>2, <1>8, <1>9, <1>11, <1>12 DEF Ending

\* The rest of add_node and remove_node leaves the lists and the flags.
LEMMA MainRests ==
  ASSUME Ending, UNCHANGED <<program, at, spun, has_executor, expired, misremoved>>,
         Execs' = Execs, Users' = Users, 0 \in Users,
         \A v \in Users \ {0} : call'[v] = call[v],
         call[0].at \in {"trigger", "guard", "unguard"}, call'[0].at \in {"guard", "unguard", "idle"},
         call'[0].at # "idle" =>
           /\ call'[0].op = call[0].op /\ call'[0].exec = call[0].exec /\ call'[0].node = call[0].node
           /\ call'[0].at = (IF call[0].op = "add" THEN "guard" ELSE "unguard"),
         \A e \in Execs : /\ exec'[e].spinning = exec[e].spinning
                          /\ exec'[e].weak_nodes = exec[e].weak_nodes
  PROVE  Ending'
<1>1. UNCHANGED <<prog, script>> BY DEF program
<1>2. call[0].op \in {"add", "remove"} BY MainMoves DEF Ending
<1>3. Fixed' /\ Calling' /\ Spinning' /\ Returning' BY <1>2, MainGoesOn
<1>4. Flagging'
  <2> SUFFICES ASSUME NEW n \in has_executor
               PROVE  /\ \E f : Given(f, n, {"exchange"})'
                      /\ \A j \in DOMAIN script : (j < at /\ script[j].op = "remove" /\ script[j].node = n) => FALSE
    BY <1>1 DEF Flagging
  <2>1. PICK f : Given(f, n, {"exchange"}) BY DEF Ending, Flagging
  <2>2. Given(f, n, {"exchange"})' BY <2>1, GivenKept
  <2>3. QED BY <2>2 DEF Ending, Flagging
<1>5. Placing'
  <2>1. ASSUME NEW f \in Execs, NEW n \in exec[f].weak_nodes PROVE Given(f, n, {"exchange", "push"})'
    <3>1. Given(f, n, {"exchange", "push"}) BY DEF Ending, Placing
    <3>2. QED BY <3>1, GivenKept
  <2>2. QED BY <1>1, <2>1 DEF Ending, Placing
<1>6. QED BY <1>3, <1>4, <1>5 DEF Ending

LEMMA TriggerEnds ==
  ASSUME Shapes, Ending, NEW u \in Users, Trigger(u), UNCHANGED <<program, at, spun>>
  PROVE  Ending' /\ call[u].at = "trigger"
<1> SUFFICES ASSUME NEW e, e = call[0].exec, NEW yes, yes = TRUE PROVE Ending' /\ call[u].at = "trigger"
  OBVIOUS
<1> DEFINE x == SetInterrupt(exec[e], yes)
           step == IF call[0].op = "add" THEN "guard" ELSE "unguard"
<1>1. call[u].at = "trigger" BY DEF Trigger, At
<1>2. u = 0 /\ call[0].op \in {"add", "remove"} BY <1>1, MainMoves DEF Ending
<1>3. AreExecutors /\ AreCalls /\ e \in Execs /\ IsExecutor(exec[e])
  BY <1>1, <1>2 DEF Shapes, AreExecutors, AreCalls, IsCall
<1>4. /\ UNCHANGED <<has_executor, expired, misremoved>> /\ exec' = [exec EXCEPT ![e] = x]
      /\ GoOn(0, step)
  BY <1>2 DEF Trigger, SetInterrupt, regRest
<1>5. IsExecutor(x) /\ x.weak_nodes = exec[e].weak_nodes /\ x.spinning = exec[e].spinning
  BY <1>3, NewInterrupt
<1> HIDE DEF x
<1>6. /\ Execs' = Execs /\ exec'[e] = x /\ \A f \in Execs \ {e} : exec'[f] = exec[f]
  BY <1>3, <1>4, <1>5, ExecEffect
<1>7. step = (IF call[0].op = "add" THEN "guard" ELSE "unguard") OBVIOUS
<1> HIDE DEF step
<1>8. /\ Users' = Users /\ \A v \in Users \ {0} : call'[v] = call[v]
      /\ call'[0].at = step /\ call'[0].op = call[0].op /\ call'[0].exec = call[0].exec
      /\ call'[0].node = call[0].node
  BY <1>1, <1>2, <1>3, <1>4, <1>6, <1>7, Goes
<1>9. \A f \in Execs : exec'[f].spinning = exec[f].spinning /\ exec'[f].weak_nodes = exec[f].weak_nodes
  BY <1>5, <1>6
<1>10. Ending' BY <1>1, <1>2, <1>4, <1>6, <1>7, <1>8, <1>9, MainRests
<1>11. QED BY <1>1, <1>10

LEMMA GuardEnds ==
  ASSUME Shapes, Ending, NEW u \in Users, AddGuard(u) \/ RemoveGuard(u), UNCHANGED <<program, at, spun>>
  PROVE  Ending' /\ call[u].at \in {"guard", "unguard"}
<1> SUFFICES ASSUME NEW e, e = call[0].exec PROVE Ending' /\ call[u].at \in {"guard", "unguard"}
  OBVIOUS
<1>1. call[u].at \in {"guard", "unguard"} BY DEF AddGuard, RemoveGuard, At
<1>2. u = 0 /\ (call[0].at = "guard" => call[0].op = "add") BY <1>1, MainMoves DEF Ending
<1>3. AreExecutors /\ AreCalls /\ e \in Execs /\ IsExecutor(exec[e])
  BY <1>1, <1>2 DEF Shapes, AreExecutors, AreCalls, IsCall
<1>4. UNCHANGED <<has_executor, expired, misremoved>> /\ Return(0)
  <2>1. AddGuard(u) => call[0].op = "add" BY <1>2 DEF AddGuard, At
  <2>2. QED BY <1>2, <2>1 DEF AddGuard, RemoveGuard, regRest
<1>5. PICK guards : exec' = [exec EXCEPT ![e] = SetGuards(exec[e], guards)]
  <2>1. ASSUME AddGuard(u)
        PROVE  exec' = [exec EXCEPT ![e] = SetGuards(exec[e], exec[e].guards \cup {call[0].node})]
    BY <1>2, <2>1 DEF AddGuard, SetGuards
  <2>2. ASSUME RemoveGuard(u)
        PROVE  exec' = [exec EXCEPT ![e] = SetGuards(exec[e], exec[e].guards \ {call[0].node})]
    BY <1>2, <2>2 DEF RemoveGuard, SetGuards
  <2>3. QED BY <2>1, <2>2
<1> DEFINE x == SetGuards(exec[e], guards)
<1>6. IsExecutor(x) /\ x.weak_nodes = exec[e].weak_nodes /\ x.spinning = exec[e].spinning
  BY <1>3, NewGuards
<1>7. exec' = [exec EXCEPT ![e] = x] BY <1>5
<1> HIDE DEF x
<1>8. /\ Execs' = Execs /\ exec'[e] = x /\ \A f \in Execs \ {e} : exec'[f] = exec[f]
  BY <1>3, <1>6, <1>7, ExecEffect
<1>9. Users' = Users /\ (\A v \in Users \ {0} : call'[v] = call[v]) /\ call'[0].at = "idle"
  BY <1>2, <1>3, <1>4, <1>8, Returns
<1>10. \A f \in Execs : exec'[f].spinning = exec[f].spinning /\ exec'[f].weak_nodes = exec[f].weak_nodes
  BY <1>6, <1>8
<1>11. Ending' BY <1>1, <1>2, <1>4, <1>8, <1>9, <1>10, MainRests
<1>12. QED BY <1>1, <1>11

\* remove_node takes the node off the list of its executor.
LEMMA EraseEnds ==
  ASSUME Shapes, Ending, NEW u \in Users, Erase(u), UNCHANGED <<program, at, spun>>
  PROVE  Ending' /\ call[u].at = "erase"
<1> SUFFICES ASSUME NEW e, NEW m, NEW was, e = call[0].exec, m = call[0].node,
                    was = (m \in exec[e].weak_nodes)
             PROVE  Ending' /\ call[u].at = "erase"
  OBVIOUS
<1> DEFINE x == SetList(exec[e], exec[e].weak_nodes \ {m})
           c == Erased(call[0], was)
<1>1. call[u].at = "erase" BY DEF Erase, At
<1>2. /\ u = 0 /\ call[0].op = "remove" /\ at - 1 \in DOMAIN script
      /\ script[at - 1].op = "remove" /\ script[at - 1].exec = e /\ script[at - 1].node = m
  BY <1>1, MainMoves DEF Ending
<1>3. AreExecutors /\ AreCalls /\ e \in Execs /\ IsExecutor(exec[e]) /\ IsCall(call[0])
  BY <1>1, <1>2 DEF Shapes, AreExecutors, AreCalls, IsCall
<1>4. UNCHANGED <<has_executor, expired, misremoved>> /\ exec' = [exec EXCEPT ![e] = x]
  BY <1>2 DEF Erase, SetList
<1>5. call' = [call EXCEPT ![0] = c] BY <1>2, <1>3 DEF Erase, AreCalls, Erased
<1>6. IsExecutor(x) /\ x.weak_nodes = exec[e].weak_nodes \ {m} /\ x.spinning = exec[e].spinning
  BY <1>3, NewList
<1>7. IsCall(c) /\ c.at = "store" /\ c.removed = was /\ c.op = call[0].op /\ c.exec = e /\ c.node = m
  BY <1>1, <1>2, <1>3, ErasedIsCall
<1> HIDE DEF x, c
<1>8. /\ Execs' = Execs /\ exec'[e] = x /\ \A f \in Execs \ {e} : exec'[f] = exec[f]
  BY <1>3, <1>4, <1>6, ExecEffect
<1>9. Users' = Users /\ call'[0] = c /\ \A v \in Users \ {0} : call'[v] = call[v]
  BY <1>2, <1>3, <1>5, <1>7, <1>8, CallEffect
<1>10. \A f \in Execs : exec'[f].spinning = exec[f].spinning /\ exec'[f].weak_nodes \subseteq exec[f].weak_nodes
  BY <1>6, <1>8
<1>11. Fixed' /\ Calling' /\ Spinning' /\ Returning'
  BY <1>1, <1>2, <1>7, <1>8, <1>9, <1>10, MainGoesOn
<1>12. UNCHANGED <<prog, script>> BY DEF program
<1>13. Flagging'
  <2> SUFFICES ASSUME NEW n \in has_executor
               PROVE  /\ \E f : Given(f, n, {"exchange"})'
                      /\ \A j \in DOMAIN script :
                           (j < at /\ script[j].op = "remove" /\ script[j].node = n) => j = at - 1
    BY <1>4, <1>7, <1>9, <1>12 DEF Flagging
  <2>1. PICK f : Given(f, n, {"exchange"}) BY DEF Ending, Flagging
  <2>2. Given(f, n, {"exchange"})' BY <1>7, <1>9, <2>1, GivenKept
  <2>3. QED BY <2>2 DEF Ending, Flagging
<1>14. Placing'
  <2>1. ASSUME NEW f \in Execs, NEW n \in exec[f].weak_nodes PROVE Given(f, n, {"exchange", "push"})'
    <3>1. Given(f, n, {"exchange", "push"}) BY DEF Ending, Placing
    <3>2. QED BY <1>7, <1>9, <3>1, GivenKept
  <2>2. \A f \in Execs : \A n \in exec'[f].weak_nodes : Given(f, n, {"exchange", "push"})'
    BY <1>10, <2>1
  <2>3. call'[0].node \notin exec'[call'[0].exec].weak_nodes BY <1>6, <1>7, <1>8, <1>9
  <2>4. QED BY <1>4, <1>8, <1>12, <2>2, <2>3 DEF Ending, Placing
<1>15. QED BY <1>1, <1>11, <1>13, <1>14 DEF Ending

\* It clears the flag of a node it did not find only in executor_nodelet.
LEMMA StoreEnds ==
  ASSUME Shapes, OneClaim, Ending, NEW u \in Users, Store(u), UNCHANGED <<program, at, spun>>
  PROVE  Ending' /\ call[u].at = "store"
<1> SUFFICES ASSUME NEW e, NEW m, e = call[0].exec, m = call[0].node
             PROVE  Ending' /\ call[u].at = "store"
  OBVIOUS
<1> DEFINE step == IF call[0].removed /\ call[0].op = "remove" THEN "trigger" ELSE "unguard"
<1>1. call[u].at = "store" BY DEF Store, At
<1>2. /\ u = 0 /\ call[0].op = "remove" /\ at - 1 \in DOMAIN script
      /\ script[at - 1].op = "remove" /\ script[at - 1].exec = e /\ script[at - 1].node = m
  BY <1>1, MainMoves DEF Ending
<1>3. /\ UNCHANGED <<exec, expired>> /\ has_executor' = has_executor \ {m}
      /\ misremoved' = (IF call[0].removed THEN misremoved ELSE misremoved \cup ({m} \cap has_executor))
      /\ GoOn(0, step)
  BY <1>2 DEF Store
<1>4. AreCalls /\ Execs' = Execs BY <1>3, SameExec DEF Shapes
<1>5. step \in {"trigger", "unguard"} OBVIOUS
<1> HIDE DEF step
<1>6. /\ Users' = Users /\ \A v \in Users \ {0} : call'[v] = call[v]
      /\ call'[0].at = step /\ call'[0].op = call[0].op /\ call'[0].exec = call[0].exec
      /\ call'[0].node = call[0].node
  BY <1>1, <1>2, <1>3, <1>4, <1>5, Goes
<1>7. Fixed' /\ Calling' /\ Spinning' /\ Returning'
  BY <1>1, <1>2, <1>3, <1>4, <1>5, <1>6, MainGoesOn
<1>8. UNCHANGED <<prog, script>> BY DEF program
<1>9. Flagging'
  <2> SUFFICES ASSUME NEW n \in has_executor \ {m}
               PROVE  /\ \E f : Given(f, n, {"exchange"})'
                      /\ \A j \in DOMAIN script : (j < at /\ script[j].op = "remove" /\ script[j].node = n) => FALSE
    BY <1>3, <1>8 DEF Flagging
  <2>1. PICK f : Given(f, n, {"exchange"}) BY DEF Ending, Flagging
  <2>2. Given(f, n, {"exchange"})' BY <1>5, <1>6, <2>1, GivenKept
  <2>3. \A j \in DOMAIN script : (j < at /\ script[j].op = "remove" /\ script[j].node = n) => j = at - 1
    BY DEF Ending, Flagging
  <2>4. QED BY <1>2, <2>2, <2>3
<1>10. misremoved' # {} => prog = "executor_nodelet"
  <2> SUFFICES ASSUME misremoved = {}, prog # "executor_nodelet", ~ call[0].removed, m \in has_executor
               PROVE  FALSE
    BY <1>3 DEF Ending, Placing
  <2>1. ClaimedOnce(m) BY DEF OneClaim, Excepted, Ending, Placing
  <2>2. \A v \in Users : ~ Moves(v, m)
    <3> SUFFICES ASSUME NEW v \in Users, Moves(v, m) PROVE FALSE OBVIOUS
    <3>1. call[v].at = "push" \/ (call[v].at = "store" /\ call[v].removed) BY DEF Moves
    <3>2. v = 0 BY <3>1, MainMoves DEF Ending
    <3>3. QED BY <1>1, <1>2, <3>1, <3>2
  <2>3. PICK f \in Execs : m \in exec[f].weak_nodes BY <2>1, <2>2 DEF ClaimedOnce, Lists
  <2>4. Given(f, m, {"exchange", "push"}) BY <2>3 DEF Ending, Placing
  <2>5. PICK i \in DOMAIN script : <<f, m>> \in Gives(prog, script[i]) BY <2>4 DEF Given
  <2>6. f = e BY <1>2, <2>5, ScriptFacts DEF Ending
  <2>7. QED BY <1>1, <1>2, <2>3, <2>6 DEF Ending, Placing
<1>11. Placing'
  <2>1. ASSUME NEW f \in Execs, NEW n \in exec[f].weak_nodes PROVE Given(f, n, {"exchange", "push"})'
    <3>1. Given(f, n, {"exchange", "push"}) BY DEF Ending, Placing
    <3>2. QED BY <1>5, <1>6, <3>1, GivenKept
  <2>2. QED BY <1>3, <1>4, <1>5, <1>6, <1>8, <1>10, <2>1 DEF Ending, Placing
<1>12. QED BY <1>1, <1>7, <1>9, <1>11 DEF Ending

\* spin(): nobody spins the executor, so nothing is thrown.
LEMMA SpinBeginsEnds ==
  ASSUME Shapes, Ending, NEW u \in Users, SpinBegins(u), UNCHANGED <<program, at, spun>>
  PROVE  Ending' /\ call'[u].at # "idle"
<1> SUFFICES ASSUME NEW e, e = call[u].exec, NEW yes, yes = TRUE PROVE Ending' /\ call'[u].at # "idle"
  OBVIOUS
<1> DEFINE x == SetPhase(SetSpinning(exec[e], yes), "choose")
<1>1. call[u].at = "spin" BY DEF SpinBegins, At
<1>2. AreExecutors /\ AreCalls /\ e \in Execs /\ IsExecutor(exec[e])
  BY <1>1 DEF Shapes, AreExecutors, AreCalls, IsCall
<1>3. ~ exec[e].spinning
  <2> SUFFICES ASSUME exec[e].spinning PROVE FALSE OBVIOUS
  <2>1. PICK v \in Users : call[v].at = "loop" /\ call[v].exec = e BY <1>2 DEF Ending, Spinning
  <2>2. v = u BY <1>1, <2>1, OneSpins DEF Ending
  <2>3. QED BY <1>1, <2>1, <2>2
<1>4. /\ UNCHANGED <<has_executor, expired, misremoved>> /\ GoOn(u, "loop")
      /\ exec' = [exec EXCEPT ![e] = x]
  <2>1. /\ exec' = [exec EXCEPT ![e].spinning = yes, ![e].phase = "choose"] /\ GoOn(u, "loop")
        /\ UNCHANGED <<has_executor, expired, misremoved>>
    BY <1>3 DEF SpinBegins, regRest
  <2>2. QED BY <1>2, <2>1 DEF SetPhase, SetSpinning, AreExecutors
<1>5. IsExecutor(x) /\ x.weak_nodes = exec[e].weak_nodes
  <2> DEFINE y == SetSpinning(exec[e], yes)
  <2>1. IsExecutor(y) /\ y.weak_nodes = exec[e].weak_nodes BY <1>2, NewSpinning
  <2>2. x = SetPhase(y, "choose") OBVIOUS
  <2> HIDE DEF x, y
  <2>3. QED BY <2>1, <2>2, NewPhase
<1> HIDE DEF x
<1>6. /\ Execs' = Execs /\ exec'[e] = x /\ \A f \in Execs \ {e} : exec'[f] = exec[f]
  BY <1>2, <1>4, <1>5, ExecEffect
<1>7. /\ Users' = Users /\ \A v \in Users \ {u} : call'[v] = call[v]
      /\ call'[u].at = "loop" /\ call'[u].op = call[u].op /\ call'[u].exec = e
      /\ call'[u].node = call[u].node
  BY <1>1, <1>2, <1>4, <1>6, Goes
<1>8. UNCHANGED <<prog, script, at>> BY DEF program
<1>9. Fixed' BY <1>6, <1>7, FixedKept DEF Ending
<1>10. call'[0] = call[0] \/ (u = 0 /\ call[0].at = "spin" /\ call'[0].at = "loop" /\ call'[0].op = call[0].op
                              /\ call'[0].exec = call[0].exec /\ call'[0].node = call[0].node)
  <2>1. 0 \in Users BY DEF Ending, Fixed
  <2>2. QED BY <1>1, <1>7, <2>1
<1>11. Calling' BY <1>1, <1>7, <1>8, <1>10 DEF Ending, Calling
<1>12. Flagging'
  <2> SUFFICES ASSUME NEW n \in has_executor
               PROVE  /\ \E f : Given(f, n, {"exchange"})'
                      /\ \A j \in DOMAIN script : (j < at /\ script[j].op = "remove" /\ script[j].node = n) =>
                           j = at - 1 /\ call'[0].at \in {"erase", "store"}
    BY <1>4, <1>8 DEF Flagging
  <2>1. PICK f : Given(f, n, {"exchange"}) BY DEF Ending, Flagging
  <2>2. Given(f, n, {"exchange"})' BY <1>10, <2>1, GivenKept
  <2>3. QED BY <1>10, <2>2 DEF Ending, Flagging
<1>13. Placing'
  <2>1. ASSUME NEW f \in Execs, NEW n \in exec[f].weak_nodes PROVE Given(f, n, {"exchange", "push"})'
    <3>1. Given(f, n, {"exchange", "push"}) BY DEF Ending, Placing
    <3>2. QED BY <1>10, <3>1, GivenKept
  <2>2. \A f \in Execs : exec'[f].weak_nodes = exec[f].weak_nodes BY <1>5, <1>6
  <2>3. call'[0].at = "store" => call'[0].node \notin exec'[call'[0].exec].weak_nodes
    <3> SUFFICES ASSUME call'[0].at = "store" PROVE call'[0].node \notin exec'[call'[0].exec].weak_nodes
      OBVIOUS
    <3>1. call'[0] = call[0] BY <1>10
    <3>2. call[0].node \notin exec[call[0].exec].weak_nodes BY <3>1 DEF Ending, Placing
    <3>3. exec'[call[0].exec].weak_nodes = exec[call[0].exec].weak_nodes
      <4>1. CASE call[0].exec = e BY <1>2, <2>2, <4>1
      <4>2. CASE call[0].exec # e BY <1>2, <1>4, <4>2 DEF AreExecutors, Execs
      <4>3. QED BY <4>1, <4>2
    <3>4. QED BY <3>1, <3>2, <3>3
  <2>4. QED BY <1>4, <1>6, <1>8, <2>1, <2>2, <2>3 DEF Ending, Placing
<1>14. Spinning'
  <2>1. ASSUME NEW f \in Execs, exec'[f].spinning PROVE \E v \in Users : call'[v].at = "loop" /\ call'[v].exec = f
    <3>1. CASE f = e BY <1>7, <3>1
    <3>2. CASE f # e
      <4>1. exec[f].spinning BY <1>6, <2>1, <3>2
      <4>2. PICK v \in Users : call[v].at = "loop" /\ call[v].exec = f BY <4>1 DEF Ending, Spinning
      <4>3. QED BY <1>1, <1>7, <4>2
    <3>3. QED BY <3>1, <3>2
  <2>2. \A v \in Users : (call'[v].at = "idle" <=> call[v].at = "idle") /\ call'[v].exec = call[v].exec
    BY <1>1, <1>7
  <2>3. \A v \in Users \ {0} :
          ~ (call'[v].at # "idle" /\ call'[0].at \in {"spin", "loop"} /\ call'[0].exec = v)
    BY <1>10, <2>2 DEF Ending, Spinning
  <2>4. QED BY <1>6, <1>7, <2>1, <2>3 DEF Spinning
<1>15. Returning'
  <2>1. \A v \in Users : /\ call'[v].exec = call[v].exec
                         /\ call'[v].at \in {"spin", "loop"} => call[v].at \in {"spin", "loop"}
    BY <1>1, <1>7
  <2>2. call[0].at # "idle" => call'[0].at # "idle" BY <1>10
  <2>3. QED BY <1>7, <1>8, <2>1, <2>2 DEF Ending, Returning
<1>16. QED BY <1>7, <1>9, <1>11, <1>12, <1>13, <1>14, <1>15 DEF Ending

\* spin() returns: its thread leaves it, and its executor has been spun.
LEMMA SpinReturnsEnds ==
  ASSUME Shapes, Ending, NEW u \in Users, SpinLeaves(u), UNCHANGED <<program, at>>,
         spun' = spun \cup {call[u].exec}
  PROVE  Ending'
<1> SUFFICES ASSUME NEW e, e = call[u].exec, NEW no, no = FALSE PROVE Ending' OBVIOUS
<1> DEFINE x == SetPhase(SetSpinning(exec[e], no), "out")
<1>1. call[u].at = "loop" BY DEF SpinLeaves, At
<1>2. AreExecutors /\ AreCalls /\ e \in Execs /\ IsExecutor(exec[e])
  BY <1>1 DEF Shapes, AreExecutors, AreCalls, IsCall
<1>3. /\ UNCHANGED <<has_executor, expired, misremoved>> /\ Return(u)
      /\ exec' = [exec EXCEPT ![e] = x]
  <2>1. /\ exec' = [exec EXCEPT ![e].spinning = no, ![e].phase = "out"] /\ Return(u)
        /\ UNCHANGED <<has_executor, expired, misremoved>>
    BY DEF SpinLeaves, regRest
  <2>2. QED BY <1>2, <2>1 DEF SetPhase, SetSpinning, AreExecutors
<1>4. IsExecutor(x) /\ x.weak_nodes = exec[e].weak_nodes /\ x.spinning = no
  <2>1. /\ IsExecutor(SetSpinning(exec[e], no)) /\ SetSpinning(exec[e], no).spinning = no
        /\ SetSpinning(exec[e], no).weak_nodes = exec[e].weak_nodes
    BY <1>2, NewSpinning
  <2>2. QED BY <2>1, NewPhase
<1> HIDE DEF x
<1>5. /\ Execs' = Execs /\ exec'[e] = x /\ \A f \in Execs \ {e} : exec'[f] = exec[f]
  BY <1>2, <1>3, <1>4, ExecEffect
<1>6. Users' = Users /\ (\A v \in Users \ {u} : call'[v] = call[v]) /\ call'[u].at = "idle"
  BY <1>2, <1>3, <1>5, Returns
<1>7. UNCHANGED <<prog, script, at>> BY DEF program
<1>8. Fixed' BY <1>5, <1>6, FixedKept DEF Ending
<1>9. call'[0] = call[0] \/ (u = 0 /\ call'[0].at = "idle")
  <2>1. 0 \in Users BY DEF Ending, Fixed
  <2>2. QED BY <1>6, <2>1
<1>10. Calling'
  <2>1. call'[0].at # "idle" => call'[0] = call[0] BY <1>9
  <2>2. \A v \in Users \ {0} : call'[v].at # "idle" => call'[v] = call[v] BY <1>6
  <2>3. QED BY <1>6, <1>7, <2>1, <2>2 DEF Ending, Calling
<1>11. Flagging'
  <2> SUFFICES ASSUME NEW n \in has_executor
               PROVE  /\ \E f : Given(f, n, {"exchange"})'
                      /\ \A j \in DOMAIN script : (j < at /\ script[j].op = "remove" /\ script[j].node = n) =>
                           j = at - 1 /\ call'[0].at \in {"erase", "store"}
    BY <1>3, <1>7 DEF Flagging
  <2>1. PICK f : Given(f, n, {"exchange"}) BY DEF Ending, Flagging
  <2>2. Given(f, n, {"exchange"})' BY <1>9, <2>1, GivenKept
  <2>3. call'[0] = call[0] \/ call[0].at = "loop" BY <1>1, <1>9
  <2>4. QED BY <2>2, <2>3 DEF Ending, Flagging
<1>12. Placing'
  <2>1. ASSUME NEW f \in Execs, NEW n \in exec[f].weak_nodes PROVE Given(f, n, {"exchange", "push"})'
    <3>1. Given(f, n, {"exchange", "push"}) BY DEF Ending, Placing
    <3>2. QED BY <1>9, <3>1, GivenKept
  <2>2. \A f \in Execs : exec'[f].weak_nodes = exec[f].weak_nodes BY <1>4, <1>5
  <2>3. call'[0].at = "store" => call'[0].node \notin exec'[call'[0].exec].weak_nodes
    <3> SUFFICES ASSUME call'[0].at = "store" PROVE call'[0].node \notin exec'[call'[0].exec].weak_nodes
      OBVIOUS
    <3>1. call'[0] = call[0] BY <1>9
    <3>2. call[0].node \notin exec[call[0].exec].weak_nodes BY <3>1 DEF Ending, Placing
    <3>3. exec'[call[0].exec].weak_nodes = exec[call[0].exec].weak_nodes
      <4>1. CASE call[0].exec = e BY <1>2, <2>2, <4>1
      <4>2. CASE call[0].exec # e BY <1>2, <1>3, <4>2 DEF AreExecutors, Execs
      <4>3. QED BY <4>1, <4>2
    <3>4. QED BY <3>1, <3>2, <3>3
  <2>4. QED BY <1>3, <1>5, <1>7, <2>1, <2>2, <2>3 DEF Ending, Placing
<1>13. Spinning'
  <2>1. ASSUME NEW f \in Execs, exec'[f].spinning PROVE \E v \in Users : call'[v].at = "loop" /\ call'[v].exec = f
    <3>1. f # e BY <1>4, <1>5, <2>1
    <3>2. exec[f].spinning BY <1>5, <2>1, <3>1
    <3>3. PICK v \in Users : call[v].at = "loop" /\ call[v].exec = f BY <3>2 DEF Ending, Spinning
    <3>4. QED BY <1>6, <3>1, <3>3
  <2>2. \A v \in Users \ {0} :
          ~ (call'[v].at # "idle" /\ call'[0].at \in {"spin", "loop"} /\ call'[0].exec = v)
    BY <1>6, <1>9 DEF Ending, Spinning
  <2>3. QED BY <1>5, <1>6, <2>1, <2>2 DEF Spinning
<1>14. Returning'
  <2>1. u = 0 => at - 1 \in DOMAIN script /\ script[at - 1].op = "spin" /\ script[at - 1].exec = e
    BY <1>1 DEF Ending, Calling
  <2>2. \E i \in SpinsAt(script, e) : i < at
    <3>1. CASE u = 0
      <4>1. at \in Int BY DEF Ending, Calling
      <4>2. QED BY <2>1, <3>1, <4>1 DEF SpinsAt
    <3>2. CASE u # 0
      <4>1. e = u /\ u \in OpenAt(script, at) BY <1>1, <3>2 DEF Ending, Calling
      <4>2. PICK i \in 1 .. at - 1 : script[i].exec = u /\ script[i].op = "spawn" BY <4>1 DEF OpenAt
      <4>3. i \in DOMAIN script /\ i < at BY ScriptFacts DEF Ending, Calling
      <4>4. QED BY <4>1, <4>2, <4>3 DEF SpinsAt
    <3>3. QED BY <3>1, <3>2
  <2>3. ASSUME NEW v \in Users, call'[v].at \in {"spin", "loop"}, call'[v].exec \in spun'
        PROVE  \E i, j \in SpinsAt(script, call'[v].exec) : i < j /\ j < at
    <3>1. v # u /\ call'[v] = call[v] BY <1>6, <2>3
    <3>2. call[v].exec # e BY <1>1, <2>3, <3>1, OneSpins DEF Ending
    <3>3. call[v].exec \in spun BY <2>3, <3>1, <3>2
    <3>4. QED BY <2>3, <3>1, <3>3 DEF Ending, Returning
  <2>4. ASSUME NEW k \in DOMAIN script, k < at, script[k].op = "spin"
        PROVE  script[k].exec \in spun' \/ (call'[0].at # "idle" /\ k = at - 1)
    <3>1. script[k].exec \in spun \/ (call[0].at # "idle" /\ k = at - 1)
      BY <2>4 DEF Ending, Returning
    <3>2. QED BY <1>9, <2>1, <3>1
  <2>5. QED BY <1>6, <1>7, <2>2, <2>3, <2>4 DEF Ending, Returning
<1>15. QED BY <1>8, <1>10, <1>11, <1>12, <1>13, <1>14 DEF Ending

\* The call of main that a line of the script begins.
Begins(o, c) ==
  /\ c.op = o.op /\ c.exec = o.exec /\ c.node = o.node
  /\ c.at = (IF o.op = "add" THEN "exchange" ELSE IF o.op = "remove" THEN "erase" ELSE "spin")

\* Main goes on to its next call: the calls and the executors that are spun.
LEMMA MainAdvances ==
  ASSUME Ending, UNCHANGED <<program, spun>>, at' = at + 1, at \in DOMAIN script, call[0].at = "idle",
         Execs' = Execs, Users' = Users, \A e \in Execs : exec'[e].spinning => exec[e].spinning,
         NEW o, o = script[at],
         o.op \in {"add", "remove", "spin"} => Begins(o, call'[0]),
         o.op \notin {"add", "remove", "spin"} => call'[0].at = "idle",
         \A v \in Users \ {0} :
           \/ call'[v] = call[v]
           \/ /\ o.op = "spawn" /\ v = o.exec /\ call[v].at = "idle"
              /\ call'[v].at = "spin" /\ call'[v].exec = v,
         o.op = "join" => call[o.exec].at = "idle"
  PROVE  Fixed' /\ Calling' /\ Spinning' /\ Returning'
<1>1. UNCHANGED <<prog, script>> BY DEF program
<1>2. Fixed' BY FixedKept DEF Ending
<1>3. /\ at \in Nat \ {0} /\ at' \in 1 .. Len(script) + 1 /\ at' - 1 = at
      /\ DOMAIN script = 1 .. Len(script) /\ Len(script) \in Nat
  BY ScriptFacts DEF Ending, Calling
<1>4. ASSUME NEW v \in Users \ {0}, call'[v].at # "idle"
      PROVE  call'[v].at \in {"spin", "loop"} /\ call'[v].exec = v /\ v \in OpenAt(script, at + 1)
  <2>1. CASE call'[v] = call[v]
    <3>1. call[v].at \in {"spin", "loop"} /\ call[v].exec = v /\ v \in OpenAt(script, at)
      BY <1>4, <2>1 DEF Ending, Calling
    <3>2. ~ (script[at].op = "join" /\ script[at].exec = v) BY <3>1
    <3>3. QED BY <1>3, <2>1, <3>1, <3>2, OpenGrows
  <2>2. CASE o.op = "spawn" /\ v = o.exec /\ call'[v].at = "spin" /\ call'[v].exec = v
    BY <1>3, <2>2, OpenGrows
  <2>3. QED BY <2>1, <2>2
<1>5. Calling'
  <2>1. call'[0].at # "idle" =>
          /\ at' - 1 \in DOMAIN script /\ script[at' - 1].op = call'[0].op
          /\ script[at' - 1].exec = call'[0].exec /\ script[at' - 1].node = call'[0].node
          /\ \/ call'[0].op = "add" /\ call'[0].at \in {"exchange", "push", "trigger", "guard"}
             \/ call'[0].op = "remove" /\ call'[0].at \in {"erase", "store", "trigger", "unguard"}
             \/ call'[0].op = "spin" /\ call'[0].at \in {"spin", "loop"}
    <3> SUFFICES ASSUME call'[0].at # "idle", NEW c, c = call'[0]
                 PROVE  /\ script[at].op = c.op /\ script[at].exec = c.exec /\ script[at].node = c.node
                        /\ \/ c.op = "add" /\ c.at \in {"exchange", "push", "trigger", "guard"}
                           \/ c.op = "remove" /\ c.at \in {"erase", "store", "trigger", "unguard"}
                           \/ c.op = "spin" /\ c.at \in {"spin", "loop"}
      BY <1>3
    <3>1. QED BY DEF Begins
  <2>2. QED BY <1>1, <1>3, <1>4, <2>1 DEF Calling
<1>6. Spinning'
  <2>1. ASSUME NEW e \in Execs, exec'[e].spinning PROVE \E u \in Users : call'[u].at = "loop" /\ call'[u].exec = e
    <3>1. PICK u \in Users : call[u].at = "loop" /\ call[u].exec = e BY <2>1 DEF Ending, Spinning
    <3>2. u # 0 /\ call'[u] = call[u] BY <3>1
    <3>3. QED BY <3>1, <3>2
  <2>2. ASSUME NEW v \in Users \ {0}, call'[v].at # "idle", call'[0].at \in {"spin", "loop"}, call'[0].exec = v
        PROVE  FALSE
    <3>1. o.op = "spin" /\ o.exec = v BY <2>2 DEF Begins
    <3>2. call'[v] = call[v] BY <3>1
    <3>3. v \in OpenAt(script, at) BY <2>2, <3>2 DEF Ending, Calling
    <3>4. QED BY <3>1, <3>3, ScriptFacts DEF Ending, JoinsBefore
  <2>3. QED BY <2>1, <2>2 DEF Spinning
<1>7. Returning'
  <2>1. \A e \in spun : \E i \in SpinsAt(script, e) : i < at BY DEF Ending, Returning
  <2>2. \A e : SpinsAt(script, e) \subseteq Nat BY <1>3 DEF SpinsAt
  <2>3. \A e \in spun : \E i \in SpinsAt(script, e) : i < at' BY <1>3, <2>1, <2>2
  <2>4. ASSUME NEW u \in Users, call'[u].at \in {"spin", "loop"}, call'[u].exec \in spun
        PROVE  \E i, j \in SpinsAt(script, call'[u].exec) : i < j /\ j < at'
    <3>1. CASE u # 0 /\ call'[u] = call[u]
      <4>1. PICK i, j \in SpinsAt(script, call[u].exec) : i < j /\ j < at
        BY <2>4, <3>1 DEF Ending, Returning
      <4>2. j < at' BY <1>3, <2>2, <4>1
      <4>3. QED BY <3>1, <4>1, <4>2
    <3>2. CASE o.op \in {"spin", "spawn"} /\ call'[u].exec = o.exec
      <4>1. at \in SpinsAt(script, o.exec) BY <3>2 DEF SpinsAt
      <4>2. PICK i \in SpinsAt(script, o.exec) : i < at BY <2>1, <2>4, <3>2
      <4>3. at < at' BY <1>3
      <4>4. QED BY <3>2, <4>1, <4>2, <4>3
    <3>3. QED BY <2>4, <3>1, <3>2 DEF Begins
  <2>5. ASSUME NEW k \in DOMAIN script, k < at', script[k].op = "spin"
        PROVE  script[k].exec \in spun \/ (call'[0].at # "idle" /\ k = at' - 1)
    <3>1. CASE k = at BY <1>3, <2>5, <3>1 DEF Begins
    <3>2. CASE k # at
      <4>1. k < at BY <1>3, <2>5, <3>2
      <4>2. QED BY <2>5, <4>1 DEF Ending, Returning
    <3>3. QED BY <3>1, <3>2
  <2>6. QED BY <1>1, <2>3, <2>4, <2>5 DEF Returning
<1>8. QED BY <1>2, <1>5, <1>6, <1>7

\* And what is given, when it only goes on.
LEMMA MainKeeps ==
  ASSUME Ending, UNCHANGED <<program, has_executor, expired, misremoved>>,
         at' = at + 1, at \in DOMAIN script, call[0].at = "idle", Execs' = Execs,
         \A e \in Execs : exec'[e].weak_nodes = exec[e].weak_nodes,
         script[at].op = "remove" => call'[0].at = "erase",
         call'[0].at # "store"
  PROVE  Flagging' /\ Placing'
<1>1. UNCHANGED <<prog, script>> BY DEF program
<1>2. at \in Nat /\ DOMAIN script \subseteq Nat /\ at' - 1 = at BY ScriptFacts DEF Ending, Calling
<1>3. ASSUME NEW e, NEW n, NEW before, NEW after, Given(e, n, before) PROVE Given(e, n, after)'
  <2>1. PICK i \in DOMAIN script : i < at /\ <<e, n>> \in Gives(prog, script[i]) BY <1>3 DEF Given
  <2>2. i < at' /\ i # at' - 1 BY <1>2, <2>1
  <2>3. QED BY <1>1, <2>1, <2>2 DEF Given
<1>4. Flagging'
  <2> SUFFICES ASSUME NEW n \in has_executor
               PROVE  /\ \E f : Given(f, n, {"exchange"})'
                      /\ \A j \in DOMAIN script : (j < at' /\ script[j].op = "remove" /\ script[j].node = n) =>
                           j = at' - 1 /\ call'[0].at \in {"erase", "store"}
    BY <1>1 DEF Flagging
  <2>1. PICK f : Given(f, n, {"exchange"}) BY DEF Ending, Flagging
  <2>2. Given(f, n, {"exchange"})' BY <1>3, <2>1
  <2>3. ASSUME NEW j \in DOMAIN script, j < at', script[j].op = "remove", script[j].node = n
        PROVE  j = at' - 1 /\ call'[0].at \in {"erase", "store"}
    <3>1. CASE j = at BY <1>2, <2>3, <3>1
    <3>2. CASE j # at
      <4>1. j < at BY <1>2, <2>3, <3>2
      <4>2. QED BY <2>3, <4>1 DEF Ending, Flagging
    <3>3. QED BY <3>1, <3>2
  <2>4. QED BY <2>2, <2>3
<1>5. Placing'
  <2>1. ASSUME NEW f \in Execs, NEW n \in exec[f].weak_nodes PROVE Given(f, n, {"exchange", "push"})'
    <3>1. Given(f, n, {"exchange", "push"}) BY DEF Ending, Placing
    <3>2. QED BY <1>3, <3>1
  <2>2. QED BY <1>1, <2>1 DEF Ending, Placing
<1>6. QED BY <1>4, <1>5

\* Main is at a call of its script.
LEMMA MainIsAt ==
  ASSUME Ending, NEW op, MainAt(op)
  PROVE  at \in DOMAIN script /\ script[at].op = op /\ call[0].at = "idle"
<1>1. Idle.at = "idle" BY DEF Idle
<1>2. at \in 1 .. Len(script) + 1 /\ at <= Len(script) /\ DOMAIN script = 1 .. Len(script) /\ Len(script) \in Nat
  BY ScriptFacts DEF MainAt, Ending, Calling
<1>3. at \in DOMAIN script BY <1>2
<1>4. QED BY <1>1, <1>3 DEF MainAt, NextOp

\* A call begins.
LEMMA BeginsCall ==
  ASSUME Shapes, NEW u, NEW op \in {"add", "remove", "spin"}, NEW e, NEW n, Begin(u, op, e, n)
  PROVE  /\ Execs' = Execs /\ Users' = Users /\ u \in Users /\ e \in Execs /\ call[u].at = "idle"
         /\ UNCHANGED <<exec, has_executor, expired, misremoved>>
         /\ \A v \in Users \ {u} : call'[v] = call[v]
         /\ call'[u].op = op /\ call'[u].exec = e /\ call'[u].node = n
         /\ call'[u].at = (IF op = "add" THEN "exchange" ELSE IF op = "remove" THEN "erase" ELSE "spin")
<1> DEFINE c == Begun(op, e, n)
<1>1. /\ u \in Users /\ e \in Execs /\ call[u].at = "idle"
      /\ UNCHANGED <<exec, regRest>> /\ call' = [call EXCEPT ![u] = c]
  BY DEF Begin, Idle
<1>2. /\ c.op = op /\ c.exec = e /\ c.node = n
      /\ c.at = (IF op = "add" THEN "exchange" ELSE IF op = "remove" THEN "erase" ELSE "spin")
  BY DEF Begun, FirstStep
<1>3. c = [op |-> c.op, exec |-> c.exec, node |-> c.node, at |-> c.at, removed |-> c.removed] BY DEF Begun
<1> HIDE DEF c
<1>4. IsCall(c) BY <1>1, <1>2, <1>3 DEF IsCall
<1>5. Execs' = Execs BY <1>1, SameExec DEF Shapes
<1>6. Users' = Users /\ call'[u] = c /\ \A v \in Users \ {u} : call'[v] = call[v]
  BY <1>1, <1>4, <1>5, CallEffect DEF Shapes
<1>7. UNCHANGED <<exec, has_executor, expired, misremoved>> BY <1>1 DEF regRest
<1>8. QED BY <1>1, <1>2, <1>5, <1>6, <1>7

LEMMA MainCallsEnds == ASSUME Shapes, Ending, MainCalls PROVE Ending'
<1>1. PICK op \in {"add", "remove", "spin"} : MainAt(op) /\ Begin(0, op, NextOp.exec, NextOp.node)
  BY DEF MainCalls
<1>2. at' = at + 1 /\ UNCHANGED <<program, spun>> BY DEF MainCalls
<1> SUFFICES ASSUME NEW o, o = script[at] PROVE Ending' OBVIOUS
<1>3. at \in DOMAIN script /\ o.op = op /\ call[0].at = "idle" BY <1>1, MainIsAt
<1>4. Begin(0, op, o.exec, o.node) BY <1>1 DEF NextOp
<1>5. /\ Execs' = Execs /\ Users' = Users
      /\ UNCHANGED <<exec, has_executor, expired, misremoved>>
      /\ \A v \in Users \ {0} : call'[v] = call[v]
      /\ Begins(o, call'[0])
  BY <1>3, <1>4, BeginsCall DEF Begins
<1>6. Fixed' /\ Calling' /\ Spinning' /\ Returning' BY <1>2, <1>3, <1>5, MainAdvances
<1>7. call'[0].at # "store" /\ (op = "remove" => call'[0].at = "erase") BY <1>3, <1>5 DEF Begins
<1>8. Flagging' /\ Placing' BY <1>2, <1>3, <1>5, <1>7, MainKeeps
<1>9. QED BY <1>6, <1>8 DEF Ending

LEMMA MainSpawnsEnds == ASSUME Shapes, Ending, MainSpawns PROVE Ending'
<1>1. /\ MainAt("spawn") /\ Begin(NextOp.exec, "spin", NextOp.exec, Nobody)
      /\ at' = at + 1 /\ UNCHANGED <<program, spun>>
  BY DEF MainSpawns
<1> SUFFICES ASSUME NEW o, o = script[at] PROVE Ending' OBVIOUS
<1>2. at \in DOMAIN script /\ o.op = "spawn" /\ call[0].at = "idle" BY <1>1, MainIsAt
<1>3. Begin(o.exec, "spin", o.exec, Nobody) BY <1>1 DEF NextOp
<1>4. /\ Execs' = Execs /\ Users' = Users /\ o.exec \in Users /\ o.exec \in Execs
      /\ call[o.exec].at = "idle"
      /\ UNCHANGED <<exec, has_executor, expired, misremoved>>
      /\ \A v \in Users \ {o.exec} : call'[v] = call[v]
      /\ call'[o.exec].exec = o.exec /\ call'[o.exec].at = "spin"
  BY <1>3, BeginsCall
<1>5. o.exec # 0 /\ 0 \in Users BY <1>4 DEF Ending, Fixed
<1>6. call'[0] = call[0] BY <1>4, <1>5
<1>7. Fixed' /\ Calling' /\ Spinning' /\ Returning' BY <1>1, <1>2, <1>4, <1>6, MainAdvances
<1>8. Flagging' /\ Placing' BY <1>1, <1>2, <1>4, <1>6, MainKeeps
<1>9. QED BY <1>7, <1>8 DEF Ending

\* A step that changes no call, and takes nothing off a list or a flag.
LEMMA AsideEnds ==
  ASSUME AreCalls, Ending, UNCHANGED <<program, at, spun, call, has_executor, expired, misremoved>>,
         Execs' = Execs, Users' = Users,
         \A e \in Execs : /\ exec'[e].weak_nodes = exec[e].weak_nodes
                          /\ exec'[e].spinning => exec[e].spinning
  PROVE  Ending'
<1>1. UNCHANGED <<prog, script>> BY DEF program
<1>2. Fixed' BY FixedKept DEF Ending
<1>3. Calling' BY <1>1 DEF Ending, Calling
<1>4. \A e, n : \A before : Given(e, n, before)' <=> Given(e, n, before) BY <1>1 DEF Given
<1>5. Flagging' BY <1>1, <1>4 DEF Ending, Flagging
<1>6. Placing'
  <2>1. call[0].at = "store" => call[0].exec \in Execs
    <3>1. 0 \in Users BY DEF Ending, Fixed
    <3>2. QED BY <3>1 DEF AreCalls, IsCall
  <2>2. call'[0].at = "store" => call'[0].node \notin exec'[call'[0].exec].weak_nodes
    BY <2>1 DEF Ending, Placing
  <2>3. \A e \in Execs : \A n \in exec'[e].weak_nodes : Given(e, n, {"exchange", "push"})'
    BY <1>4 DEF Ending, Placing
  <2>4. QED BY <1>1, <2>2, <2>3 DEF Ending, Placing
<1>7. Spinning' BY DEF Ending, Spinning
<1>8. Returning' BY <1>1 DEF Ending, Returning
<1>9. QED BY <1>2, <1>3, <1>5, <1>6, <1>7, <1>8 DEF Ending

LEMMA MainJoinsEnds == ASSUME Shapes, Ending, MainJoins \/ MainCalibrates PROVE Ending'
<1>1. UNCHANGED <<exec, call, regRest>> /\ UNCHANGED <<program, spun>>
  BY DEF MainJoins, MainCalibrates, regVars
<1>2. Execs' = Execs /\ Users' = Users BY <1>1, SameExec, SameCall DEF Shapes
<1>3. UNCHANGED <<has_executor, expired, misremoved>> BY <1>1 DEF regRest
<1>4. CASE at' = at BY <1>1, <1>2, <1>3, <1>4, AsideEnds DEF Shapes
<1>5. CASE at' # at
  <2> SUFFICES ASSUME NEW o, o = script[at] PROVE Ending' OBVIOUS
  <2>1. /\ MainAt("join") \/ MainAt("calibrate")
        /\ MainAt("join") => call[o.exec].at = "idle"
        /\ at' = at + 1
    BY <1>5 DEF MainJoins, MainCalibrates, NextOp, Idle, MainAt
  <2>2. at \in DOMAIN script /\ o.op \in {"join", "calibrate"} /\ call[0].at = "idle"
        /\ (o.op = "join" => call[o.exec].at = "idle")
    BY <2>1, MainIsAt
  <2>3. Fixed' /\ Calling' /\ Spinning' /\ Returning' BY <1>1, <1>2, <2>1, <2>2, MainAdvances
  <2>4. Flagging' /\ Placing' BY <1>1, <1>2, <1>3, <2>1, <2>2, MainKeeps
  <2>5. QED BY <2>3, <2>4 DEF Ending
<1>6. QED BY <1>4, <1>5

\* alloc_exe gives the nodes to the executors, as the script is read.
LEMMA AssignEffect ==
  ASSUME Shapes, NEW share, Assign(share)
  PROVE  /\ Execs' = Execs /\ Users' = Users /\ \A u \in Users : call[u].at = "idle"
         /\ UNCHANGED <<call, expired, misremoved>> /\ has_executor' = UNION {share[e] : e \in Execs}
         /\ \A e \in Execs : exec'[e].weak_nodes = share[e] /\ exec'[e].spinning = exec[e].spinning
<1>1. AreExecutors /\ AreCalls /\ \A u \in Users : call[u].at = "idle"
  <2>1. Idle.at = "idle" BY DEF Idle
  <2>2. QED BY <2>1 DEF Shapes, Assign
<1>2. UNCHANGED <<call, expired, misremoved>> /\ has_executor' = UNION {share[e] : e \in Execs}
  BY DEF Assign
<1> DEFINE x(e) == SetInterrupt(SetGuards(SetList(exec[e], share[e]), share[e]),
                                exec[e].interrupt \/ share[e] # {})
<1>3. exec' = [e \in Execs |-> x(e)] BY DEF Assign, SetInterrupt, SetGuards, SetList
<1>4. ASSUME NEW e \in Execs PROVE x(e).weak_nodes = share[e] /\ x(e).spinning = exec[e].spinning
  <2> SUFFICES ASSUME NEW i, i = (exec[e].interrupt \/ share[e] # {}), NEW y, NEW z,
                      y = SetList(exec[e], share[e]), z = SetGuards(y, share[e])
               PROVE  SetInterrupt(z, i).weak_nodes = share[e]
                      /\ SetInterrupt(z, i).spinning = exec[e].spinning
    OBVIOUS
  <2>1. IsExecutor(y) /\ y.weak_nodes = share[e] /\ y.spinning = exec[e].spinning
    BY <1>1, NewList DEF AreExecutors
  <2>2. IsExecutor(z) /\ z.weak_nodes = share[e] /\ z.spinning = exec[e].spinning BY <2>1, NewGuards
  <2>3. QED BY <2>2, NewInterrupt
<1> HIDE DEF x
<1>5. Execs' = Execs BY <1>3 DEF Execs
<1>6. Users' = Users BY <1>1, <1>2, <1>5, SameCall
<1>7. QED BY <1>1, <1>2, <1>3, <1>4, <1>5, <1>6

LEMMA NoNodes == Nodes(<<>>) = {}
BY DEF Nodes

LEMMA AllocateEnds == ASSUME Shapes, Ending, IsMain, Allocate PROVE Ending'
<1> DEFINE count == Nodelets(size[1], size[2])
           mine(e) == {NameOf(k) : k \in {j \in Nodes(graph) : NodeletOf(found[j], count) = e - 1}}
           share == [e \in Execs |-> mine(e)]
<1>1. prog # "graphs" BY DEF Ending, Fixed, Main
<1>2. MainAt("alloc") /\ Assign(share) /\ at' = at + 1 /\ UNCHANGED <<program, spun>>
  BY <1>1 DEF Allocate
<1>3. at \in DOMAIN script /\ script[at].op = "alloc" /\ call[0].at = "idle" BY <1>2, MainIsAt
<1>4. ASSUME NEW e \in Execs, NEW n \in share[e] PROVE <<e, n>> \in Gives(prog, script[at])
  <2>1. n \in mine(e) BY <1>4
  <2>2. PICK k \in Nodes(graph) : n = AddOrder(prog)[k + 1].node /\ NodeletOf(found[k], count) = e - 1
    BY <2>1 DEF NameOf
  <2>3. graph # <<>> BY <2>2, NoNodes
  <2>4. Distr(prog) /\ graph = GraphOf(prog) /\ found = Layers(GraphOf(prog)) /\ count = Count(prog)
    BY <2>3 DEF Ending, Fixed, Count
  <2>5. 1 + (e - 1) = e BY DEF Ending, Fixed
  <2> HIDE DEF count
  <2>6. <<e, n>> = <<1 + NodeletOf(Layers(GraphOf(prog))[k], Count(prog)), AddOrder(prog)[k + 1].node>>
    BY <2>2, <2>4, <2>5
  <2>7. QED BY <1>3, <2>2, <2>4, <2>6 DEF Gives
<1> HIDE DEF share
<1>5. /\ Execs' = Execs /\ Users' = Users /\ \A u \in Users : call[u].at = "idle"
      /\ UNCHANGED <<call, expired, misremoved>> /\ has_executor' = UNION {share[e] : e \in Execs}
      /\ \A e \in Execs : exec'[e].weak_nodes = share[e] /\ exec'[e].spinning = exec[e].spinning
  BY <1>2, AssignEffect
<1>6. Fixed' /\ Calling' /\ Spinning' /\ Returning'
  <2> SUFFICES ASSUME NEW o, o = script[at] PROVE Fixed' /\ Calling' /\ Spinning' /\ Returning'
    OBVIOUS
  <2>1. o.op = "alloc" BY <1>3
  <2>2. QED BY <1>2, <1>3, <1>5, <2>1, MainAdvances
<1>7. UNCHANGED <<prog, script>> BY <1>2 DEF program
<1>8. at \in Nat /\ DOMAIN script \subseteq Nat BY ScriptFacts DEF Ending, Calling
<1>9. ASSUME NEW e \in Execs, NEW n \in share[e], NEW before, "idle" \notin before PROVE Given(e, n, before)'
  <2>1. <<e, n>> \in Gives(prog, script[at]) /\ at < at' BY <1>2, <1>4, <1>8, <1>9
  <2>2. QED BY <1>3, <1>5, <1>7, <1>9, <2>1 DEF Given
<1>10. Flagging'
  <2> SUFFICES ASSUME NEW e \in Execs, NEW n \in share[e]
               PROVE  /\ \E f : Given(f, n, {"exchange"})'
                      /\ \A j \in DOMAIN script : (j < at' /\ script[j].op = "remove" /\ script[j].node = n) => FALSE
    BY <1>5, <1>7 DEF Flagging
  <2>1. Given(e, n, {"exchange"})' BY <1>9
  <2>2. <<e, n>> \in Gives(prog, script[at]) BY <1>4
  <2>3. \A j \in DOMAIN script : (script[j].op = "remove" /\ script[j].node = n) => at < j
    BY <1>3, <2>2, ScriptFacts DEF Ending
  <2>4. QED BY <1>2, <1>8, <2>1, <2>3
<1>11. Placing'
  <2>1. \A e \in Execs : \A n \in exec'[e].weak_nodes : Given(e, n, {"exchange", "push"})' BY <1>5, <1>9
  <2>2. QED BY <1>3, <1>5, <1>7, <2>1 DEF Ending, Placing
<1>12. QED BY <1>6, <1>10, <1>11 DEF Ending

\* When main comes to its end every thread is joined and every node removed.
LEMMA ShutdownClean ==
  ASSUME OneClaim, Ending, MainAt("shutdown")
  PROVE  /\ has_executor = {}
         /\ \A e \in Execs : exec[e].weak_nodes \subseteq misremoved /\ ~ exec[e].spinning
         /\ misremoved # {} => prog = "executor_nodelet"
<1>1. at \in DOMAIN script /\ script[at].op = "shutdown" /\ call[0].at = "idle" BY MainIsAt
<1>2. /\ at = Len(script) /\ OpenAt(script, at) = {}
      /\ DOMAIN script = 1 .. Len(script) /\ Len(script) \in Nat
  BY <1>1, ScriptFacts DEF Ending, JoinsBefore
<1>3. \A u \in Users : call[u].at = "idle" BY <1>1, <1>2 DEF Ending, Calling
<1>4. ASSUME NEW n \in has_executor PROVE FALSE
  <2>1. PICK e : Given(e, n, {"exchange"}) BY DEF Ending, Flagging
  <2>2. PICK i \in DOMAIN script : <<e, n>> \in Gives(prog, script[i]) BY <2>1 DEF Given
  <2>3. PICK j \in DOMAIN script : script[j].op = "remove" /\ script[j].node = n
    BY <2>2, ScriptFacts DEF Ending
  <2>4. j < at
    <3>1. j # at BY <1>1, <2>3
    <3>2. QED BY <1>2, <3>1
  <2>5. QED BY <1>1, <2>3, <2>4 DEF Ending, Flagging
<1>5. ASSUME NEW e \in Execs, NEW n \in exec[e].weak_nodes, n \notin misremoved PROVE FALSE
  <2>1. ClaimedOnce(n) BY <1>5 DEF OneClaim, Excepted, Ending, Placing
  <2>2. n \in has_executor BY <1>5, <2>1 DEF ClaimedOnce, Lists
  <2>3. QED BY <1>4, <2>2
<1>6. \A e \in Execs : ~ exec[e].spinning BY <1>3 DEF Ending, Spinning
<1>7. QED BY <1>4, <1>5, <1>6 DEF Ending, Placing

\* Steps of an executor and of what surrounds the program.
LEMMA OneAside ==
  ASSUME Shapes, Ending, UNCHANGED <<program, at, spun, call, regRest>>, NEW e \in Execs,
         NEW x, IsExecutor(x), exec' = [exec EXCEPT ![e] = x],
         x.weak_nodes = exec[e].weak_nodes, x.spinning = exec[e].spinning
  PROVE  Ending'
<1>1. /\ Execs' = Execs /\ exec'[e] = x /\ \A f \in Execs \ {e} : exec'[f] = exec[f]
  BY ExecEffect DEF Shapes
<1>2. Users' = Users BY <1>1, SameCall DEF Shapes
<1>3. UNCHANGED <<has_executor, expired, misremoved>> BY DEF regRest
<1>4. \A f \in Execs : exec'[f].weak_nodes = exec[f].weak_nodes /\ exec'[f].spinning = exec[f].spinning
  BY <1>1
<1>5. QED BY <1>1, <1>2, <1>3, <1>4, AsideEnds DEF Shapes

LEMMA FillEnds ==
  ASSUME Shapes, Ending, NEW e \in Execs, NEW busy, NEW poll, Fill(e, busy, poll),
         UNCHANGED <<program, at, spun>>
  PROVE  Ending'
<1> SUFFICES ASSUME NEW y, y = Cleaned(exec[e]), NEW w,
                    w = [nodes |-> y.weak_nodes \ busy, busy |-> y.weak_nodes \cap busy,
                         guards |-> y.guards, entities |-> y.weak_nodes \cap entities, poll |-> poll]
             PROVE  Ending'
  OBVIOUS
<1> DEFINE z == SetPhase(y, "wait")
           x == SetWaitSet(z, w)
<1>1. IsExecutor(exec[e]) BY DEF Shapes, AreExecutors
<1>2. UNCHANGED <<call, regRest>> /\ exec' = [exec EXCEPT ![e] = x] BY DEF Fill, SetWaitSet, SetPhase
<1>3. IsExecutor(y) /\ y.weak_nodes = exec[e].weak_nodes
  <2>1. expired = {} BY DEF Ending, Placing
  <2>2. QED BY <1>1, <2>1, CleanedList
<1>4. y.spinning = exec[e].spinning BY <1>1 DEF Cleaned, IsExecutor
<1>5. IsExecutor(z) /\ z.weak_nodes = y.weak_nodes /\ z.spinning = y.spinning BY <1>3, NewPhase
<1> HIDE DEF z
<1>6. IsExecutor(x) /\ x.weak_nodes = z.weak_nodes /\ x.spinning = z.spinning BY <1>5, NewWaitSet
<1> HIDE DEF x
<1>7. QED BY <1>2, <1>3, <1>4, <1>5, <1>6, OneAside

LEMMA LeavesEnds ==
  ASSUME Shapes, Ending, NEW e \in Execs, NEW phase, LeavesWait(e, phase), UNCHANGED <<program, at, spun>>
  PROVE  Ending'
<1> SUFFICES ASSUME NEW no, no = FALSE PROVE Ending' OBVIOUS
<1> DEFINE y == SetPhase(exec[e], phase)
           z == SetInterrupt(y, no)
           x == SetWaitSet(z, NotWaiting)
<1>1. IsExecutor(exec[e]) BY DEF Shapes, AreExecutors
<1>2. /\ exec' = [exec EXCEPT ![e] = x] /\ UNCHANGED <<call, has_executor, expired, misremoved>>
  BY DEF LeavesWait, SetWaitSet, SetInterrupt, SetPhase
<1>3. IsExecutor(y) /\ y.weak_nodes = exec[e].weak_nodes /\ y.spinning = exec[e].spinning
  BY <1>1, NewPhase
<1> HIDE DEF y
<1>4. IsExecutor(z) /\ z.weak_nodes = y.weak_nodes /\ z.spinning = y.spinning BY <1>3, NewInterrupt
<1> HIDE DEF z
<1>5. IsExecutor(x) /\ x.weak_nodes = z.weak_nodes /\ x.spinning = z.spinning BY <1>4, NewWaitSet
<1> HIDE DEF x
<1>6. /\ Execs' = Execs /\ exec'[e] = x /\ \A f \in Execs \ {e} : exec'[f] = exec[f]
  BY <1>2, <1>5, ExecEffect DEF Shapes
<1>7. Users' = Users BY <1>2, <1>6, SameCall DEF Shapes
<1>8. \A f \in Execs : exec'[f].weak_nodes = exec[f].weak_nodes /\ exec'[f].spinning = exec[f].spinning
  BY <1>3, <1>4, <1>5, <1>6
<1>9. QED BY <1>2, <1>6, <1>7, <1>8, AsideEnds DEF Shapes

LEMMA WakeEnds ==
  ASSUME Shapes, Ending, NEW e \in Execs, Wake(e), UNCHANGED <<program, at, spun>>
  PROVE  Ending'
<1>1. LeavesWait(e, "choose") BY DEF Wake
<1>2. QED BY <1>1, LeavesEnds

LEMMA TakenEnds ==
  ASSUME Shapes, Ending, NEW e, NEW phase, Taken(e, phase), UNCHANGED <<program, at, spun>>
  PROVE  Ending'
<1>1. e \in Execs /\ IsExecutor(exec[e]) BY DEF Shapes, AreExecutors, Taken
<1>2. CASE LeavesWait(e, phase) BY <1>1, <1>2, LeavesEnds
<1>3. CASE ~ LeavesWait(e, phase)
  <2> DEFINE y == SetPhase(exec[e], phase)
             x == SetWaitSet(y, NotWaiting)
  <2>1. UNCHANGED <<call, regRest>> /\ exec' = [exec EXCEPT ![e] = x]
    BY <1>3 DEF Taken, SetWaitSet, SetPhase
  <2>2. IsExecutor(y) /\ y.weak_nodes = exec[e].weak_nodes /\ y.spinning = exec[e].spinning
    BY <1>1, NewPhase
  <2> HIDE DEF y
  <2>3. IsExecutor(x) /\ x.weak_nodes = y.weak_nodes /\ x.spinning = y.spinning BY <2>2, NewWaitSet
  <2> HIDE DEF x
  <2>4. QED BY <1>1, <2>1, <2>2, <2>3, OneAside
<1>4. QED BY <1>2, <1>3

LEMMA ReleasedEnds ==
  ASSUME Shapes, Ending, NEW e, Released(e), UNCHANGED <<program, at, spun>>
  PROVE  Ending'
<1> SUFFICES ASSUME NEW yes, yes = TRUE, NEW p,
                    p = IF exec[e].phase = "busy" THEN "choose" ELSE exec[e].phase
             PROVE  Ending'
  OBVIOUS
<1> DEFINE y == SetInterrupt(exec[e], yes)
           x == SetPhase(y, p)
<1>1. e \in Execs /\ AreExecutors /\ IsExecutor(exec[e]) BY DEF Shapes, AreExecutors, Released
<1>2. UNCHANGED <<call, regRest>> /\ exec' = [exec EXCEPT ![e] = x]
  BY <1>1 DEF Released, SetInterrupt, SetPhase, AreExecutors, IsExecutor
<1>3. IsExecutor(y) /\ y.weak_nodes = exec[e].weak_nodes /\ y.spinning = exec[e].spinning
  BY <1>1, NewInterrupt
<1> HIDE DEF y
<1>4. IsExecutor(x) /\ x.weak_nodes = y.weak_nodes /\ x.spinning = y.spinning BY <1>3, NewPhase
<1> HIDE DEF x
<1>5. QED BY <1>1, <1>2, <1>3, <1>4, OneAside

LEMMA InterruptEnds ==
  ASSUME Shapes, Ending, InterruptWaitSets, UNCHANGED <<program, at, spun>>
  PROVE  Ending'
<1> SUFFICES ASSUME NEW yes, yes = TRUE PROVE Ending' OBVIOUS
<1>1. UNCHANGED <<call, regRest>> /\ exec' = [e \in Execs |-> SetInterrupt(exec[e], yes)]
  BY DEF InterruptWaitSets, SetInterrupt
<1>2. ASSUME NEW e \in Execs
      PROVE  /\ SetInterrupt(exec[e], yes).weak_nodes = exec[e].weak_nodes
             /\ SetInterrupt(exec[e], yes).spinning = exec[e].spinning
  BY NewInterrupt DEF Shapes, AreExecutors
<1>3. Execs' = Execs /\ \A e \in Execs : exec'[e] = SetInterrupt(exec[e], yes) BY <1>1 DEF Execs
<1>4. Users' = Users /\ UNCHANGED <<has_executor, expired, misremoved>>
  BY <1>1, <1>3, SameCall DEF Shapes, regRest
<1>5. \A e \in Execs : exec'[e].weak_nodes = exec[e].weak_nodes /\ exec'[e].spinning = exec[e].spinning
  BY <1>2, <1>3
<1>6. QED BY <1>1, <1>3, <1>4, <1>5, AsideEnds DEF Shapes

LEMMA NothingEnds ==
  ASSUME Shapes, Ending, UNCHANGED <<program, at, spun, exec, call, has_executor, expired, misremoved>>
  PROVE  Ending'
<1>1. Execs' = Execs /\ Users' = Users BY SameExec, SameCall DEF Shapes
<1>2. QED BY <1>1, AsideEnds DEF Shapes

\* A call of main or of a thread: nothing of it is thrown.
LEMMA CallEnds ==
  ASSUME Shapes, OneClaim, Ending, NEW u \in Users, CallStep(u)
  PROVE  Ending' /\ over' = over
<1>1. RegistrationStep(u) /\ UNCHANGED <<program, at, spun>> BY DEF CallStep
<1>2. call[u].at \in {"idle", "exchange", "push", "trigger", "guard", "erase", "store", "unguard",
                      "spin", "loop"}
  BY MainMoves DEF Ending
<1>3. \/ Exchange(u) \/ Push(u) \/ Trigger(u) \/ AddGuard(u)
      \/ Erase(u) \/ Store(u) \/ RemoveGuard(u) \/ SpinBegins(u)
  BY <1>1, <1>2 DEF RegistrationStep, AddEntity, NotifyEntity, DestroyNode, DestroyExecutor,
                    SomeBegins, SomeEnds, At
<1>4. Ending' /\ (call[u].at \in {"exchange", "push", "spin"} => call'[u].at # "idle")
  <2>1. CASE Exchange(u) BY <1>1, <2>1, ExchangeEnds
  <2>2. CASE Push(u) BY <1>1, <2>2, PushEnds
  <2>3. CASE Trigger(u) BY <1>1, <2>3, TriggerEnds
  <2>4. CASE AddGuard(u) \/ RemoveGuard(u) BY <1>1, <2>4, GuardEnds
  <2>5. CASE Erase(u) BY <1>1, <2>5, EraseEnds
  <2>6. CASE Store(u) BY <1>1, <2>6, StoreEnds
  <2>7. CASE SpinBegins(u) BY <1>1, <2>7, SpinBeginsEnds
  <2>8. QED BY <1>3, <2>1, <2>2, <2>3, <2>4, <2>5, <2>6, <2>7
<1>5. Idle.at = "idle" BY DEF Idle
<1>6. QED BY <1>4, <1>5 DEF CallStep

\* spin() that returns terminates the process only where main spins an ExecutorNodelet again.
LEMMA SpinEnds ==
  ASSUME Shapes, Ending, IsMain, NEW u \in Users, SpinReturns(u)
  PROVE  Ending' /\ ThrowsOnlyOnRespin' /\ over' # "ended"
<1> SUFFICES ASSUME NEW e, e = call[u].exec PROVE Ending' /\ ThrowsOnlyOnRespin' /\ over' # "ended"
  OBVIOUS
<1>1. /\ over = "" /\ SpinLeaves(u) /\ spun' = spun \cup {e} /\ UNCHANGED <<program, at>>
      /\ over' = IF JoinThrows(e) THEN "terminated" ELSE over
  BY DEF SpinReturns, Running
<1>2. Ending' BY <1>1, SpinReturnsEnds
<1>3. ASSUME JoinThrows(e) PROVE prog \in {"exp0_interexe", "exp0_co_interexe"} /\ 1 \in spun'
  <2>1. kind \in {"nodelet", "distr"} /\ e \in spun /\ threads[e] > 1 BY <1>3 DEF JoinThrows
  <2>2. call[u].at = "loop" BY <1>1 DEF SpinLeaves, At
  <2>3. e \in Execs BY <2>2 DEF Shapes, AreCalls, IsCall
  <2>4. PICK i, j \in SpinsAt(script, e) : i < j /\ j < at BY <2>1, <2>2 DEF Ending, Returning
  <2>5. e \in 1 .. Count(prog) /\ Main[prog].kind = kind /\ ThreadsIn(prog)[e] = threads[e]
    BY <2>3 DEF Ending, Fixed
  <2>6. /\ prog \in {"exp0_interexe", "exp0_co_interexe"}
        /\ e = 1 \/ \E k \in 1 .. j - 1 : script[k].op = "spin" /\ script[k].exec = 1
    BY <2>1, <2>4, <2>5, ScriptFacts DEF Ending, SpinsTwice
  <2>7. ASSUME NEW k \in 1 .. j - 1, script[k].op = "spin", script[k].exec = 1 PROVE 1 \in spun
    <3>1. /\ at \in Nat /\ j \in DOMAIN script /\ DOMAIN script = 1 .. Len(script) /\ Len(script) \in Nat
      BY <2>4, ScriptFacts DEF Ending, Calling, SpinsAt
    <3>2. k \in DOMAIN script /\ k < at /\ k # at - 1 BY <2>4, <3>1
    <3>3. QED BY <2>7, <3>2 DEF Ending, Returning
  <2>8. QED BY <1>1, <2>6, <2>7
<1>4. prog' = prog BY <1>1 DEF program
<1>5. QED BY <1>1, <1>2, <1>3, <1>4 DEF ThrowsOnlyOnRespin

\* A step of a callback.
LEMMA PathEnds ==
  ASSUME Shapes, Ending, NEW i, PathStep(i)
  PROVE  Ending'
<1>1. (Take(i) \/ ResumeRest(i)) => Ending'
  <2>1. ASSUME NEW e, NEW phase, Taken(e, phase), UNCHANGED progVars PROVE Ending'
    BY <2>1, TakenEnds DEF progVars
  <2>2. QED BY <2>1 DEF Take, ResumeRest
<1>2. (RecordCoroutine(i) \/ CallbackReturns(i)) => Ending'
  <2>1. ASSUME NEW e, Released(e), UNCHANGED progVars PROVE Ending' BY <2>1, ReleasedEnds DEF progVars
  <2>2. QED BY <2>1 DEF RecordCoroutine, CallbackReturns
<1>3. ASSUME UNCHANGED regVars, UNCHANGED <<program, at, spun>> PROVE Ending'
  BY <1>3, NothingEnds DEF regVars, regRest
<1>4. (Work(i) \/ Launch(i) \/ Await(i) \/ SleepEnds(i) \/ Sync(i) \/ Publish(i)) => Ending'
  BY <1>3 DEF Work, Launch, Await, SleepEnds, Sync, Publish, progVars
<1>5. QED BY <1>1, <1>2, <1>4 DEF PathStep

LEMMA PathOver ==
  ASSUME NEW i, PathStep(i)
  PROVE  over = "" /\ over' \in {"", "exited"} /\ UNCHANGED program
BY DEF PathStep, Take, Work, Launch, Await, RecordCoroutine, SleepEnds, ResumeRest, Sync, Publish,
       CallbackReturns, Now, Running, progVars

\* What ends a program: its own end, a second spin(), or exit().
LEMMA OthersOver ==
  ASSUME Next, ~ MainEnds, \A u \in Users : ~ CallStep(u) /\ ~ SpinReturns(u)
  PROVE  over = "" /\ over' \in {"", "exited"} /\ UNCHANGED program
<1>1. CASE MainStep
  <2>1. (MainCalls \/ MainSpawns) => over = "" /\ over' = "" /\ UNCHANGED program
    BY DEF MainCalls, MainSpawns, MainAt, Running
  <2>2. MainJoins => over = "" /\ over' = "" /\ UNCHANGED program
    <3>1. MainJoins => MainAt("join") /\ UNCHANGED <<program, over>> BY DEF MainJoins
    <3>2. QED BY <3>1 DEF MainAt, Running
  <2>3. MainCalibrates => over = "" /\ over' = "" /\ UNCHANGED program
    <3>1. MainCalibrates => MainAt("calibrate") /\ UNCHANGED <<program, over>> BY DEF MainCalibrates
    <3>2. QED BY <3>1 DEF MainAt, Running
  <2>4. Allocate => over = "" /\ over' = "" /\ UNCHANGED program BY DEF Allocate, MainAt, Running
  <2>5. QED BY <1>1, <2>1, <2>2, <2>3, <2>4 DEF MainStep
<1>2. CASE InterruptAll \/ Signal BY <1>2 DEF InterruptAll, Signal, Running
<1>3. CASE \E e \in Execs : ExecutorWaits(e) \/ ExecutorWakes(e)
  BY <1>3 DEF ExecutorWaits, ExecutorWakes, Running, progVars
<1>4. CASE \E i \in DOMAIN watch : PathStep(i) BY <1>4, PathOver
<1>5. CASE \E u \in {0, 1} : FreeCall(u) BY <1>5 DEF FreeCall, Running
<1>6. QED BY <1>1, <1>2, <1>3, <1>4, <1>5 DEF Next, System

LEMMA OthersEnd ==
  ASSUME Shapes, Ending, IsMain, Next, ~ MainEnds, \A u \in Users : ~ CallStep(u) /\ ~ SpinReturns(u)
  PROVE  Ending'
<1>1. CASE MainStep
  BY <1>1, MainCallsEnds, MainSpawnsEnds, MainJoinsEnds, AllocateEnds DEF MainStep
<1>2. InterruptAll => Ending' BY InterruptEnds DEF InterruptAll
<1>3. Signal => Ending'
  <2> SUFFICES ASSUME Signal PROVE Ending' OBVIOUS
  <2>1. UNCHANGED <<program, at, spun>> BY DEF Signal
  <2>2. UNCHANGED <<exec, call, has_executor, expired, misremoved>> BY DEF Signal, ContextShutdown
  <2>3. QED BY <2>1, <2>2, NothingEnds
<1>4. ASSUME NEW e \in Execs, ExecutorWaits(e) \/ ExecutorWakes(e) PROVE Ending'
  <2>1. UNCHANGED <<program, at, spun>> BY <1>4 DEF ExecutorWaits, ExecutorWakes, progVars
  <2>2. ExecutorWakes(e) => Ending' BY <2>1, WakeEnds DEF ExecutorWakes
  <2>3. ASSUME ExecutorWaits(e) PROVE Ending'
    <3>1. PICK busy, poll : Fill(e, busy, poll) BY <2>3 DEF ExecutorWaits
    <3>2. QED BY <2>1, <3>1, FillEnds
  <2>4. QED BY <1>4, <2>2, <2>3
<1>5. ASSUME NEW i, PathStep(i) PROVE Ending' BY <1>5, PathEnds
<1>6. prog # "registry" BY DEF Ending, Fixed, Main
<1>7. \A u : ~ FreeCall(u) BY <1>6 DEF FreeCall
<1>8. QED BY <1>1, <1>2, <1>3, <1>4, <1>5, <1>7 DEF Next, System

LEMMA EndStep ==
  ASSUME Shapes, OneClaim, EndInv, Next
  PROVE  EndInv'
<1>1. CASE ~ IsMain
  <2>1. ~ MainEnds BY <1>1 DEF MainEnds, MainAt
  <2>2. ASSUME NEW u \in Users, CallStep(u) \/ SpinReturns(u)
        PROVE  over' \notin {"ended", "terminated"} /\ UNCHANGED program
    BY <1>1, <2>2 DEF CallStep, SpinReturns, JoinThrows, EndInv
  <2>3. over' \notin {"ended", "terminated"} /\ UNCHANGED program BY <2>1, <2>2, OthersOver
  <2>4. QED BY <1>1, <2>3 DEF EndInv, IsMain, program
<1>2. CASE IsMain
  <2>1. Ending BY <1>2 DEF EndInv, Ending
  <2>2. Ending' /\ ThrowsOnlyOnRespin' /\ EndsClean' /\ UNCHANGED program
    <3>1. ASSUME MainEnds PROVE Ending' /\ ThrowsOnlyOnRespin' /\ EndsClean' /\ UNCHANGED program
      <4>1. /\ MainAt("shutdown") /\ over' = "ended" /\ UNCHANGED <<program, at, spun>>
            /\ UNCHANGED <<exec, call, has_executor, expired, misremoved>>
        BY <3>1 DEF MainEnds, ContextShutdown
      <4>2. Ending' BY <2>1, <4>1, NothingEnds
      <4>3. /\ has_executor = {}
            /\ \A e \in Execs : exec[e].weak_nodes \subseteq misremoved /\ ~ exec[e].spinning
            /\ misremoved # {} => prog = "executor_nodelet"
        BY <2>1, <4>1, ShutdownClean
      <4>4. Execs' = Execs /\ prog' = prog BY <4>1, SameExec DEF Shapes, program
      <4>5. EndsClean' BY <4>1, <4>3, <4>4 DEF EndsClean
      <4>6. QED BY <4>1, <4>2, <4>5 DEF ThrowsOnlyOnRespin
    <3>2. ASSUME NEW u \in Users, CallStep(u)
          PROVE  Ending' /\ ThrowsOnlyOnRespin' /\ EndsClean' /\ UNCHANGED program
      <4>1. Ending' /\ over' = over BY <2>1, <3>2, CallEnds
      <4>2. over = "" /\ UNCHANGED program BY <3>2 DEF CallStep, Running
      <4>3. QED BY <4>1, <4>2 DEF ThrowsOnlyOnRespin, EndsClean
    <3>3. ASSUME NEW u \in Users, SpinReturns(u)
          PROVE  Ending' /\ ThrowsOnlyOnRespin' /\ EndsClean' /\ UNCHANGED program
      <4>1. Ending' /\ ThrowsOnlyOnRespin' /\ over' # "ended" BY <1>2, <2>1, <3>3, SpinEnds
      <4>2. UNCHANGED program BY <3>3 DEF SpinReturns
      <4>3. QED BY <4>1, <4>2 DEF EndsClean
    <3>4. ASSUME ~ MainEnds, \A u \in Users : ~ CallStep(u) /\ ~ SpinReturns(u)
          PROVE  Ending' /\ ThrowsOnlyOnRespin' /\ EndsClean' /\ UNCHANGED program
      <4>1. Ending' BY <1>2, <2>1, <3>4, OthersEnd
      <4>2. over' \in {"", "exited"} /\ UNCHANGED program BY <3>4, OthersOver
      <4>3. QED BY <4>1, <4>2 DEF ThrowsOnlyOnRespin, EndsClean
    <3>5. QED BY <3>1, <3>2, <3>3, <3>4
  <2>3. IsMain' BY <1>2, <2>2 DEF IsMain, program
  <2>4. QED BY <2>2, <2>3 DEF EndInv, Ending
<1>3. QED BY <1>1, <1>2

LEMMA EndsStutter ==
  ASSUME Shapes, EndInv, UNCHANGED vars
  PROVE  EndInv'
<1>1. UNCHANGED <<program, at, spun, over>> /\ UNCHANGED <<exec, call, has_executor, expired, misremoved>>
  BY DEF vars, regVars, regRest, progVars
<1>2. UNCHANGED <<prog, kind>> BY <1>1 DEF program
<1>3. ASSUME IsMain PROVE Ending'
  <2>1. Ending BY <1>3 DEF EndInv, Ending
  <2>2. QED BY <1>1, <2>1, NothingEnds
<1>4. Execs' = Execs BY <1>1, SameExec DEF Shapes
<1>5. (ThrowsOnlyOnRespin /\ EndsClean) => (ThrowsOnlyOnRespin /\ EndsClean)'
  BY <1>1, <1>2, <1>4 DEF ThrowsOnlyOnRespin, EndsClean
<1>6. QED BY <1>1, <1>2, <1>3, <1>5 DEF EndInv, Ending, IsMain

LEMMA EndsStart == Init => EndInv
<1> SUFFICES ASSUME Init PROVE EndInv OBVIOUS
<1>1. over = "" /\ at = 1 /\ spun = {} BY DEF Init, ProgInit
<1>2. prog \notin DOMAIN Main => ~ IsMain BY DEF Init, IsMain
<1>3. ASSUME prog \in DOMAIN Main PROVE Ending
  <2>1. prog # "registry" /\ prog # "graphs" BY <1>3 DEF Main
  <2>2. /\ kind = Main[prog].kind /\ script = ScriptOf(prog) /\ threads = ThreadsIn(prog)
        /\ RegistrationInit(Count(prog))
        /\ graph = (IF Distr(prog) THEN GraphOf(prog) ELSE <<>>)
        /\ size = (IF Distr(prog) THEN <<Main[prog].threads[1], Main[prog].nodelets>> ELSE <<1, 1>>)
        /\ found = (IF graph = <<>> THEN <<>> ELSE Layers(graph))
    BY <2>1 DEF Init
  <2>3. SoundScript(prog, script) BY <1>3, <2>2, ScriptsAssumption
  <2>4. /\ exec = [e \in 1 .. Count(prog) |-> NewExecutor] /\ call = [u \in 0 .. Count(prog) |-> Idle]
        /\ has_executor = {} /\ expired = {} /\ misremoved = {}
    BY <2>2 DEF RegistrationInit
  <2>5. Execs = 1 .. Count(prog) /\ Users = 0 .. Count(prog) BY <2>4 DEF Execs, Users
  <2>6. Count(prog) \in Nat /\ Len(script) \in Nat /\ DOMAIN script = 1 .. Len(script)
    BY <2>3 DEF SoundScript
  <2>7. Fixed BY <1>3, <2>2, <2>5, <2>6 DEF Fixed
  <2>8. /\ 0 \in Users /\ \A u \in Users : call[u].at = "idle"
        /\ \A e \in Execs : exec[e].weak_nodes = {} /\ ~ exec[e].spinning
    BY <2>4, <2>5, <2>6 DEF Idle, NewExecutor
  <2>9. Calling
    <3>0. at = 1 /\ Len(script) \in Nat BY <1>1, <2>6
    <3>1. at \in 1 .. Len(script) + 1 BY <3>0
    <3>2. QED BY <2>8, <3>1 DEF Calling
  <2>10. Flagging /\ Placing
    <3>1. Flagging BY <2>4 DEF Flagging
    <3>2. QED BY <2>4, <2>8, <3>1 DEF Placing
  <2>11. Spinning BY <2>8 DEF Spinning
  <2>12. Returning
    <3>1. \A k \in DOMAIN script : ~ (k < at)
      <4>1. \A k \in 1 .. Len(script) : ~ (k < 1) BY <2>6
      <4>2. QED BY <1>1, <2>6, <4>1
    <3>2. \A u \in Users : call[u].at \notin {"spin", "loop"} BY <2>8
    <3>3. QED BY <1>1, <3>1, <3>2 DEF Returning
  <2>13. QED BY <2>7, <2>9, <2>10, <2>11, <2>12 DEF Ending
<1>4. QED BY <1>1, <1>2, <1>3 DEF EndInv, Ending, ThrowsOnlyOnRespin, EndsClean

\* Whatever the threads of a program do, and however they interleave: a node belongs to the one
\* executor that lists it, no call of main throws but the second spin() of an ExecutorNodelet
\* that has started threads (exp0_interexe and exp0_co_interexe), and main that returns leaves
\* no flag set, no node listed but one that executor_nodelet removes from an executor it was not
\* added to, and no executor spinning.
THEOREM ProgramsEndClean == Spec => []ProgramsEnd
<1>1. RegistrationInv /\ EndInv /\ [Next]_vars => EndInv'
  BY EndStep, EndsStutter DEF RegistrationInv
<1>2. EndInv => ThrowsOnlyOnRespin /\ EndsClean BY DEF EndInv, ThrowsOnlyOnRespin, EndsClean
<1>3. AssociatedIffListed /\ EndInv => ProgramsEnd BY <1>2 DEF ProgramsEnd
<1>4. QED
  BY <1>1, <1>3, EndsStart, ProgramsRegisterOnly, RegistrationInvariant, ProgramsAssociateOnce, PTL
  DEF Spec

------------------------------------------------------------------------------
(* The time a GPU coroutine sleeps.                                         *)

USE TimesAssumption

\* A sum of n durations, and a time that some kernel exceeds by a margin.
SumOfKernels(n, sum) == (n = 0 /\ sum = 0) \/ \E k \in KernelTimes : sum <= n * k
BelowKernel(time, margin) == \E k \in KernelTimes : time + margin <= k

\* What the best score was measured with left at least 20 us of a kernel to wait for.
TunerInv(t) ==
  /\ t = [record |-> t.record, await |-> t.await, base |-> t.base,
          best_await |-> t.best_await, best_eval |-> t.best_eval]
  /\ t.record \in Nat /\ t.await \in Nat /\ t.base \in Nat /\ t.best_await \in Nat
  /\ t.record < 4 => SumOfKernels(t.record, t.await) /\ SumOfKernels(t.record, t.base)
  /\ t.record >= 4 => BelowKernel(t.await, 0) /\ BelowKernel(t.base, 0)
  /\ t.best_await = 0 \/ BelowKernel(t.best_await, 20)

LEMMA SumGrows ==
  ASSUME NEW n \in 0 .. 3, NEW sum \in Nat, SumOfKernels(n, sum), NEW d \in KernelTimes
  PROVE  SumOfKernels(n + 1, sum + d)
<1>1. PICK k \in KernelTimes : sum <= n * k /\ d <= k
  <2>1. CASE n = 0 /\ sum = 0 BY <2>1
  <2>2. ASSUME NEW k \in KernelTimes, sum <= n * k PROVE \E m \in KernelTimes : sum <= n * m /\ d <= m
    <3>1. CASE d <= k BY <2>2, <3>1
    <3>2. CASE d > k
      <4>1. n = 0 \/ n = 1 \/ n = 2 \/ n = 3 OBVIOUS
      <4>2. n * k <= n * d BY <3>2, <4>1
      <4>3. sum <= n * d /\ d <= d
        <5>1. n * k \in Int /\ n * d \in Int BY <4>1
        <5>2. QED BY <2>2, <4>2, <5>1
      <4>4. QED BY <4>3
    <3>3. QED BY <3>1, <3>2
  <2>3. QED BY <2>1, <2>2 DEF SumOfKernels
<1>2. n = 0 \/ n = 1 \/ n = 2 \/ n = 3 OBVIOUS
<1>3. sum + d <= (n + 1) * k BY <1>1, <1>2
<1>4. QED BY <1>3 DEF SumOfKernels

\* The average of four durations is below one of them.
LEMMA AverageBelow ==
  ASSUME NEW sum \in Nat, SumOfKernels(4, sum)
  PROVE  /\ sum \div 4 \in Nat /\ BelowKernel(sum \div 4, 0)
         /\ sum \div 8 \in Nat /\ BelowKernel(sum \div 8, 0)
<1>1. PICK k \in KernelTimes : sum <= 4 * k BY DEF SumOfKernels
<1>2. sum \div 4 \in Nat /\ sum \div 4 <= k BY <1>1
<1>3. sum \div 8 \in Nat /\ sum \div 8 <= k BY <1>1
<1>4. QED BY <1>2, <1>3 DEF BelowKernel

LEMMA RecordFields ==
  ASSUME NEW t, TunerInv(t), NEW d, NEW parts
  PROVE  /\ Record(t, d, d, parts) =
              [record |-> t.record + 1,
               await |-> IF t.record = 3 THEN (t.await + d) \div parts ELSE t.await + d,
               base |-> IF t.record = 3 THEN (t.base + d) \div 4 ELSE t.base + d,
               best_await |-> t.best_await, best_eval |-> t.best_eval]
<1> DEFINE a == IF t.record = 3 THEN (t.await + d) \div parts ELSE t.await + d
           b == IF t.record = 3 THEN (t.base + d) \div 4 ELSE t.base + d
<1>1. Record(t, d, d, parts) = [t EXCEPT !.await = a, !.base = b, !.record = @ + 1] BY DEF Record
<1>2. t = [record |-> t.record, await |-> t.await, base |-> t.base,
           best_await |-> t.best_await, best_eval |-> t.best_eval]
  BY DEF TunerInv
<1> HIDE DEF a, b
<1>3. [t EXCEPT !.await = a, !.base = b, !.record = @ + 1]
      = [record |-> t.record + 1, await |-> a, base |-> b,
         best_await |-> t.best_await, best_eval |-> t.best_eval]
  <2> DEFINE x == [t EXCEPT !.await = a]  y == [x EXCEPT !.base = b]
  <2>1. x = [record |-> t.record, await |-> a, base |-> t.base,
             best_await |-> t.best_await, best_eval |-> t.best_eval]
    BY <1>2
  <2>2. [t EXCEPT !.await = a, !.base = b, !.record = @ + 1] = [y EXCEPT !.record = @ + 1] OBVIOUS
  <2> HIDE DEF x
  <2>3. y = [record |-> t.record, await |-> a, base |-> b,
             best_await |-> t.best_await, best_eval |-> t.best_eval]
    BY <2>1
  <2> HIDE DEF y
  <2>4. [y EXCEPT !.record = @ + 1]
        = [record |-> t.record + 1, await |-> a, base |-> b,
           best_await |-> t.best_await, best_eval |-> t.best_eval]
    BY <2>3
  <2>5. QED BY <2>2, <2>4
<1>4. QED BY <1>1, <1>3 DEF a, b

LEMMA RecordKeeps ==
  ASSUME NEW t, TunerInv(t), Recording(t), NEW d \in KernelTimes, NEW parts \in {4, 8}
  PROVE  TunerInv(Record(t, d, d, parts)) /\ TunerInv([Record(t, d, d, parts) EXCEPT !.base = 0])
<1> DEFINE u == Record(t, d, d, parts)
<1>1. t.record \in 0 .. 3 /\ t.await \in Nat /\ t.base \in Nat BY DEF TunerInv, Recording
<1>2. SumOfKernels(t.record + 1, t.await + d) /\ SumOfKernels(t.record + 1, t.base + d)
  BY <1>1, SumGrows DEF TunerInv
<1>3. /\ u = [record |-> u.record, await |-> u.await, base |-> u.base,
              best_await |-> u.best_await, best_eval |-> u.best_eval]
      /\ u.record = t.record + 1 /\ u.best_await = t.best_await
      /\ u.await = IF t.record = 3 THEN (t.await + d) \div parts ELSE t.await + d
      /\ u.base = IF t.record = 3 THEN (t.base + d) \div 4 ELSE t.base + d
  BY RecordFields
<1> HIDE DEF u
<1>4. d \in Nat OBVIOUS
<1>5. u.await \in Nat /\ u.base \in Nat
      /\ (u.record < 4 => SumOfKernels(u.record, u.await) /\ SumOfKernels(u.record, u.base))
      /\ (u.record >= 4 => BelowKernel(u.await, 0) /\ BelowKernel(u.base, 0))
  <2>1. CASE t.record = 3
    <3>1. SumOfKernels(4, t.await + d) /\ SumOfKernels(4, t.base + d) BY <1>2, <2>1
    <3>2. t.await + d \in Nat /\ t.base + d \in Nat BY <1>1, <1>4
    <3>3. u.await \in Nat /\ u.base \in Nat /\ BelowKernel(u.await, 0) /\ BelowKernel(u.base, 0)
      BY <1>3, <2>1, <3>1, <3>2, AverageBelow
    <3>4. QED BY <1>3, <2>1, <3>3
  <2>2. CASE t.record # 3 BY <1>1, <1>2, <1>3, <1>4, <2>2
  <2>3. QED BY <2>1, <2>2
<1>6. TunerInv(u) BY <1>1, <1>3, <1>5 DEF TunerInv
<1>7. TunerInv([u EXCEPT !.base = 0])
  <2> DEFINE w == [u EXCEPT !.base = 0]
  <2>1. /\ w = [record |-> w.record, await |-> w.await, base |-> w.base,
                best_await |-> w.best_await, best_eval |-> w.best_eval]
        /\ w.record = u.record /\ w.await = u.await /\ w.base = 0 /\ w.best_await = u.best_await
    BY <1>3
  <2>2. u.record \in 1 .. 4 BY <1>1, <1>3
  <2>3. SumOfKernels(u.record, 0) /\ BelowKernel(0, 0)
    <3>1. 0 <= d /\ 0 <= u.record * d
      <4>1. u.record = 1 \/ u.record = 2 \/ u.record = 3 \/ u.record = 4 BY <2>2
      <4>2. QED BY <1>4, <4>1
    <3>2. QED BY <3>1 DEF SumOfKernels, BelowKernel
  <2> HIDE DEF w
  <2>4. TunerInv(w) BY <1>6, <2>1, <2>3 DEF TunerInv
  <2>5. QED BY <2>4 DEF w
<1>8. QED BY <1>6, <1>7 DEF u

\* A round that is not recorded: what it may write.
Modified(t, a, b, v) ==
  [t EXCEPT !.await = a, !.best_await = b, !.best_eval = v, !.record = @ + 1]
LEMMA ModifiedFields ==
  ASSUME NEW t, TunerInv(t), NEW a, NEW b, NEW v
  PROVE  Modified(t, a, b, v)
         = [record |-> t.record + 1, await |-> a, base |-> t.base, best_await |-> b, best_eval |-> v]
<1> DEFINE x == [t EXCEPT !.await = a]  y == [x EXCEPT !.best_await = b]  z == [y EXCEPT !.best_eval = v]
<1>1. x = [record |-> t.record, await |-> a, base |-> t.base,
           best_await |-> t.best_await, best_eval |-> t.best_eval]
  BY DEF TunerInv
<1>2. Modified(t, a, b, v) = [z EXCEPT !.record = @ + 1] BY DEF Modified
<1> HIDE DEF x
<1>3. y = [record |-> t.record, await |-> a, base |-> t.base, best_await |-> b, best_eval |-> t.best_eval]
  BY <1>1
<1> HIDE DEF y
<1>4. z = [record |-> t.record, await |-> a, base |-> t.base, best_await |-> b, best_eval |-> v]
  BY <1>3
<1> HIDE DEF z
<1>5. QED BY <1>2, <1>4

LEMMA ModifiedKeeps ==
  ASSUME NEW t, TunerInv(t), ~ Recording(t),
         NEW a \in Nat, BelowKernel(a, 0), NEW b \in Nat, b = 0 \/ BelowKernel(b, 20), NEW v
  PROVE  TunerInv(Modified(t, a, b, v))
<1> DEFINE u == Modified(t, a, b, v)
<1>0. u = [record |-> t.record + 1, await |-> a, base |-> t.base, best_await |-> b, best_eval |-> v]
  BY ModifiedFields
<1> HIDE DEF u
<1>1. /\ u = [record |-> u.record, await |-> u.await, base |-> u.base,
              best_await |-> u.best_await, best_eval |-> u.best_eval]
      /\ u.record = t.record + 1 /\ u.await = a /\ u.base = t.base /\ u.best_await = b
  BY <1>0
<1>2. t.record \in Nat /\ t.record >= 4 BY DEF TunerInv, Recording
<1> HIDE DEF u
<1>3. u.record \in Nat /\ u.record >= 4 BY <1>1, <1>2
<1>4. t.base \in Nat /\ BelowKernel(t.base, 0) BY <1>2 DEF TunerInv
<1>5. TunerInv(u) BY <1>1, <1>3, <1>4 DEF TunerInv
<1>6. QED BY <1>5 DEF u

\* What a round measures: a synchronisation that takes time took the rest of the kernel.
Measures(t, k, duration, all) ==
  /\ duration \in Nat /\ all \in Nat
  /\ duration > 0 => t.await + duration <= k /\ all = k

LEMMA RoundMeasures ==
  ASSUME NEW t, TunerInv(t), NEW k \in KernelTimes, NEW late \in Jitter
  PROVE  Measures(t, k, Larger(0, k - (t.await + late)), Larger(k, t.await + late))
<1>1. t.await \in Nat /\ k \in Nat /\ late \in Nat BY DEF TunerInv
<1>2. QED BY <1>1 DEF Measures, Larger

\* A time that left at least 20 us to wait for can be lengthened by delta.
LEMMA Nudged ==
  ASSUME NEW best \in Nat, BelowKernel(best, 20), NEW r \in 0 .. 9
  PROVE  best + r \in Nat /\ BelowKernel(best + r, 0)
<1>1. PICK k \in KernelTimes : best + 20 <= k BY DEF BelowKernel
<1>2. best + r + 0 <= k BY <1>1
<1>3. QED BY <1>2 DEF BelowKernel

LEMMA ShorterBelow ==
  ASSUME NEW t, TunerInv(t), ~ Recording(t)
  PROVE  Shorter(t) \in Nat /\ BelowKernel(Shorter(t), 0)
<1>1. t.await \in Nat /\ BelowKernel(t.await, 0) BY DEF TunerInv, Recording
<1>2. PICK k \in KernelTimes : t.await <= k BY <1>1 DEF BelowKernel
<1>3. t.await \div 8 \in 0 .. t.await BY <1>1
<1>4. Shorter(t) \in Nat /\ Shorter(t) + 0 <= k
  <2> DEFINE part == t.await \div 8
  <2>1. part \in 0 .. t.await /\ Shorter(t) = t.await - part BY <1>3 DEF Shorter
  <2> HIDE DEF part
  <2>2. QED BY <1>1, <1>2, <2>1
<1>5. QED BY <1>4 DEF BelowKernel

\* The step up of exp1 and exp6 stays below what the kernel has just taken, that of exp2
\* below the average of the kernels that were recorded.
LEMMA RaiseBelow ==
  ASSUME NEW t, TunerInv(t), ~ Recording(t), NEW k \in KernelTimes, NEW d, NEW all, Measures(t, k, d, all)
  PROVE  /\ d > t.base \div 16 /\ t.await + d \div 4 < all
            => t.await + d \div 4 \in Nat /\ BelowKernel(t.await + d \div 4, 0)
         /\ t.await + d \div 2 < t.base
            => t.await + d \div 2 \in Nat /\ BelowKernel(t.await + d \div 2, 0)
<1>1. /\ t.await \in Nat /\ t.base \in Nat /\ BelowKernel(t.base, 0) /\ k \in Nat
      /\ d \in Nat /\ all \in Nat /\ (d > 0 => all = k)
  BY DEF TunerInv, Recording, Measures
<1>2. t.base \div 16 \in Nat /\ d \div 4 \in Nat /\ d \div 2 \in Nat BY <1>1
<1> DEFINE a == d \div 4  b == d \div 2  least == t.base \div 16
<1>3. a \in Nat /\ b \in Nat /\ least \in Nat BY <1>2
<1> HIDE DEF a, b, least
<1>4. ASSUME d > least, t.await + a < all PROVE t.await + a \in Nat /\ BelowKernel(t.await + a, 0)
  <2>1. t.await + a + 0 <= k BY <1>1, <1>3, <1>4
  <2>2. QED BY <1>1, <1>3, <2>1 DEF BelowKernel
<1>5. ASSUME t.await + b < t.base PROVE t.await + b \in Nat /\ BelowKernel(t.await + b, 0)
  <2>1. PICK m \in KernelTimes : t.base + 0 <= m BY <1>1 DEF BelowKernel
  <2>2. t.await + b + 0 <= m BY <1>1, <1>3, <1>5, <2>1
  <2>3. QED BY <1>1, <1>3, <2>2 DEF BelowKernel
<1>6. QED BY <1>4, <1>5 DEF a, b, least

\* The best time so far, and with it the present one, can be lengthened when this round had
\* at least 20 us to wait.
LEMMA BestBelow ==
  ASSUME NEW t, TunerInv(t), NEW k \in KernelTimes, NEW d, NEW all, Measures(t, k, d, all), d >= 20,
         NEW r \in 0 .. 9
  PROVE  /\ BelowKernel(t.await, 20)
         /\ t.await + r \in Nat /\ BelowKernel(t.await + r, 0)
         /\ t.best_await + r \in Nat /\ BelowKernel(t.best_await + r, 0)
<1>1. t.await \in Nat /\ t.best_await \in Nat /\ k \in Nat /\ d \in Nat /\ t.await + d <= k
  BY DEF TunerInv, Measures
<1>2. BelowKernel(t.await, 20) /\ BelowKernel(0, 20)
  <2>1. t.await + 20 <= k /\ 0 + 20 <= k BY <1>1
  <2>2. QED BY <2>1 DEF BelowKernel
<1>3. BelowKernel(t.best_await, 20) BY <1>2 DEF TunerInv
<1>4. QED BY <1>1, <1>2, <1>3, Nudged

LEMMA ModifyKeeps ==
  ASSUME NEW t, TunerInv(t), ~ Recording(t), NEW k \in KernelTimes, NEW d, NEW all, Measures(t, k, d, all),
         NEW r \in Rands
  PROVE  TunerInv(Modify(t, d, all, r))
<1> DEFINE better == eval(t.base, all, d) > t.best_eval
           best == IF better THEN t.await ELSE t.best_await
           raise == d > t.base \div 16 /\ t.await + d \div 4 < all
           steer == ~ raise /\ d >= 20
           a == IF raise THEN t.await + d \div 4 ELSE IF steer THEN best + r ELSE Shorter(t)
           b == IF steer THEN best ELSE t.best_await
           v == IF steer /\ better THEN eval(t.base, all, d) ELSE t.best_eval
<1>1. Modify(t, d, all, r) = Modified(t, a, b, v)
  BY DEF Modify, Modified
<1>2. t.await \in Nat /\ t.best_await \in Nat /\ (t.best_await = 0 \/ BelowKernel(t.best_await, 20))
      /\ r \in 0 .. 9
  BY DEF TunerInv
<1>3. raise => t.await + d \div 4 \in Nat /\ BelowKernel(t.await + d \div 4, 0) BY RaiseBelow
<1>4. Shorter(t) \in Nat /\ BelowKernel(Shorter(t), 0) BY ShorterBelow
<1>5. steer => /\ BelowKernel(t.await, 20)
               /\ t.await + r \in Nat /\ BelowKernel(t.await + r, 0)
               /\ t.best_await + r \in Nat /\ BelowKernel(t.best_await + r, 0)
  BY <1>2, BestBelow
<1> HIDE DEF better, raise, steer, v
<1>6. a \in Nat /\ BelowKernel(a, 0) BY <1>3, <1>4, <1>5
<1>7. b \in Nat /\ (b = 0 \/ BelowKernel(b, 20)) BY <1>2, <1>5
<1> HIDE DEF a, b
<1>8. QED BY <1>1, <1>6, <1>7, ModifiedKeeps

LEMMA exp2_ModifyKeeps ==
  ASSUME NEW t, TunerInv(t), ~ Recording(t), NEW k \in KernelTimes, NEW d, NEW all, Measures(t, k, d, all),
         NEW r \in Rands
  PROVE  TunerInv(exp2_Modify(t, d, all, r))
<1> DEFINE better == eval(t.base, all, d) > t.best_eval
           raise == d > t.base \div 16 /\ t.await + d \div 2 < t.base
           steer == ~ raise /\ d >= 20
           nudge == IF d > t.base \div 256 THEN r ELSE 0
           a == IF raise THEN t.await + d \div 2
                ELSE IF ~ steer THEN Shorter(t)
                ELSE IF better THEN t.await + nudge ELSE t.best_await + r
           b == IF steer /\ better THEN t.await ELSE t.best_await
           v == IF steer /\ better THEN eval(t.base, all, d) ELSE t.best_eval
<1>1. exp2_Modify(t, d, all, r) = Modified(t, a, b, v)
  BY DEF exp2_Modify, Modified
<1>2. t.await \in Nat /\ t.best_await \in Nat /\ (t.best_await = 0 \/ BelowKernel(t.best_await, 20))
      /\ r \in 0 .. 9 /\ nudge \in 0 .. 9
  BY DEF TunerInv
<1>3. raise => t.await + d \div 2 \in Nat /\ BelowKernel(t.await + d \div 2, 0) BY RaiseBelow
<1>4. Shorter(t) \in Nat /\ BelowKernel(Shorter(t), 0) BY ShorterBelow
<1> HIDE DEF nudge
<1>5. steer => /\ BelowKernel(t.await, 20)
               /\ t.await + nudge \in Nat /\ BelowKernel(t.await + nudge, 0)
               /\ t.best_await + r \in Nat /\ BelowKernel(t.best_await + r, 0)
  BY <1>2, BestBelow
<1> HIDE DEF better, raise, steer, v
<1>6. a \in Nat /\ BelowKernel(a, 0) BY <1>3, <1>4, <1>5
<1>7. b \in Nat /\ (b = 0 \/ BelowKernel(b, 20)) BY <1>2, <1>5
<1> HIDE DEF a, b
<1>8. QED BY <1>1, <1>6, <1>7, ModifiedKeeps

LEMMA RecordByKeeps ==
  ASSUME NEW t, TunerInv(t), Recording(t), NEW k \in KernelTimes, NEW name
  PROVE  TunerInv(RecordBy(name, t, k, k))
<1>1. TunerInv(exp1_Record(t, k, k)) BY RecordKeeps DEF exp1_Record
<1>2. TunerInv(exp6_Record(t, k, k)) BY RecordKeeps DEF exp6_Record
<1>3. TunerInv(exp2_Record(t, k, k)) BY RecordKeeps DEF exp2_Record
<1>4. TunerInv(exp0_cuda_gpu_Record(t, k, k)) BY RecordKeeps DEF exp0_cuda_gpu_Record
<1>5. QED BY <1>1, <1>2, <1>3, <1>4 DEF RecordBy

LEMMA ModifyByKeeps ==
  ASSUME NEW t, TunerInv(t), ~ Recording(t), NEW k \in KernelTimes, NEW d, NEW all, Measures(t, k, d, all),
         NEW r \in Rands, NEW name
  PROVE  TunerInv(ModifyBy(name, t, d, all, r))
<1>1. TunerInv(exp1_Modify(t, d, all, r)) BY ModifyKeeps DEF exp1_Modify
<1>2. TunerInv(exp6_Modify(t, d, all, r)) BY ModifyKeeps DEF exp6_Modify
<1>3. TunerInv(exp2_Modify(t, d, all, r)) BY exp2_ModifyKeeps
<1>4. TunerInv([t EXCEPT !.record = @ + 1])
  <2> DEFINE u == [t EXCEPT !.record = @ + 1]
  <2>1. /\ u = [record |-> u.record, await |-> u.await, base |-> u.base,
                best_await |-> u.best_await, best_eval |-> u.best_eval]
        /\ u.record = t.record + 1 /\ u.await = t.await /\ u.base = t.base
        /\ u.best_await = t.best_await
    BY DEF TunerInv
  <2>2. t.record \in Nat /\ t.record >= 4 BY DEF TunerInv, Recording
  <2> HIDE DEF u
  <2>3. u.record \in Nat /\ u.record >= 4 BY <2>1, <2>2
  <2>4. TunerInv(u) BY <2>1, <2>2, <2>3 DEF TunerInv
  <2>5. QED BY <2>4 DEF u
<1>5. QED BY <1>1, <1>2, <1>3, <1>4 DEF ModifyBy

LEMMA SyncKeeps ==
  ASSUME TunerInv(tuner), NEW i, Sync(i)
  PROVE  TunerInv(tuner')
<1>1. PICK k \in KernelTimes, late \in Jitter, r \in Rands :
        LET slept == IF Recording(tuner) THEN 0 ELSE tuner.await + late
            duration == Larger(0, k - slept)
            all == Larger(k, slept)
        IN  tuner' = IF Recording(tuner) THEN RecordBy(tuned, tuner, duration, all)
                     ELSE ModifyBy(tuned, tuner, duration, all, r)
  BY DEF Sync
<1>2. CASE Recording(tuner)
  <2>1. Larger(0, k - 0) = k /\ Larger(k, 0) = k
    <3>1. k \in Nat OBVIOUS
    <3>2. QED BY <3>1 DEF Larger
  <2>2. tuner' = RecordBy(tuned, tuner, k, k) BY <1>1, <1>2, <2>1
  <2>3. QED BY <1>2, <2>2, RecordByKeeps
<1>3. CASE ~ Recording(tuner)
  <2> DEFINE d == Larger(0, k - (tuner.await + late))  all == Larger(k, tuner.await + late)
  <2>1. Measures(tuner, k, d, all) BY RoundMeasures
  <2>2. tuner' = ModifyBy(tuned, tuner, d, all, r) BY <1>1, <1>3
  <2> HIDE DEF d, all
  <2>3. QED BY <1>3, <2>1, <2>2, ModifyByKeeps
<1>4. QED BY <1>2, <1>3

LEMMA NewTunerOK == TunerInv(NewTuner)
BY DEF TunerInv, NewTuner, SumOfKernels

LEMMA OthersKeepTuner ==
  ASSUME [Next]_vars, ~ \E i \in DOMAIN watch : Sync(i)
  PROVE  tuner' = tuner \/ tuner' = NewTuner
<1>1. MainCalls => tuner' = tuner \/ tuner' = NewTuner BY DEF MainCalls, pathVars
<1>2. (MainSpawns \/ MainJoins \/ MainCalibrates \/ MainEnds \/ Allocate) => tuner' = tuner
  BY DEF MainSpawns, MainJoins, MainCalibrates, MainEnds, Allocate, pathVars
<1>3. InterruptAll => tuner' = tuner BY DEF InterruptAll, pathVars
<1>4. Signal => tuner' = tuner BY DEF Signal, pathVars
<1>5. ASSUME NEW u, CallStep(u) \/ SpinReturns(u) \/ FreeCall(u) PROVE tuner' = tuner
  BY <1>5 DEF CallStep, SpinReturns, FreeCall, pathVars
<1>6. ASSUME NEW e, ExecutorWaits(e) \/ ExecutorWakes(e) PROVE tuner' = tuner
  BY <1>6 DEF ExecutorWaits, ExecutorWakes, pathVars
<1>7. ASSUME NEW i \in DOMAIN watch, PathStep(i) PROVE tuner' = tuner
  <2>1. ~ Sync(i) OBVIOUS
  <2>2. QED
    BY <1>7, <2>1 DEF PathStep, Take, Work, Launch, Await, RecordCoroutine, SleepEnds, ResumeRest,
                      Publish, CallbackReturns
<1>8. UNCHANGED vars => tuner' = tuner BY DEF vars, pathVars
<1>9. QED BY <1>1, <1>2, <1>3, <1>4, <1>5, <1>6, <1>7, <1>8 DEF Next, System, MainStep

LEMMA TunerStep == TunerInv(tuner) /\ [Next]_vars => TunerInv(tuner)'
<1> SUFFICES ASSUME TunerInv(tuner), [Next]_vars PROVE TunerInv(tuner') BY DEF TunerInv, SumOfKernels, BelowKernel
<1>1. CASE \E i \in DOMAIN watch : Sync(i) BY <1>1, SyncKeeps
<1>2. CASE ~ \E i \in DOMAIN watch : Sync(i) BY <1>2, OthersKeepTuner, NewTunerOK
<1>3. QED BY <1>1, <1>2

\* Whatever the kernels take, by however much a sleep is late and whatever rand() gives: once
\* the record phase is over, gpu_await_time_us_ is not negative and never exceeds every kernel.
THEOREM SleepsBelowKernel == Spec => []AwaitBelowKernel
<1>1. Init => TunerInv(tuner) BY NewTunerOK DEF Init, ProgInit
<1>2. TunerInv(tuner) => AwaitBelowKernel
  <2> SUFFICES ASSUME TunerInv(tuner), ~ Recording(tuner)
               PROVE  tuner.await >= 0 /\ \E k \in KernelTimes : tuner.await <= k
    BY DEF AwaitBelowKernel
  <2>1. tuner.await \in Nat /\ BelowKernel(tuner.await, 0) BY DEF TunerInv, Recording
  <2>2. PICK k \in KernelTimes : tuner.await + 0 <= k BY <2>1 DEF BelowKernel
  <2>3. tuner.await >= 0 /\ tuner.await <= k BY <2>1, <2>2
  <2>4. QED BY <2>3
<1>3. QED BY <1>1, <1>2, TunerStep, PTL DEF Spec

------------------------------------------------------------------------------
(* Steps that are taken one after the other.                                *)

\* A set of numbers has a least one.
LEMMA LeastExists ==
  ASSUME NEW S, S \subseteq Nat, S # {}
  PROVE  \E x \in S : \A y \in S : x <= y
<1>1. \E x \in S : \A y \in S : ~ (<<y, x>> \in OpToRel(<, Nat))
  BY NatLessThanWellFounded, WFMin
<1>2. PICK x \in S : \A y \in S : ~ (<<y, x>> \in OpToRel(<, Nat))
  BY <1>1
<1>3. \A y \in S : ~ (y < x)
  BY <1>2 DEF OpToRel
<1> QED
  BY <1>3

\* What holds of 0, and of each number after one it holds of, holds of all up to N.
LEMMA UpTo ==
  ASSUME NEW N \in Nat, NEW S, 0 \in S, \A i \in 1 .. N : i - 1 \in S => i \in S
  PROVE  \A i \in 0 .. N : i \in S
<1> SUFFICES ASSUME {i \in 0 .. N : i \notin S} # {}
             PROVE  FALSE
  OBVIOUS
<1>1. {i \in 0 .. N : i \notin S} \subseteq Nat
  OBVIOUS
<1>2. PICK m \in {i \in 0 .. N : i \notin S} : \A y \in {i \in 0 .. N : i \notin S} : m <= y
  BY <1>1, LeastExists
<1>3. m \in 1 .. N /\ m - 1 \in 0 .. N
  BY <1>2
<1> QED
  BY <1>2, <1>3

\* f holds what the first n steps of F make of x.
Stepwise(f, n, X, x, F) ==
  f \in [0 .. n -> X] /\ f[0] = x /\ \A i \in 1 .. n : f[i] = F[<<i, f[i - 1]>>]

\* A step that is taken N times, the i-th with the number i: the functions that the model
\* defines by recursion on 0 .. N are of this form.
LEMMA Iterates ==
  ASSUME NEW N \in Nat, NEW X, NEW x \in X, NEW F \in [(1 .. N) \X X -> X]
  PROVE  \E f : Stepwise(f, N, X, x, F)
<1> DEFINE S == {n \in 0 .. N : \E f : Stepwise(f, n, X, x, F)}
<1>1. 0 \in S
  <2> DEFINE f == [i \in 0 .. 0 |-> x]
  <2>1. Stepwise(f, 0, X, x, F)
    BY DEF Stepwise
  <2> HIDE DEF f
  <2> QED
    BY <2>1
<1>2. ASSUME NEW n \in 1 .. N, n - 1 \in S
      PROVE  n \in S
  <2>1. PICK f : Stepwise(f, n - 1, X, x, F)
    BY <1>2
  <2> DEFINE y == F[<<n, f[n - 1]>>]
             h == [i \in 0 .. n |-> IF i = n THEN y ELSE f[i]]
  <2>2. f[n - 1] \in X /\ y \in X
    <3>1. n - 1 \in 0 .. n - 1
      OBVIOUS
    <3>2. f[n - 1] \in X
      BY <2>1, <3>1 DEF Stepwise
    <3>3. <<n, f[n - 1]>> \in (1 .. N) \X X
      BY <3>2
    <3> QED
      BY <3>2, <3>3
  <2> HIDE DEF y
  <2>3. h \in [0 .. n -> X]
    BY <2>1, <2>2 DEF Stepwise
  <2>4. h[0] = x
    BY <2>1 DEF Stepwise
  <2>5. ASSUME NEW i \in 1 .. n
        PROVE  h[i] = F[<<i, h[i - 1]>>]
    <3>1. h[i - 1] = f[i - 1]
      OBVIOUS
    <3>2. CASE i = n
      <4>1. h[i] = y
        BY <3>2
      <4>2. y = F[<<i, f[i - 1]>>]
        BY <3>2 DEF y
      <4> QED
        BY <3>1, <4>1, <4>2
    <3>3. CASE i # n
      <4>1. i \in 1 .. n - 1
        BY <3>3
      <4>2. h[i] = f[i]
        BY <3>3
      <4> QED
        BY <2>1, <3>1, <4>1, <4>2 DEF Stepwise
    <3> QED
      BY <3>2, <3>3
  <2> HIDE DEF h
  <2>6. Stepwise(h, n, X, x, F)
    BY <2>3, <2>4, <2>5 DEF Stepwise
  <2> QED
    BY <2>6
<1> HIDE DEF S
<1>3. \A n \in 0 .. N : n \in S
  BY <1>1, <1>2, UpTo
<1>4. N \in S
  BY <1>3
<1> QED
  BY <1>4 DEF S

------------------------------------------------------------------------------
(* A turn of alloc_exe, and the functions defined by recursion.             *)

\* A layer for each node.
Layerings(g) == [Nodes(g) -> Int]

LEMMA RaiseIsLayering ==
  ASSUME NEW g, Len(g) \in Nat, NEW l \in Layerings(g), NEW i \in Nodes(g)
  PROVE  /\ RaiseAbove(g, l, i) \in Layerings(g)
         /\ \A j \in Nodes(g) : RaiseAbove(g, l, i)[j] >= l[j]
         /\ \A j \in Nodes(g) : l[i] >= 0 /\ Edge(g, i, j) => RaiseAbove(g, l, i)[j] >= l[i] + 1
         /\ \A j \in Nodes(g) : \/ RaiseAbove(g, l, i)[j] = l[j]
                                \/ l[i] >= 0 /\ Edge(g, i, j) /\ RaiseAbove(g, l, i)[j] = l[i] + 1
<1> DEFINE m == RaiseAbove(g, l, i)
           low == TooLow(g, l, i)
<1>1. l[i] \in Int /\ \A j \in Nodes(g) : l[j] \in Int
  BY DEF Layerings
<1>2. \A j \in Nodes(g) : j \in low <=> Edge(g, i, j) /\ l[j] < l[i] + 1
  BY DEF TooLow
<1> HIDE DEF low
<1>3. CASE l[i] >= 0
  <2>1. m = [j \in Nodes(g) |-> IF j \in low THEN l[i] + 1 ELSE l[j]]
    BY <1>3 DEF RaiseAbove, low
  <2>2. m \in Layerings(g)
    BY <1>1, <2>1 DEF Layerings
  <2>3. \A j \in Nodes(g) : m[j] = IF j \in low THEN l[i] + 1 ELSE l[j]
    BY <2>1
  <2> HIDE DEF m
  <2>4. ASSUME NEW j \in Nodes(g)
        PROVE  /\ m[j] >= l[j]
               /\ Edge(g, i, j) => m[j] >= l[i] + 1
               /\ m[j] = l[j] \/ (Edge(g, i, j) /\ m[j] = l[i] + 1)
    <3>1. l[j] \in Int /\ (j \in low <=> Edge(g, i, j) /\ l[j] < l[i] + 1)
      BY <1>1, <1>2
    <3>2. m[j] = IF j \in low THEN l[i] + 1 ELSE l[j]
      BY <2>3
    <3> QED
      BY <1>1, <3>1, <3>2
  <2>5. \A j \in Nodes(g) : m[j] >= l[j]
    BY <2>4
  <2>6. \A j \in Nodes(g) : l[i] >= 0 /\ Edge(g, i, j) => m[j] >= l[i] + 1
    BY <2>4
  <2>7. \A j \in Nodes(g) : m[j] = l[j] \/ (l[i] >= 0 /\ Edge(g, i, j) /\ m[j] = l[i] + 1)
    BY <1>3, <2>4
  <2> QED
    BY <2>2, <2>5, <2>6, <2>7 DEF m
<1>4. CASE ~ (l[i] >= 0)
  <2>1. m = l
    BY <1>4 DEF RaiseAbove
  <2> HIDE DEF m
  <2>2. m \in Layerings(g) /\ \A j \in Nodes(g) : m[j] >= l[j] /\ m[j] = l[j]
    BY <1>1, <2>1
  <2> QED
    BY <1>4, <2>2 DEF m
<1> QED
  BY <1>3, <1>4

\* A turn, node by node.
LEMMA TurnSteps ==
  ASSUME NEW g, Len(g) \in Nat, NEW l \in Layerings(g)
  PROVE  \E f \in [0 .. Len(g) -> Layerings(g)] :
           /\ f[0] = l /\ Turn(g, l) = f[Len(g)]
           /\ \A i \in 1 .. Len(g) : f[i] = RaiseAbove(g, f[i - 1], i - 1)
<1> DEFINE N == Len(g)
           X == Layerings(g)
           F == [im \in (1 .. N) \X X |-> RaiseAbove(g, im[2], im[1] - 1)]
           upto == CHOOSE f : f = [i \in 0 .. N |-> IF i = 0 THEN l ELSE RaiseAbove(g, f[i - 1], i - 1)]
<1>0. Turn(g, l) = upto[N]
  BY DEF Turn
<1>1. \A i \in 1 .. N : i - 1 \in Nodes(g)
  BY DEF Nodes
<1>2. \A i \in 1 .. N, m \in X : RaiseAbove(g, m, i - 1) \in X
  BY <1>1, RaiseIsLayering
<1>3. F \in [(1 .. N) \X X -> X]
  BY <1>2
<1>4. \A i \in 1 .. N, m \in X : F[<<i, m>>] = RaiseAbove(g, m, i - 1)
  OBVIOUS
<1>x. l \in X /\ N \in Nat
  OBVIOUS
<1> HIDE DEF F, X, N, upto
<1>5. PICK f : Stepwise(f, N, X, l, F)
  BY <1>3, <1>x, Iterates
<1>6. ASSUME NEW i \in 0 .. N
      PROVE  f[i] = IF i = 0 THEN l ELSE RaiseAbove(g, f[i - 1], i - 1)
  <2>1. i # 0 => i \in 1 .. N /\ i - 1 \in 0 .. N
    BY <1>x
  <2>2. i # 0 => f[i - 1] \in X
    BY <1>5, <2>1 DEF Stepwise
  <2>3. i # 0 => f[i] = F[<<i, f[i - 1]>>]
    BY <1>5, <2>1 DEF Stepwise
  <2>4. f[0] = l
    BY <1>5 DEF Stepwise
  <2> QED
    BY <1>4, <2>1, <2>2, <2>3, <2>4
<1>7. f = [i \in 0 .. N |-> IF i = 0 THEN l ELSE RaiseAbove(g, f[i - 1], i - 1)]
  <2>1. f = [i \in 0 .. N |-> f[i]]
    BY <1>5 DEF Stepwise
  <2> QED
    BY <1>6, <2>1
<1>8. upto = [i \in 0 .. N |-> IF i = 0 THEN l ELSE RaiseAbove(g, upto[i - 1], i - 1)]
  BY <1>7 DEF upto
<1>9. upto[0] = l /\ \A i \in 1 .. N : upto[i] = RaiseAbove(g, upto[i - 1], i - 1)
  BY <1>8, <1>x
<1> DEFINE S == {i \in 0 .. N : upto[i] \in X}
<1>10. 0 \in S
  BY <1>9, <1>x
<1>11. ASSUME NEW i \in 1 .. N, i - 1 \in S
       PROVE  i \in S
  BY <1>2, <1>9, <1>11, <1>x
<1> HIDE DEF S
<1>12. \A i \in 0 .. N : i \in S
  BY <1>x, <1>10, <1>11, UpTo
<1>13. \A i \in 0 .. N : upto[i] \in X
  BY <1>12 DEF S
<1>14. upto \in [0 .. N -> X]
  BY <1>8, <1>13
<1> QED
  BY <1>0, <1>9, <1>14 DEF X, N
\* The turns of while (run_continue).
LEMMA TurnIsLayering ==
  ASSUME NEW g, Len(g) \in Nat, NEW l \in Layerings(g)
  PROVE  Turn(g, l) \in Layerings(g)
  BY TurnSteps

LEMMA RelaxSteps ==
  ASSUME NEW g, Len(g) \in Nat, NEW l \in Layerings(g)
  PROVE  \E f \in [0 .. Len(g) -> Layerings(g)] :
           /\ f[0] = l
           /\ \A i \in 1 .. Len(g) : f[i] = Turn(g, f[i - 1])
           /\ Relax(g, l) = f[CHOOSE k \in 0 .. Len(g) : Turn(g, f[k]) = f[k]]
<1> DEFINE N == Len(g)
           X == Layerings(g)
           x == l
           F == [im \in (1 .. N) \X X |-> Turn(g, im[2])]
           turned == CHOOSE f : f = [i \in 0 .. N |-> IF i = 0 THEN x ELSE Turn(g, f[i - 1])]
<1>0. Relax(g, l) = turned[CHOOSE k \in 0 .. N : Turn(g, turned[k]) = turned[k]]
  BY DEF Relax
<1>1. x \in X /\ N \in Nat
  OBVIOUS
<1>2. \A i \in 1 .. N, v \in X : Turn(g, v) \in X
  BY TurnIsLayering
<1>3. F \in [(1 .. N) \X X -> X]
  BY <1>2
<1>4. \A i \in 1 .. N, v \in X : F[<<i, v>>] = Turn(g, v)
  OBVIOUS
<1> HIDE DEF F, X, N, x, turned
<1>5. PICK f : Stepwise(f, N, X, x, F)
  BY <1>1, <1>3, Iterates
<1>6. ASSUME NEW i \in 0 .. N
      PROVE  f[i] = IF i = 0 THEN x ELSE Turn(g, f[i - 1])
  <2>1. i # 0 => i \in 1 .. N /\ i - 1 \in 0 .. N
    BY <1>1
  <2>2. i # 0 => f[i - 1] \in X
    BY <1>5, <2>1 DEF Stepwise
  <2>3. i # 0 => f[i] = F[<<i, f[i - 1]>>]
    BY <1>5, <2>1 DEF Stepwise
  <2>4. f[0] = x
    BY <1>5 DEF Stepwise
  <2> QED
    BY <1>4, <2>1, <2>2, <2>3, <2>4
<1>7. f = [i \in 0 .. N |-> IF i = 0 THEN x ELSE Turn(g, f[i - 1])]
  <2>1. f = [i \in 0 .. N |-> f[i]]
    BY <1>5 DEF Stepwise
  <2> QED
    BY <1>6, <2>1
<1>8. turned = [i \in 0 .. N |-> IF i = 0 THEN x ELSE Turn(g, turned[i - 1])]
  BY <1>7 DEF turned
<1>9. turned[0] = x /\ \A i \in 1 .. N : turned[i] = Turn(g, turned[i - 1])
  BY <1>1, <1>8
<1> DEFINE S == {i \in 0 .. N : turned[i] \in X}
<1>10. 0 \in S
  BY <1>1, <1>9
<1>11. ASSUME NEW i \in 1 .. N, i - 1 \in S
       PROVE  i \in S
  BY <1>1, <1>2, <1>9, <1>11
<1> HIDE DEF S
<1>12. \A i \in 0 .. N : i \in S
  BY <1>1, <1>10, <1>11, UpTo
<1>13. \A i \in 0 .. N : turned[i] \in X
  BY <1>12 DEF S
<1>14. turned \in [0 .. N -> X]
  BY <1>8, <1>13
<1> QED
  BY <1>0, <1>9, <1>14 DEF X, N, x

\* The walks from the nodes that start on layer 0.
LEMMA ReachSteps ==
  ASSUME NEW g, Len(g) \in Nat
  PROVE  \E f \in [0 .. Len(g) -> SUBSET Nodes(g)] :
           /\ f[0] = {i \in Nodes(g) : InitialLayers(g)[i] = 0}
           /\ \A i \in 1 .. Len(g) : f[i] = Heard(g, f[i - 1])
           /\ \A d \in 0 .. Len(g) : Reaches(g, d) = f[d]
<1> DEFINE N == Len(g)
           X == SUBSET Nodes(g)
           x == {i \in Nodes(g) : InitialLayers(g)[i] = 0}
           F == [im \in (1 .. N) \X X |-> Heard(g, im[2])]
           reach == CHOOSE f : f = [i \in 0 .. N |-> IF i = 0 THEN x ELSE Heard(g, f[i - 1])]
<1>0. \A d \in 0 .. Len(g) : Reaches(g, d) = reach[d]
  BY DEF Reaches
<1>1. x \in X /\ N \in Nat
  OBVIOUS
<1>2. \A i \in 1 .. N, v \in X : Heard(g, v) \in X
  BY DEF Heard
<1>3. F \in [(1 .. N) \X X -> X]
  BY <1>2
<1>4. \A i \in 1 .. N, v \in X : F[<<i, v>>] = Heard(g, v)
  OBVIOUS
<1> HIDE DEF F, X, N, x, reach
<1>5. PICK f : Stepwise(f, N, X, x, F)
  BY <1>1, <1>3, Iterates
<1>6. ASSUME NEW i \in 0 .. N
      PROVE  f[i] = IF i = 0 THEN x ELSE Heard(g, f[i - 1])
  <2>1. i # 0 => i \in 1 .. N /\ i - 1 \in 0 .. N
    BY <1>1
  <2>2. i # 0 => f[i - 1] \in X
    BY <1>5, <2>1 DEF Stepwise
  <2>3. i # 0 => f[i] = F[<<i, f[i - 1]>>]
    BY <1>5, <2>1 DEF Stepwise
  <2>4. f[0] = x
    BY <1>5 DEF Stepwise
  <2> QED
    BY <1>4, <2>1, <2>2, <2>3, <2>4
<1>7. f = [i \in 0 .. N |-> IF i = 0 THEN x ELSE Heard(g, f[i - 1])]
  <2>1. f = [i \in 0 .. N |-> f[i]]
    BY <1>5 DEF Stepwise
  <2> QED
    BY <1>6, <2>1
<1>8. reach = [i \in 0 .. N |-> IF i = 0 THEN x ELSE Heard(g, reach[i - 1])]
  BY <1>7 DEF reach
<1>9. reach[0] = x /\ \A i \in 1 .. N : reach[i] = Heard(g, reach[i - 1])
  BY <1>1, <1>8
<1> DEFINE S == {i \in 0 .. N : reach[i] \in X}
<1>10. 0 \in S
  BY <1>1, <1>9
<1>11. ASSUME NEW i \in 1 .. N, i - 1 \in S
       PROVE  i \in S
  BY <1>1, <1>2, <1>9, <1>11
<1> HIDE DEF S
<1>12. \A i \in 0 .. N : i \in S
  BY <1>1, <1>10, <1>11, UpTo
<1>13. \A i \in 0 .. N : reach[i] \in X
  BY <1>12 DEF S
<1>14. reach \in [0 .. N -> X]
  BY <1>8, <1>13
<1> QED
  BY <1>0, <1>9, <1>14 DEF X, N, x

\* The walks from any node.
LEMMA WalkSteps ==
  ASSUME NEW g, Len(g) \in Nat
  PROVE  \E f \in [0 .. Len(g) -> SUBSET Nodes(g)] :
           /\ f[0] = Nodes(g)
           /\ \A i \in 1 .. Len(g) : f[i] = Heard(g, f[i - 1])
           /\ Acyclic(g) <=> f[Len(g)] = {}
<1> DEFINE N == Len(g)
           X == SUBSET Nodes(g)
           x == Nodes(g)
           F == [im \in (1 .. N) \X X |-> Heard(g, im[2])]
           walk == CHOOSE f : f = [i \in 0 .. N |-> IF i = 0 THEN x ELSE Heard(g, f[i - 1])]
<1>0. Acyclic(g) <=> walk[Len(g)] = {}
  BY DEF Acyclic
<1>1. x \in X /\ N \in Nat
  OBVIOUS
<1>2. \A i \in 1 .. N, v \in X : Heard(g, v) \in X
  BY DEF Heard
<1>3. F \in [(1 .. N) \X X -> X]
  BY <1>2
<1>4. \A i \in 1 .. N, v \in X : F[<<i, v>>] = Heard(g, v)
  OBVIOUS
<1> HIDE DEF F, X, N, x, walk
<1>5. PICK f : Stepwise(f, N, X, x, F)
  BY <1>1, <1>3, Iterates
<1>6. ASSUME NEW i \in 0 .. N
      PROVE  f[i] = IF i = 0 THEN x ELSE Heard(g, f[i - 1])
  <2>1. i # 0 => i \in 1 .. N /\ i - 1 \in 0 .. N
    BY <1>1
  <2>2. i # 0 => f[i - 1] \in X
    BY <1>5, <2>1 DEF Stepwise
  <2>3. i # 0 => f[i] = F[<<i, f[i - 1]>>]
    BY <1>5, <2>1 DEF Stepwise
  <2>4. f[0] = x
    BY <1>5 DEF Stepwise
  <2> QED
    BY <1>4, <2>1, <2>2, <2>3, <2>4
<1>7. f = [i \in 0 .. N |-> IF i = 0 THEN x ELSE Heard(g, f[i - 1])]
  <2>1. f = [i \in 0 .. N |-> f[i]]
    BY <1>5 DEF Stepwise
  <2> QED
    BY <1>6, <2>1
<1>8. walk = [i \in 0 .. N |-> IF i = 0 THEN x ELSE Heard(g, walk[i - 1])]
  BY <1>7 DEF walk
<1>9. walk[0] = x /\ \A i \in 1 .. N : walk[i] = Heard(g, walk[i - 1])
  BY <1>1, <1>8
<1> DEFINE S == {i \in 0 .. N : walk[i] \in X}
<1>10. 0 \in S
  BY <1>1, <1>9
<1>11. ASSUME NEW i \in 1 .. N, i - 1 \in S
       PROVE  i \in S
  BY <1>1, <1>2, <1>9, <1>11
<1> HIDE DEF S
<1>12. \A i \in 0 .. N : i \in S
  BY <1>1, <1>10, <1>11, UpTo
<1>13. \A i \in 0 .. N : walk[i] \in X
  BY <1>12 DEF S
<1>14. walk \in [0 .. N -> X]
  BY <1>8, <1>13
<1> QED
  BY <1>0, <1>9, <1>14 DEF X, N, x

\* The sum over the nodelets, one after the other.
LEMMA SumSteps ==
  ASSUME NEW n \in Nat, NEW h \in [0 .. n - 1 -> Int]
  PROVE  \E f \in [0 .. n -> Int] :
           /\ f[0] = 0
           /\ \A i \in 1 .. n : f[i] = f[i - 1] + h[i - 1]
           /\ SumOf(h, n) = f[n]
<1> DEFINE N == n
           X == Int
           x == 0
           F == [im \in (1 .. N) \X X |-> im[2] + h[im[1] - 1]]
           sum == CHOOSE f : f = [i \in 0 .. N |-> IF i = 0 THEN x ELSE f[i - 1] + h[i - 1]]
<1>0. SumOf(h, n) = sum[n]
  BY DEF SumOf
<1>1. x \in X /\ N \in Nat
  OBVIOUS
<1>2. \A i \in 1 .. N, v \in X : v + h[i - 1] \in X
  OBVIOUS
<1>3. F \in [(1 .. N) \X X -> X]
  BY <1>2
<1>4. \A i \in 1 .. N, v \in X : F[<<i, v>>] = v + h[i - 1]
  OBVIOUS
<1> HIDE DEF F, X, N, x, sum
<1>5. PICK f : Stepwise(f, N, X, x, F)
  BY <1>1, <1>3, Iterates
<1>6. ASSUME NEW i \in 0 .. N
      PROVE  f[i] = IF i = 0 THEN x ELSE f[i - 1] + h[i - 1]
  <2>1. i # 0 => i \in 1 .. N /\ i - 1 \in 0 .. N
    BY <1>1
  <2>2. i # 0 => f[i - 1] \in X
    BY <1>5, <2>1 DEF Stepwise
  <2>3. i # 0 => f[i] = F[<<i, f[i - 1]>>]
    BY <1>5, <2>1 DEF Stepwise
  <2>4. f[0] = x
    BY <1>5 DEF Stepwise
  <2> QED
    BY <1>4, <2>1, <2>2, <2>3, <2>4
<1>7. f = [i \in 0 .. N |-> IF i = 0 THEN x ELSE f[i - 1] + h[i - 1]]
  <2>1. f = [i \in 0 .. N |-> f[i]]
    BY <1>5 DEF Stepwise
  <2> QED
    BY <1>6, <2>1
<1>8. sum = [i \in 0 .. N |-> IF i = 0 THEN x ELSE sum[i - 1] + h[i - 1]]
  BY <1>7 DEF sum
<1>9. sum[0] = x /\ \A i \in 1 .. N : sum[i] = sum[i - 1] + h[i - 1]
  BY <1>1, <1>8
<1> DEFINE S == {i \in 0 .. N : sum[i] \in X}
<1>10. 0 \in S
  BY <1>1, <1>9
<1>11. ASSUME NEW i \in 1 .. N, i - 1 \in S
       PROVE  i \in S
  BY <1>1, <1>2, <1>9, <1>11
<1> HIDE DEF S
<1>12. \A i \in 0 .. N : i \in S
  BY <1>1, <1>10, <1>11, UpTo
<1>13. \A i \in 0 .. N : sum[i] \in X
  BY <1>12 DEF S
<1>14. sum \in [0 .. N -> X]
  BY <1>8, <1>13
<1> QED
  BY <1>0, <1>9, <1>14 DEF X, N, x


------------------------------------------------------------------------------
(* The layers a graph without a cycle gets.                                 *)

\* Of an acyclic graph: no node is reached after as many steps as there are nodes, and who
\* hears from a reached node is reached one step later.
LEMMA ReachEnds ==
  ASSUME NEW g, Len(g) \in Nat, Acyclic(g)
  PROVE  /\ Reaches(g, Len(g)) = {}
         /\ Reaches(g, 0) = {i \in Nodes(g) : InitialLayers(g)[i] = 0}
         /\ \A d \in 0 .. Len(g) : Reaches(g, d) \subseteq Nodes(g)
         /\ \A d \in 1 .. Len(g) : Reaches(g, d) = Heard(g, Reaches(g, d - 1))
<1>1. PICK f \in [0 .. Len(g) -> SUBSET Nodes(g)] :
        /\ f[0] = {i \in Nodes(g) : InitialLayers(g)[i] = 0}
        /\ \A i \in 1 .. Len(g) : f[i] = Heard(g, f[i - 1])
        /\ \A d \in 0 .. Len(g) : Reaches(g, d) = f[d]
  BY ReachSteps
<1>2. PICK w \in [0 .. Len(g) -> SUBSET Nodes(g)] :
        /\ w[0] = Nodes(g)
        /\ \A i \in 1 .. Len(g) : w[i] = Heard(g, w[i - 1])
        /\ Acyclic(g) <=> w[Len(g)] = {}
  BY WalkSteps
<1> DEFINE S == {d \in 0 .. Len(g) : f[d] \subseteq w[d]}
<1>3. 0 \in S
  BY <1>1, <1>2
<1>4. ASSUME NEW d \in 1 .. Len(g), d - 1 \in S
      PROVE  d \in S
  BY <1>1, <1>2, <1>4 DEF Heard
<1> HIDE DEF S
<1>5. \A d \in 0 .. Len(g) : d \in S
  BY <1>3, <1>4, UpTo
<1>6. f[Len(g)] = {}
  BY <1>2, <1>5 DEF S
<1>7. \A d \in 1 .. Len(g) : Reaches(g, d) = Heard(g, Reaches(g, d - 1))
  <2> SUFFICES ASSUME NEW d \in 1 .. Len(g)
               PROVE  Reaches(g, d) = Heard(g, Reaches(g, d - 1))
    OBVIOUS
  <2>1. d \in 0 .. Len(g) /\ d - 1 \in 0 .. Len(g)
    OBVIOUS
  <2> QED
    BY <1>1, <2>1
<1>8. Reaches(g, Len(g)) = {} /\ Reaches(g, 0) = f[0]
  BY <1>1, <1>6
<1>9. \A d \in 0 .. Len(g) : Reaches(g, d) \subseteq Nodes(g)
  BY <1>1
<1> QED
  BY <1>1, <1>7, <1>8, <1>9

\* Node j is on the layer l[j] for a reason: it keeps its first one, or is reached that far.
Sound(g, l) ==
  /\ l \in Layerings(g)
  /\ \A j \in Nodes(g) :
       /\ l[j] >= InitialLayers(g)[j]
       /\ \/ l[j] = -1
          \/ l[j] \in 0 .. Len(g) - 1 /\ j \in Reaches(g, l[j])

\* The nodes that are reached after up to k steps are on their layers or above.
LaidOut(g, l, k) == \A d \in 0 .. k : \A j \in Reaches(g, d) : l[j] >= d

LEMMA InitialSound ==
  ASSUME NEW g, Len(g) \in Nat, Acyclic(g)
  PROVE  Sound(g, InitialLayers(g)) /\ LaidOut(g, InitialLayers(g), 0)
<1> DEFINE l == InitialLayers(g)
<1>1. l \in Layerings(g) /\ \A j \in Nodes(g) : l[j] \in {0, -1}
  BY DEF InitialLayers, Layerings
<1>2. Reaches(g, 0) = {i \in Nodes(g) : l[i] = 0}
  BY ReachEnds
<1> HIDE DEF l
<1>3. \A j \in Nodes(g) : 0 \in 0 .. Len(g) - 1
  BY DEF Nodes
<1>4. ASSUME NEW j \in Nodes(g)
      PROVE  l[j] >= l[j] /\ (l[j] = -1 \/ (l[j] \in 0 .. Len(g) - 1 /\ j \in Reaches(g, l[j])))
  <2>1. l[j] \in {0, -1} /\ l[j] >= l[j]
    BY <1>1
  <2>2. l[j] = 0 => l[j] \in 0 .. Len(g) - 1 /\ j \in Reaches(g, l[j])
    <3>1. l[j] = 0 => j \in Reaches(g, 0)
      BY <1>2
    <3> QED
      BY <1>3, <3>1
  <2> QED
    BY <2>1, <2>2
<1>5. Sound(g, l)
  BY <1>1, <1>4 DEF Sound, l
<1>6. LaidOut(g, l, 0)
  BY <1>1, <1>2 DEF LaidOut
<1> QED
  BY <1>5, <1>6 DEF l

\* Who hears from a node on a layer is reached one step later, and that is not the last.
LEMMA HeardNext ==
  ASSUME NEW g, Len(g) \in Nat, Acyclic(g), NEW d \in 0 .. Len(g) - 1,
         NEW i \in Nodes(g), NEW j \in Nodes(g), i \in Reaches(g, d), Edge(g, i, j)
  PROVE  d + 1 \in 0 .. Len(g) - 1 /\ j \in Reaches(g, d + 1)
<1>1. d + 1 \in 1 .. Len(g) /\ (d + 1) - 1 = d
  OBVIOUS
<1>2. Reaches(g, d + 1) = Heard(g, Reaches(g, d))
  BY <1>1, ReachEnds
<1>3. j \in Reaches(g, d + 1)
  BY <1>2 DEF Heard
<1>4. Reaches(g, Len(g)) = {}
  BY ReachEnds
<1>5. d + 1 # Len(g)
  BY <1>3, <1>4
<1> QED
  BY <1>1, <1>3, <1>5

LEMMA RaiseSound ==
  ASSUME NEW g, Len(g) \in Nat, Acyclic(g), NEW l, Sound(g, l), NEW i \in Nodes(g)
  PROVE  Sound(g, RaiseAbove(g, l, i))
<1> DEFINE m == RaiseAbove(g, l, i)
<1>0. l \in Layerings(g)
  BY DEF Sound
<1>1. /\ m \in Layerings(g)
      /\ \A j \in Nodes(g) : m[j] >= l[j]
      /\ \A j \in Nodes(g) : m[j] = l[j] \/ (l[i] >= 0 /\ Edge(g, i, j) /\ m[j] = l[i] + 1)
  BY <1>0, RaiseIsLayering
<1> HIDE DEF m
<1>2. ASSUME NEW j \in Nodes(g)
      PROVE  m[j] >= InitialLayers(g)[j]
  <2>1. l[j] \in Int /\ m[j] \in Int /\ InitialLayers(g)[j] \in Int
    BY <1>0, <1>1 DEF Layerings, InitialLayers
  <2> QED
    BY <1>1, <2>1 DEF Sound
<1>3. ASSUME NEW j \in Nodes(g)
      PROVE  m[j] = -1 \/ (m[j] \in 0 .. Len(g) - 1 /\ j \in Reaches(g, m[j]))
  <2>1. CASE m[j] = l[j]
    <3>1. l[j] = -1 \/ (l[j] \in 0 .. Len(g) - 1 /\ j \in Reaches(g, l[j]))
      BY DEF Sound
    <3> QED
      BY <2>1, <3>1
  <2>2. CASE l[i] >= 0 /\ Edge(g, i, j) /\ m[j] = l[i] + 1
    <3>1. l[i] \in 0 .. Len(g) - 1 /\ i \in Reaches(g, l[i])
      BY <2>2 DEF Sound
    <3> QED
      BY <2>2, <3>1, HeardNext
  <2> QED
    BY <1>1, <2>1, <2>2
<1>4. Sound(g, m)
  BY <1>1, <1>2, <1>3 DEF Sound
<1> QED
  BY <1>4 DEF m

\* A turn keeps the layers sound, lowers none and lays one more step out.
LEMMA TurnSound ==
  ASSUME NEW g, Len(g) \in Nat, Acyclic(g), NEW l, Sound(g, l)
  PROVE  /\ Sound(g, Turn(g, l))
         /\ \A j \in Nodes(g) : Turn(g, l)[j] >= l[j]
         /\ \A k \in 0 .. Len(g) - 1 : LaidOut(g, l, k) => LaidOut(g, Turn(g, l), k + 1)
<1> DEFINE N == Len(g)
<1>0. l \in Layerings(g)
  BY DEF Sound
<1>1. PICK f \in [0 .. N -> Layerings(g)] :
        /\ f[0] = l /\ Turn(g, l) = f[N]
        /\ \A i \in 1 .. N : f[i] = RaiseAbove(g, f[i - 1], i - 1)
  BY <1>0, TurnSteps
<1>2. \A i \in 1 .. N : i - 1 \in Nodes(g) /\ i - 1 \in 0 .. N /\ i \in 0 .. N
  BY DEF Nodes
<1>3. \A i \in 0 .. N : Sound(g, f[i])
  <2> DEFINE S == {i \in 0 .. N : Sound(g, f[i])}
  <2>1. 0 \in S
    BY <1>1
  <2>2. \A i \in 1 .. N : i - 1 \in S => i \in S
    BY <1>1, <1>2, RaiseSound
  <2> HIDE DEF S
  <2>3. \A i \in 0 .. N : i \in S
    BY <2>1, <2>2, UpTo
  <2> QED
    BY <2>3 DEF S
<1>4. ASSUME NEW i \in 1 .. N
      PROVE  /\ \A j \in Nodes(g) : f[i][j] >= f[i - 1][j]
             /\ \A j \in Nodes(g) :
                  f[i - 1][i - 1] >= 0 /\ Edge(g, i - 1, j) => f[i][j] >= f[i - 1][i - 1] + 1
  <2>1. f[i - 1] \in Layerings(g) /\ i - 1 \in Nodes(g)
    BY <1>1, <1>2
  <2> QED
    BY <1>1, <2>1, RaiseIsLayering
<1>5. \A i \in 0 .. N, j \in Nodes(g) : f[i][j] \in Int
  BY <1>1 DEF Layerings
<1>6. \A i \in 0 .. N, j \in Nodes(g) : f[i][j] >= l[j]
  <2> DEFINE S == {i \in 0 .. N : \A j \in Nodes(g) : f[i][j] >= l[j]}
  <2>0. \A j \in Nodes(g) : l[j] \in Int
    BY <1>0 DEF Layerings
  <2>1. 0 \in S
    BY <1>1, <2>0
  <2>2. ASSUME NEW i \in 1 .. N, i - 1 \in S
        PROVE  i \in S
    <3>1. \A j \in Nodes(g) : f[i][j] >= f[i - 1][j] /\ f[i - 1][j] >= l[j]
      BY <1>4, <2>2
    <3>2. \A j \in Nodes(g) : f[i][j] \in Int /\ f[i - 1][j] \in Int
      BY <1>2, <1>5
    <3>3. \A j \in Nodes(g) : f[i][j] >= l[j]
      BY <2>0, <3>1, <3>2
    <3> QED
      BY <3>3
  <2> HIDE DEF S
  <2>3. \A i \in 0 .. N : i \in S
    BY <2>1, <2>2, UpTo
  <2> QED
    BY <2>3 DEF S
<1>7. ASSUME NEW i \in 1 .. N, NEW j \in Nodes(g), f[i - 1][i - 1] >= 0, Edge(g, i - 1, j)
      PROVE  f[N][j] >= f[i - 1][i - 1] + 1
  <2> DEFINE c == f[i - 1][i - 1]
             S == {k \in 0 .. N : k >= i => f[k][j] >= c + 1}
  <2>0. c \in Int
    BY <1>2, <1>5
  <2>1. 0 \in S
    OBVIOUS
  <2>2. ASSUME NEW k \in 1 .. N, k - 1 \in S
        PROVE  k \in S
    <3>1. f[k][j] \in Int /\ f[k - 1][j] \in Int /\ f[k][j] >= f[k - 1][j]
      BY <1>2, <1>4, <1>5
    <3>2. k = i => f[k][j] >= c + 1
      BY <1>4, <1>7
    <3>3. k > i => f[k - 1][j] >= c + 1
      BY <2>2
    <3> HIDE DEF c
    <3> QED
      BY <2>0, <3>1, <3>2, <3>3
  <2> HIDE DEF S
  <2>3. \A k \in 0 .. N : k \in S
    BY <2>1, <2>2, UpTo
  <2> QED
    BY <2>3 DEF S
<1>8. \A j \in Nodes(g) : f[N][j] >= l[j]
  BY <1>6
<1>9. ASSUME NEW k \in 0 .. N - 1, LaidOut(g, l, k)
      PROVE  LaidOut(g, f[N], k + 1)
  <2> SUFFICES ASSUME NEW d \in 0 .. k + 1, NEW j \in Reaches(g, d)
               PROVE  f[N][j] >= d
    BY DEF LaidOut
  <2>0. d \in 0 .. N /\ j \in Nodes(g)
    BY ReachEnds
  <2>1. f[N][j] \in Int /\ l[j] \in Int
    BY <1>0, <1>5, <2>0 DEF Layerings
  <2>2. CASE d <= k
    <3>1. l[j] >= d
      BY <1>9, <2>2 DEF LaidOut
    <3>2. f[N][j] >= l[j]
      BY <1>8, <2>0
    <3> QED
      BY <2>0, <2>1, <3>1, <3>2
  <2>3. CASE d = k + 1
    <3>1. d \in 1 .. N /\ d - 1 = k
      BY <2>3
    <3>2. Reaches(g, d) = Heard(g, Reaches(g, k))
      BY <3>1, ReachEnds
    <3>3. PICK i \in Reaches(g, k) : Edge(g, i, j)
      BY <3>2 DEF Heard
    <3>4. i \in Nodes(g)
      BY ReachEnds
    <3>5. l[i] >= k
      BY <1>9 DEF LaidOut
    <3>6. i + 1 \in 1 .. N /\ (i + 1) - 1 = i /\ i \in 0 .. N
      BY <3>4 DEF Nodes
    <3>7. f[i][i] >= l[i] /\ f[i][i] \in Int /\ l[i] \in Int
      BY <1>0, <1>5, <1>6, <3>4, <3>6 DEF Layerings
    <3>8. f[i][i] >= k
      BY <3>5, <3>7
    <3>9. f[N][j] >= f[i][i] + 1
      <4>1. f[i][i] >= 0
        BY <3>7, <3>8
      <4>2. \A a \in 1 .. N : f[a - 1][a - 1] >= 0 /\ Edge(g, a - 1, j) => f[N][j] >= f[a - 1][a - 1] + 1
        BY <1>7, <2>0
      <4> QED
        BY <3>3, <3>6, <4>1, <4>2
    <3> QED
      BY <2>1, <2>3, <3>7, <3>8, <3>9
  <2> QED
    BY <2>0, <2>2, <2>3
<1> QED
  BY <1>1, <1>3, <1>8, <1>9

\* Of sound layers that lay out all, none can be raised.
LEMMA LaidOutRests ==
  ASSUME NEW g, Len(g) \in Nat, Acyclic(g), NEW l, Sound(g, l), LaidOut(g, l, Len(g)),
         NEW m, Sound(g, m), \A j \in Nodes(g) : m[j] >= l[j]
  PROVE  m = l
<1>1. l \in Layerings(g) /\ m \in Layerings(g)
  BY DEF Sound
<1>2. ASSUME NEW j \in Nodes(g)
      PROVE  m[j] = l[j]
  <2>1. l[j] \in Int /\ m[j] \in Int /\ m[j] >= l[j]
    BY <1>1 DEF Layerings
  <2>2. l[j] >= -1
    BY <2>1 DEF Sound
  <2>3. CASE m[j] = -1
    BY <2>1, <2>2, <2>3
  <2>4. CASE m[j] \in 0 .. Len(g) - 1 /\ j \in Reaches(g, m[j])
    <3>1. l[j] >= m[j]
      BY <2>4 DEF LaidOut
    <3> QED
      BY <2>1, <3>1
  <2> QED
    BY <2>3, <2>4 DEF Sound
<1> QED
  BY <1>1, <1>2 DEF Layerings

\* The layers that alloc_exe arrives at are sound and lay out all.
LEMMA LayersSound ==
  ASSUME NEW g, Len(g) \in Nat, Acyclic(g)
  PROVE  Sound(g, Layers(g)) /\ LaidOut(g, Layers(g), Len(g))
<1> DEFINE N == Len(g)
           l == InitialLayers(g)
<1>0. Sound(g, l) /\ LaidOut(g, l, 0) /\ l \in Layerings(g)
  BY InitialSound DEF Sound
<1> HIDE DEF l
<1>1. PICK f \in [0 .. N -> Layerings(g)] :
        /\ f[0] = l
        /\ \A i \in 1 .. N : f[i] = Turn(g, f[i - 1])
        /\ Relax(g, l) = f[CHOOSE k \in 0 .. N : Turn(g, f[k]) = f[k]]
  BY <1>0, RelaxSteps
<1>2. \A k \in 0 .. N : Sound(g, f[k]) /\ LaidOut(g, f[k], k)
  <2> DEFINE S == {k \in 0 .. N : Sound(g, f[k]) /\ LaidOut(g, f[k], k)}
  <2>1. 0 \in S
    BY <1>0, <1>1
  <2>2. ASSUME NEW k \in 1 .. N, k - 1 \in S
        PROVE  k \in S
    <3>1. Sound(g, f[k - 1]) /\ LaidOut(g, f[k - 1], k - 1) /\ k - 1 \in 0 .. N - 1
      BY <2>2
    <3>2. Sound(g, Turn(g, f[k - 1])) /\ LaidOut(g, Turn(g, f[k - 1]), (k - 1) + 1)
      BY <3>1, TurnSound
    <3>3. f[k] = Turn(g, f[k - 1]) /\ (k - 1) + 1 = k
      BY <1>1
    <3> QED
      BY <3>2, <3>3
  <2> HIDE DEF S
  <2>3. \A k \in 0 .. N : k \in S
    BY <2>1, <2>2, UpTo
  <2> QED
    BY <2>3 DEF S
<1>3. Turn(g, f[N]) = f[N]
  <2>1. Sound(g, f[N]) /\ LaidOut(g, f[N], N)
    BY <1>2
  <2>2. Sound(g, Turn(g, f[N])) /\ \A j \in Nodes(g) : Turn(g, f[N])[j] >= f[N][j]
    BY <2>1, TurnSound
  <2> QED
    BY <2>1, <2>2, LaidOutRests
<1> DEFINE e == CHOOSE k \in 0 .. N : Turn(g, f[k]) = f[k]
<1>4. e \in 0 .. N /\ Turn(g, f[e]) = f[e]
  BY <1>3
<1>5. Layers(g) = f[e]
  BY <1>1 DEF Layers, l
<1> HIDE DEF e
<1>6. Sound(g, f[e]) /\ LaidOut(g, f[e], 0)
  BY <1>2, <1>4 DEF LaidOut
<1>7. \A k \in 0 .. N : LaidOut(g, f[e], k)
  <2> DEFINE S == {k \in 0 .. N : LaidOut(g, f[e], k)}
  <2>1. 0 \in S
    BY <1>6
  <2>2. ASSUME NEW k \in 1 .. N, k - 1 \in S
        PROVE  k \in S
    <3>1. LaidOut(g, f[e], k - 1) /\ k - 1 \in 0 .. N - 1 /\ (k - 1) + 1 = k
      BY <2>2
    <3>2. LaidOut(g, Turn(g, f[e]), (k - 1) + 1)
      BY <1>6, <3>1, TurnSound
    <3> QED
      BY <1>4, <3>1, <3>2
  <2> HIDE DEF S
  <2>3. \A k \in 0 .. N : k \in S
    BY <2>1, <2>2, UpTo
  <2> QED
    BY <2>3 DEF S
<1> QED
  BY <1>5, <1>6, <1>7

\* A node is one layer above the highest it hears from: as deep as the graph has it.
LEMMA LayersAreDepths ==
  ASSUME NEW g, Len(g) \in Nat, Acyclic(g)
  PROVE  /\ \A j \in Nodes(g) : Layers(g)[j] = Depth(g, j)
         /\ \A i, j \in Nodes(g) :
              Edge(g, i, j) /\ Layers(g)[i] >= 0 => Layers(g)[j] > Layers(g)[i]
<1> DEFINE l == Layers(g)
<1>0. Sound(g, l) /\ LaidOut(g, l, Len(g)) /\ l \in Layerings(g)
  BY LayersSound DEF Sound
<1> HIDE DEF l
<1>1. ASSUME NEW j \in Nodes(g)
      PROVE  l[j] = Depth(g, j)
  <2> DEFINE T == {-1} \cup {d \in 0 .. Len(g) : j \in Reaches(g, d)}
  <2>1. l[j] \in T
    <3>1. \A d \in 0 .. Len(g) - 1 : d \in 0 .. Len(g)
      OBVIOUS
    <3> QED
      BY <1>0, <3>1 DEF Sound
  <2>2. l[j] \in Int /\ l[j] >= -1
    <3>1. l[j] \in Int
      BY <1>0 DEF Layerings
    <3> QED
      BY <1>0, <3>1 DEF Sound
  <2>3. \A y \in T : l[j] >= y
    BY <1>0, <2>2 DEF LaidOut
  <2>4. \A y \in T : y \in Int
    OBVIOUS
  <2>5. Depth(g, j) = Max(T)
    BY DEF Depth
  <2> HIDE DEF T
  <2>6. Max(T) \in T /\ \A y \in T : Max(T) >= y
    BY <2>1, <2>3 DEF Max
  <2> QED
    BY <2>1, <2>2, <2>3, <2>4, <2>5, <2>6
<1>2. ASSUME NEW i \in Nodes(g), NEW j \in Nodes(g), Edge(g, i, j), l[i] >= 0
      PROVE  l[j] > l[i]
  <2>1. l[i] \in 0 .. Len(g) - 1 /\ i \in Reaches(g, l[i])
    BY <1>0, <1>2 DEF Sound
  <2>2. l[i] + 1 \in 0 .. Len(g) - 1 /\ j \in Reaches(g, l[i] + 1)
    BY <1>2, <2>1, HeardNext
  <2>3. l[i] + 1 \in 0 .. Len(g)
    BY <2>2
  <2>4. l[j] >= l[i] + 1
    BY <1>0, <2>2, <2>3 DEF LaidOut
  <2>5. l[j] \in Int
    BY <1>0 DEF Layerings
  <2> QED
    BY <2>1, <2>4, <2>5
<1> QED
  BY <1>1, <1>2 DEF l

------------------------------------------------------------------------------
(* The threads the nodelets get.                                            *)

\* A quotient is what leaves a remainder below the divisor.
LEMMA QuotientIs ==
  ASSUME NEW a \in Nat, NEW b \in Nat \ {0}, NEW q \in Nat, NEW r \in Nat, r < b, a = q * b + r
  PROVE  a \div b = q
<1> DEFINE k == a \div b
<1>1. k \in Nat /\ b * k <= a /\ a < b * k + b
  BY Z3
<1> HIDE DEF k
<1>2. k * b \in Nat /\ q * b \in Nat /\ b * k = k * b
  BY <1>1
<1>3. k > q => k * b >= q * b + b
  BY <1>1
<1>4. k < q => q * b >= k * b + b
  BY <1>1
<1>5. k = q
  BY <1>1, <1>2, <1>3, <1>4
<1> QED
  BY <1>5 DEF k

\* Quotient and remainder of the threads that are left.
LEMMA Divided ==
  ASSUME NEW a \in Nat, NEW b \in Nat \ {0}
  PROVE  \E q, r \in Nat : r < b /\ a = q * b + r
<1> DEFINE k == a \div b
<1>1. k \in Nat /\ b * k <= a /\ a < b * k + b
  BY Z3
<1> HIDE DEF k
<1>2. b * k \in Nat /\ b * k = k * b
  BY <1>1
<1>3. a - b * k \in Nat /\ a - b * k < b /\ a = k * b + (a - b * k)
  BY <1>1, <1>2
<1> QED
  BY <1>1, <1>3

\* Nodelet i gets one thread of the last round, if it is reached.
LEMMA RoundOf ==
  ASSUME NEW n \in Nat \ {0}, NEW q \in Nat, NEW m \in Nat, m < n, NEW i \in 0 .. n - 1
  PROVE  ((q * n + m) + n - 1 - i) \div n = IF i < m THEN q + 1 ELSE q
<1> DEFINE a == (q * n + m) + n - 1 - i
<1>1. q * n \in Nat
  OBVIOUS
<1>2. CASE i < m
  <2>1. a = (q + 1) * n + (m - 1 - i) /\ m - 1 - i \in Nat /\ m - 1 - i < n
    <3>1. (q + 1) * n = q * n + n
      OBVIOUS
    <3> QED
      BY <1>1, <1>2, <3>1
  <2>2. a \in Nat /\ q + 1 \in Nat
    BY <1>1, <1>2
  <2> HIDE DEF a
  <2>3. a \div n = q + 1
    BY <2>1, <2>2, QuotientIs
  <2> QED
    BY <1>2, <2>3 DEF a
<1>3. CASE ~ (i < m)
  <2>1. a = q * n + (m + n - 1 - i) /\ m + n - 1 - i \in Nat /\ m + n - 1 - i < n
    BY <1>1, <1>3
  <2>2. a \in Nat
    BY <1>1, <1>3
  <2> HIDE DEF a
  <2>3. a \div n = q
    BY <2>1, <2>2, QuotientIs
  <2> QED
    BY <1>3, <2>3 DEF a
<1> QED
  BY <1>2, <1>3

LEMMA ShareType ==
  ASSUME NEW l, NEW k \in Nat, DOMAIN l = 0 .. k - 1, NEW t \in Nat \ {0}, NEW n \in Nat \ {0}
  PROVE  Share(l, t, n) \in [0 .. n - 1 -> Nat]
<1> SUFFICES ASSUME NEW i \in 0 .. n - 1
             PROVE  (Cardinality({j \in DOMAIN l : NodeletOf(l[j], n) = i}) * n) \div t \in Nat
  BY DEF Share
<1> DEFINE T == {j \in DOMAIN l : NodeletOf(l[j], n) = i}
           c == Cardinality(T)
<1>1. IsFiniteSet(0 .. k - 1)
  BY FS_Interval
<1>2. T \subseteq 0 .. k - 1
  OBVIOUS
<1> HIDE DEF T
<1>3. c \in Nat
  BY <1>1, <1>2, FS_Subset, FS_CardinalityType
<1> HIDE DEF c
<1>4. c * n \in Nat
  BY <1>3
<1>5. (c * n) \div t \in Nat
  <2> DEFINE a == c * n
  <2> HIDE DEF a
  <2>1. a \in Nat
    BY <1>4 DEF a
  <2>2. a \div t \in Nat
    BY <2>1
  <2> QED
    BY <2>2 DEF a
<1> QED
  BY <1>5 DEF c, T

\* The rest is q whole rounds and m threads of the last one.
LEMMA DealtInRounds ==
  ASSUME NEW n \in Nat \ {0}, NEW rest \in Nat
  PROVE  \E q, m \in Nat :
           /\ m < n /\ rest = q * n + m
           /\ \A i \in 0 .. n - 1 : (rest + n - 1 - i) \div n = IF i < m THEN q + 1 ELSE q
<1>1. PICK q, m \in Nat : m < n /\ rest = q * n + m
  BY Divided
<1>2. ASSUME NEW i \in 0 .. n - 1
      PROVE  (rest + n - 1 - i) \div n = IF i < m THEN q + 1 ELSE q
  <2> DEFINE whole == q * n + m
  <2>1. m < n
    BY <1>1
  <2>2. (whole + n - 1 - i) \div n = IF i < m THEN q + 1 ELSE q
    BY <2>1, RoundOf
  <2>3. rest = whole
    BY <1>1
  <2> HIDE DEF whole
  <2> QED
    BY <2>2, <2>3, Zenon
<1> QED
  BY <1>1, <1>2, Zenon

\* If the shares leave any, the rest is dealt out to the last thread.
LEMMA AllThreadsDealt ==
  ASSUME NEW l, NEW k \in Nat, DOMAIN l = 0 .. k - 1, NEW t \in Nat \ {0}, NEW n \in Nat \ {0},
         SumOf(Share(l, t, n), n) <= t
  PROVE  SumOf(ThreadsOf(l, t, n), n) = t /\ ThreadsOf(l, t, n) \in [0 .. n - 1 -> Int]
<1> DEFINE share == Share(l, t, n)
           total == SumOf(share, n)
           rest == t - total
           deal == ThreadsOf(l, t, n)
<1>1. share \in [0 .. n - 1 -> Nat]
  BY ShareType
<1>2. deal = [i \in 0 .. n - 1 |-> share[i] + (rest + n - 1 - i) \div n]
  BY <1>1 DEF ThreadsOf
<1>0. n \in Nat /\ t \in Nat /\ total <= t
  OBVIOUS
<1> HIDE DEF share, deal
<1>3. share \in [0 .. n - 1 -> Int]
  BY <1>1
<1>4. PICK h \in [0 .. n -> Int] :
        /\ h[0] = 0
        /\ \A i \in 1 .. n : h[i] = h[i - 1] + share[i - 1]
        /\ total = h[n]
  BY <1>0, <1>3, SumSteps
<1> HIDE DEF total
<1>5. total \in Int /\ rest \in Nat
  BY <1>0, <1>4
<1> HIDE DEF rest
<1>6. PICK q, m \in Nat :
        /\ m < n /\ rest = q * n + m
        /\ \A i \in 0 .. n - 1 : (rest + n - 1 - i) \div n = IF i < m THEN q + 1 ELSE q
  BY <1>5, DealtInRounds
<1>7. ASSUME NEW i \in 0 .. n - 1
      PROVE  deal[i] = share[i] + (IF i < m THEN q + 1 ELSE q)
  <2>1. (rest + n - 1 - i) \div n = IF i < m THEN q + 1 ELSE q
    BY <1>6, <1>7, Zenon
  <2> QED
    BY <1>2, <2>1
<1>8. deal \in [0 .. n - 1 -> Int]
  <2>1. ASSUME NEW i \in 0 .. n - 1
        PROVE  deal[i] \in Int
    <3>1. share[i] \in Int /\ (IF i < m THEN q + 1 ELSE q) \in Int
      BY <1>3
    <3> QED
      BY <1>7, <3>1
  <2> QED
    BY <1>2, <2>1
<1>9. PICK f \in [0 .. n -> Int] :
        /\ f[0] = 0
        /\ \A i \in 1 .. n : f[i] = f[i - 1] + deal[i - 1]
        /\ SumOf(deal, n) = f[n]
  BY <1>0, <1>8, SumSteps
<1> DEFINE S == {i \in 0 .. n : f[i] = h[i] + i * q + (IF i <= m THEN i ELSE m)}
<1>10. 0 \in S
  BY <1>0, <1>4, <1>9
<1>11. ASSUME NEW i \in 1 .. n, i - 1 \in S
       PROVE  i \in S
  <2>1. i - 1 \in 0 .. n - 1 /\ i - 1 \in 0 .. n /\ i \in 0 .. n
    OBVIOUS
  <2>2. f[i] = f[i - 1] + deal[i - 1] /\ h[i] = h[i - 1] + share[i - 1]
    BY <1>4, <1>9
  <2>3. deal[i - 1] = share[i - 1] + (IF i - 1 < m THEN q + 1 ELSE q)
    BY <1>7, <2>1
  <2>4. f[i - 1] = h[i - 1] + (i - 1) * q + (IF i - 1 <= m THEN i - 1 ELSE m)
    BY <1>11
  <2>5. h[i - 1] \in Int /\ share[i - 1] \in Int
    BY <1>3, <1>4, <2>1
  <2>6. i * q = (i - 1) * q + q /\ (i - 1) * q \in Int /\ i * q \in Int
    OBVIOUS
  <2> DEFINE a == (i - 1) * q
             b == i * q
  <2>7. a \in Int /\ b = a + q
    BY <2>6
  <2>8. f[i - 1] = h[i - 1] + a + (IF i - 1 <= m THEN i - 1 ELSE m)
    BY <2>4
  <2> HIDE DEF a, b
  <2>9. f[i] = h[i] + b + (IF i <= m THEN i ELSE m)
    <3>1. f[i] = (h[i - 1] + a + (IF i - 1 <= m THEN i - 1 ELSE m))
                   + (share[i - 1] + (IF i - 1 < m THEN q + 1 ELSE q))
      BY <2>2, <2>3, <2>8
    <3>2. h[i] = h[i - 1] + share[i - 1]
      BY <2>2
    <3> DEFINE u == h[i - 1]
               v == share[i - 1]
    <3>3. u \in Int /\ v \in Int /\ h[i] = u + v
      BY <2>5, <3>2
    <3>4. f[i] = (u + a + (IF i - 1 <= m THEN i - 1 ELSE m)) + (v + (IF i - 1 < m THEN q + 1 ELSE q))
      BY <3>1
    <3> HIDE DEF u, v, S
    <3>5. CASE i <= m
      <4>1. f[i] = (u + a + (i - 1)) + (v + (q + 1))
        BY <3>4, <3>5
      <4>2. f[i] = (u + v) + (a + q) + i
        BY <2>7, <3>3, <4>1
      <4> QED
        BY <2>7, <3>3, <3>5, <4>2
    <3>6. CASE i > m
      <4>0. (IF i - 1 <= m THEN i - 1 ELSE m) = m /\ ~ (i - 1 < m)
        BY <3>6
      <4>1. f[i] = (u + a + m) + (v + q)
        BY <3>4, <4>0
      <4>2. f[i] = (u + v) + (a + q) + m
        BY <2>7, <3>3, <4>1
      <4> QED
        BY <2>7, <3>3, <3>6, <4>2
    <3> QED
      BY <3>5, <3>6
  <2> QED
    BY <2>1, <2>9 DEF b
<1> HIDE DEF S
<1>12. \A i \in 0 .. n : i \in S
  BY <1>0, <1>10, <1>11, UpTo
<1>13. f[n] = h[n] + n * q + m
  <2>1. n \in 0 .. n
    OBVIOUS
  <2>2. f[n] = h[n] + n * q + (IF n <= m THEN n ELSE m)
    BY <1>12, <2>1 DEF S
  <2> QED
    BY <1>6, <2>2
<1>14. f[n] = total + rest
  <2>1. n * q = q * n /\ n * q \in Int
    OBVIOUS
  <2> QED
    BY <1>4, <1>5, <1>6, <1>13, <2>1
<1>15. total + rest = t
  BY <1>0, <1>5 DEF rest
<1> QED
  BY <1>8, <1>9, <1>14, <1>15 DEF deal

\* The nodelets of the constructor, and the threads it starts.
LEMMA NodeletsType ==
  ASSUME NEW t \in Nat \ {0}, NEW n \in Nat \ {0}
  PROVE  Nodelets(t, n) \in Nat \ {0}
  BY DEF Nodelets

LEMMA ThreadsStarted == ASSUME NEW n \in Int PROVE NumberOfThreads(n) \in Nat \ {0}
  BY HardwareAssumption DEF NumberOfThreads

\* Every layer has a nodelet, the -1 that is converted too.
LEMMA NodeletIn ==
  ASSUME NEW d \in Int, NEW n \in Nat \ {0}
  PROVE  /\ NodeletOf(d, n) \in 0 .. n - 1
         /\ d >= 0 => NodeletOf(d, n) = d % n
<1>1. \A x \in Int : x % n \in 0 .. n - 1
  BY Z3
<1>2. CASE d >= 0
  BY <1>1, <1>2 DEF NodeletOf
<1>3. CASE ~ (d >= 0)
  <2> DEFINE squared(x) == (x * x) % n
             start == 2^16 % n
             last == squared(squared(start)) + n - 1
  <2>1. 2^16 = 65536
    BY Z3
  <2>2. start \in Int
    BY <1>1, <2>1
  <2> HIDE DEF start
  <2>3. \A x \in Int : squared(x) \in Int
    <3>1. \A x \in Int : x * x \in Int
      OBVIOUS
    <3> QED
      BY <1>1, <3>1
  <2> HIDE DEF squared
  <2>4. last \in Int
    BY <2>2, <2>3
  <2>5. NodeletOf(d, n) = last % n
    BY <1>3 DEF NodeletOf, last, squared, start
  <2> HIDE DEF last
  <2> QED
    BY <1>1, <1>3, <2>4, <2>5
<1> QED
  BY <1>2, <1>3

------------------------------------------------------------------------------
(* The plan a program runs by.                                              *)

\* What the layering starts from, and what it has laid down.
Planning ==
  /\ graph # <<>> => SoundGraph(graph)
  /\ size[1] \in Nat \ {0} /\ size[2] \in Nat \ {0}
  /\ found = IF graph = <<>> THEN <<>> ELSE Layers(graph)
Planned ==
  layer # <<>> =>
    /\ graph # <<>>
    /\ layer = [k \in 1 .. Len(graph) |-> found[k - 1]]
    /\ LET count == Nodelets(size[1], size[2])
       IN  SumOf(Share(found, size[1], count), count) <= size[1]

\* Until main goes on from alloc_exe nothing is called, and no node is moved.
Before ==
  /\ at \in Nat \ {0}
  /\ layer # <<>> => at > 1
  /\ (~ IsMain /\ graph # <<>>) => prog = "graphs" /\ Execs = 1 .. Nodelets(size[1], size[2])
  /\ (graph # <<>> /\ at <= 2) => expired = {} /\ \A u \in Users : call[u].at = "idle"

\* A node is on the nodelet that was computed from its layer.
Housed ==
  (layer # <<>> /\ at = 2) =>
    \A j \in Nodes(graph) :
      LET e == 1 + NodeletOf(found[j], Nodelets(size[1], size[2]))
      IN  e \in Execs /\ Homes(j) = {e}

PlanInv == Planning /\ Planned /\ Before /\ Housed

LEMMA PlanStarts == Init => PlanInv
<1> SUFFICES ASSUME Init PROVE PlanInv
  OBVIOUS
<1>1. /\ layer = <<>> /\ found = IF graph = <<>> THEN <<>> ELSE Layers(graph)
      /\ at = 1
  BY DEF Init, ProgInit
<1>2. PICK count : RegistrationInit(count)
  BY DEF Init
<1>3. expired = {} /\ \A u \in Users : call[u].at = "idle"
  <2>1. expired = {} /\ call = [u \in 0 .. count |-> Idle]
    BY <1>2 DEF RegistrationInit
  <2>2. Idle.at = "idle"
    BY DEF Idle
  <2> QED
    BY <2>1, <2>2 DEF Users
<1>4. CASE /\ prog \in DOMAIN Main /\ kind = Main[prog].kind
           /\ graph = (IF Distr(prog) THEN GraphOf(prog) ELSE <<>>)
           /\ size = (IF Distr(prog) THEN <<Main[prog].threads[1], Main[prog].nodelets>> ELSE <<1, 1>>)
  <2>1. SoundScript(prog, ScriptOf(prog))
    BY <1>4, ScriptsAssumption
  <2>2. Distr(prog) => SoundGraph(GraphOf(prog))
                       /\ {Main[prog].threads[1], Main[prog].nodelets} \subseteq Nat \ {0}
    BY <2>1 DEF SoundScript
  <2>3. graph # <<>> => SoundGraph(graph) /\ Distr(prog)
    BY <1>4, <2>2
  <2>4. size[1] \in Nat \ {0} /\ size[2] \in Nat \ {0}
    <3>1. CASE Distr(prog)
      <4>1. size[1] = Main[prog].threads[1] /\ size[2] = Main[prog].nodelets
        BY <1>4, <3>1
      <4> QED
        BY <2>2, <3>1, <4>1
    <3>2. CASE ~ Distr(prog)
      BY <1>4, <3>2
    <3> QED
      BY <3>1, <3>2
  <2>5. graph # <<>> => IsMain
    BY <1>4, <2>3 DEF Distr, IsMain
  <2> QED
    BY <1>1, <1>3, <2>3, <2>4, <2>5 DEF PlanInv, Planning, Planned, Before, Housed
<1>5. CASE graph = <<>> /\ size = <<1, 1>>
  BY <1>1, <1>3, <1>5 DEF PlanInv, Planning, Planned, Before, Housed
<1>6. CASE /\ prog = "graphs" /\ graph \in Graphs
           /\ size \in {<<NumberOfThreads(s[1]), s[2]>> : s \in Sizes}
           /\ RegistrationInit(Nodelets(size[1], size[2]))
  <2>1. PICK s \in Sizes : size = <<NumberOfThreads(s[1]), s[2]>>
    BY <1>6
  <2>2. s[1] \in Nat /\ s[2] \in Nat \ {0}
    BY <2>1, GraphsAssumption
  <2>3. size[1] = NumberOfThreads(s[1]) /\ size[2] = s[2]
    BY <2>1
  <2>4. size[1] \in Nat \ {0} /\ size[2] \in Nat \ {0}
    BY <2>2, <2>3, ThreadsStarted
  <2>5. Execs = 1 .. Nodelets(size[1], size[2])
    BY <1>6 DEF RegistrationInit, Execs
  <2> QED
    BY <1>1, <1>3, <1>6, <2>4, <2>5, GraphsAssumption DEF PlanInv, Planning, Planned, Before, Housed
<1> QED
  BY <1>4, <1>5, <1>6 DEF Init

\* Only alloc_exe lays nodes down.
LEMMA OthersPlanNothing ==
  ASSUME [Next]_vars
  PROVE  UNCHANGED <<graph, size, found>> /\ (UNCHANGED layer \/ Allocate)
<1> DEFINE Same == UNCHANGED <<graph, size, found, layer>>
<1>1. (MainCalls \/ MainSpawns \/ MainJoins \/ MainCalibrates \/ MainEnds) => Same
  BY DEF MainCalls, MainSpawns, MainJoins, MainCalibrates, MainEnds, program
<1>2. Allocate => UNCHANGED <<graph, size, found>>
  BY DEF Allocate, program
<1>3. (InterruptAll \/ Signal) => Same
  BY DEF InterruptAll, Signal, program
<1>4. ASSUME NEW u, CallStep(u) \/ SpinReturns(u) \/ FreeCall(u)
      PROVE  Same
  BY <1>4 DEF CallStep, SpinReturns, FreeCall, program
<1>5. ASSUME NEW e, ExecutorWaits(e) \/ ExecutorWakes(e)
      PROVE  Same
  BY <1>5 DEF ExecutorWaits, ExecutorWakes, progVars, program
<1>6. ASSUME NEW i, PathStep(i)
      PROVE  Same
  BY <1>6 DEF PathStep, Take, Work, Launch, Await, RecordCoroutine, SleepEnds, ResumeRest,
              Sync, Publish, CallbackReturns, progVars, program
<1>7. UNCHANGED vars => Same
  BY DEF vars, progVars, program
<1> QED
  BY <1>1, <1>2, <1>3, <1>4, <1>5, <1>6, <1>7 DEF Next, System, MainStep

\* What an executor's threads do moves no node.
LEMMA ListsKept ==
  ASSUME Shapes, expired = {}, NEW e \in Execs,
         \/ \E busy, poll : Fill(e, busy, poll)
         \/ Released(e) \/ \E phase : LeavesWait(e, phase) \/ Taken(e, phase)
  PROVE  /\ Execs' = Execs /\ \A f \in Execs : exec'[f].weak_nodes = exec[f].weak_nodes
         /\ UNCHANGED <<call, expired>>
<1>1. AreExecutors /\ IsExecutor(exec[e])
  BY DEF Shapes, AreExecutors
<1> SUFFICES UNCHANGED <<call, expired>> /\ \E x : /\ IsExecutor(x) /\ x.weak_nodes = exec[e].weak_nodes
                                                /\ exec' = [exec EXCEPT ![e] = x]
  BY <1>1, ExecEffect
<1>2. ASSUME NEW busy, NEW poll, Fill(e, busy, poll)
      PROVE  UNCHANGED <<call, expired>> /\ \E x : /\ IsExecutor(x) /\ x.weak_nodes = exec[e].weak_nodes
                                                /\ exec' = [exec EXCEPT ![e] = x]
  <2> DEFINE y == Cleaned(exec[e])
             w == [nodes |-> y.weak_nodes \ busy, busy |-> y.weak_nodes \cap busy,
                   guards |-> y.guards, entities |-> y.weak_nodes \cap entities, poll |-> poll]
             x == SetWaitSet(SetPhase(y, "wait"), w)
  <2>1. UNCHANGED <<call, expired>> /\ exec' = [exec EXCEPT ![e] = x]
    BY <1>2 DEF Fill, SetWaitSet, SetPhase, regRest
  <2>2. IsExecutor(y) /\ y.weak_nodes = exec[e].weak_nodes
    BY <1>1, CleanedList
  <2> HIDE DEF y, w
  <2>3. IsExecutor(x) /\ x.weak_nodes = exec[e].weak_nodes
    BY <2>2, NewPhase, NewWaitSet
  <2> QED
    BY <2>1, <2>3
<1>3. ASSUME Released(e)
      PROVE  UNCHANGED <<call, expired>> /\ \E x : /\ IsExecutor(x) /\ x.weak_nodes = exec[e].weak_nodes
                                                /\ exec' = [exec EXCEPT ![e] = x]
  <2> DEFINE p == IF exec[e].phase = "busy" THEN "choose" ELSE exec[e].phase
             y == SetInterrupt(exec[e], TRUE)
             x == SetPhase(y, p)
  <2>1. UNCHANGED <<call, expired>> /\ exec' = [exec EXCEPT ![e] = x]
    BY <1>1, <1>3 DEF Released, SetInterrupt, SetPhase, AreExecutors, IsExecutor, regRest
  <2>3. IsExecutor(y) /\ y.weak_nodes = exec[e].weak_nodes
    BY <1>1, NewInterrupt
  <2> HIDE DEF p, y
  <2>2. IsExecutor(x) /\ x.weak_nodes = exec[e].weak_nodes
    BY <2>3, NewPhase
  <2> QED
    BY <2>1, <2>2
<1>4. ASSUME NEW phase, LeavesWait(e, phase)
      PROVE  UNCHANGED <<call, expired>> /\ \E x : /\ IsExecutor(x) /\ x.weak_nodes = exec[e].weak_nodes
                                                /\ exec' = [exec EXCEPT ![e] = x]
  <2> DEFINE y == SetPhase(exec[e], phase)
             z == SetInterrupt(y, FALSE)
             x == SetWaitSet(z, NotWaiting)
  <2>1. UNCHANGED <<call, expired>> /\ exec' = [exec EXCEPT ![e] = x]
    BY <1>4 DEF LeavesWait, SetWaitSet, SetInterrupt, SetPhase
  <2>3. IsExecutor(y) /\ y.weak_nodes = exec[e].weak_nodes
    BY <1>1, NewPhase
  <2> HIDE DEF y
  <2>4. IsExecutor(z) /\ z.weak_nodes = exec[e].weak_nodes
    BY <2>3, NewInterrupt
  <2> HIDE DEF z
  <2>2. IsExecutor(x) /\ x.weak_nodes = exec[e].weak_nodes
    BY <2>4, NewWaitSet
  <2> QED
    BY <2>1, <2>2
<1>5. ASSUME NEW phase, Taken(e, phase), ~ LeavesWait(e, phase)
      PROVE  UNCHANGED <<call, expired>> /\ \E x : /\ IsExecutor(x) /\ x.weak_nodes = exec[e].weak_nodes
                                                /\ exec' = [exec EXCEPT ![e] = x]
  <2> DEFINE x == SetWaitSet(SetPhase(exec[e], phase), NotWaiting)
  <2>1. UNCHANGED <<call, expired>> /\ exec' = [exec EXCEPT ![e] = x]
    BY <1>5 DEF Taken, SetWaitSet, SetPhase, regRest
  <2>2. IsExecutor(x) /\ x.weak_nodes = exec[e].weak_nodes
    BY <1>1, NewPhase, NewWaitSet
  <2> QED
    BY <2>1, <2>2
<1> QED
  BY <1>2, <1>3, <1>4, <1>5

\* Main calls nothing before alloc_exe.
LEMMA AllocFirst ==
  ASSUME PlanInv, EndInv, graph # <<>>, IsMain
  PROVE  Distr(prog) /\ script[1].op = "alloc"
<1>1. Fixed
  BY DEF EndInv
<1>2. Distr(prog)
  BY <1>1 DEF Fixed
<1>3. SoundScript(prog, script)
  BY <1>1, ScriptsAssumption DEF Fixed
<1> QED
  BY <1>2, <1>3 DEF SoundScript

\* While nothing is called, a step is alloc_exe, or main goes on from it, or no node is moved.
LEMMA NothingMoves ==
  ASSUME Shapes, EndInv, PlanInv, [Next]_vars, graph # <<>>, at <= 2
  PROVE  \/ Allocate
         \/ at = 2 /\ at' = 3
         \/ /\ UNCHANGED <<at, layer, call, expired>> /\ Execs' = Execs /\ Users' = Users
            /\ \A f \in Execs : exec'[f].weak_nodes = exec[f].weak_nodes
<1> DEFINE Still == /\ UNCHANGED <<at, layer, call, expired>> /\ Execs' = Execs /\ Users' = Users
                    /\ \A f \in Execs : exec'[f].weak_nodes = exec[f].weak_nodes
           Onward == at = 2 /\ at' = 3
<1>0. /\ at \in {1, 2} /\ expired = {} /\ \A u \in Users : call[u].at = "idle"
      /\ at = 1 /\ IsMain => script[at].op = "alloc"
  <2>1. at \in {1, 2}
    BY DEF PlanInv, Before
  <2>2. expired = {} /\ \A u \in Users : call[u].at = "idle"
    BY DEF PlanInv, Before
  <2> QED
    BY <2>1, <2>2, AllocFirst
<1>1. ASSUME UNCHANGED <<call, expired>>, UNCHANGED <<at, layer>>, Execs' = Execs,
             \A f \in Execs : exec'[f].weak_nodes = exec[f].weak_nodes
      PROVE  Still
  <2>1. Users' = Users
    BY <1>1, SameCall DEF Shapes
  <2> QED
    BY <1>1, <2>1
<1>2. ASSUME UNCHANGED <<exec, call, expired, at, layer>> PROVE Still
  <2>1. Execs' = Execs
    BY <1>2, SameExec DEF Shapes
  <2> QED
    BY <1>1, <1>2, <2>1
<1>3. ASSUME NEW op, op # "alloc", MainAt(op), at' = at + 1 PROVE Onward
  <2>1. script[at].op # "alloc" /\ IsMain
    BY <1>3 DEF MainAt, NextOp
  <2> QED
    BY <1>0, <1>3, <2>1
<1>4. (MainCalls \/ MainSpawns \/ MainJoins) => Onward
  <2>1. MainCalls => \E op \in {"add", "remove", "spin"} : MainAt(op) /\ at' = at + 1
    BY DEF MainCalls
  <2>2. (MainSpawns => MainAt("spawn") /\ at' = at + 1) /\ (MainJoins => MainAt("join") /\ at' = at + 1)
    BY DEF MainSpawns, MainJoins
  <2> HIDE DEF Onward
  <2> QED
    BY <1>3, <2>1, <2>2
<1>5. MainCalibrates => Still \/ Onward
  <2> SUFFICES ASSUME MainCalibrates PROVE Still \/ Onward
    OBVIOUS
  <2>1. MainAt("calibrate") /\ (at' = at + 1 \/ at' = at) /\ UNCHANGED <<exec, call, expired, layer>>
    BY DEF MainCalibrates, regVars, regRest
  <2>2. CASE at' = at + 1
    BY <1>3, <2>1, <2>2
  <2>3. CASE at' = at
    BY <1>2, <2>1, <2>3
  <2> QED
    BY <2>1, <2>2, <2>3
<1>6. (MainEnds \/ Signal) => Still
  BY <1>2 DEF MainEnds, Signal, ContextShutdown
<1>7. InterruptAll => Still
  <2> SUFFICES ASSUME InterruptAll PROVE Still
    OBVIOUS
  <2>1. /\ UNCHANGED <<call, expired, at, layer>>
        /\ exec' = [e \in Execs |-> SetInterrupt(exec[e], TRUE)]
    BY DEF InterruptAll, InterruptWaitSets, SetInterrupt, regRest
  <2>2. Execs' = Execs
    BY <2>1 DEF Execs
  <2>3. \A f \in Execs : exec'[f].weak_nodes = exec[f].weak_nodes
    <3> SUFFICES ASSUME NEW f \in Execs PROVE exec'[f].weak_nodes = exec[f].weak_nodes
      OBVIOUS
    <3>1. IsExecutor(exec[f])
      BY DEF Shapes, AreExecutors
    <3> DEFINE x == SetInterrupt(exec[f], TRUE)
    <3>2. exec'[f] = x
      BY <2>1
    <3>3. x.weak_nodes = exec[f].weak_nodes
      BY <3>1, NewInterrupt
    <3> HIDE DEF x
    <3> QED
      BY <3>2, <3>3
  <2> QED
    BY <1>1, <2>1, <2>2, <2>3
<1>8. ASSUME NEW u \in Users PROVE ~ CallStep(u) /\ ~ SpinReturns(u)
  <2>1. call[u].at = "idle"
    BY <1>0
  <2> QED
    BY <2>1 DEF CallStep, RegistrationStep, Exchange, Push, Trigger, AddGuard, Erase, Store, RemoveGuard,
                AddEntity, NotifyEntity, DestroyNode, DestroyExecutor, SpinBegins, SomeBegins, SomeEnds,
                SpinReturns, SpinLeaves, At
<1>9. ASSUME NEW u, FreeCall(u) PROVE FALSE
  <2>1. prog = "registry"
    BY <1>9 DEF FreeCall
  <2>2. ~ IsMain
    BY <2>1 DEF EndInv, Fixed, Main
  <2> QED
    BY <2>1, <2>2 DEF PlanInv, Before
<1>10. ASSUME NEW e \in Execs, ExecutorWaits(e) \/ ExecutorWakes(e) PROVE Still
  <2>1. (\E busy, poll : Fill(e, busy, poll)) \/ LeavesWait(e, "choose")
    BY <1>10 DEF ExecutorWaits, ExecutorWakes, Wake
  <2>2. UNCHANGED <<at, layer>>
    BY <1>10 DEF ExecutorWaits, ExecutorWakes, progVars
  <2> HIDE DEF Still
  <2> QED
    BY <1>0, <1>1, <2>1, <2>2, ListsKept
<1>11. ASSUME NEW i, PathStep(i) PROVE Still
  <2>1. UNCHANGED <<at, layer>>
    BY <1>11 DEF PathStep, Take, Work, Launch, Await, RecordCoroutine, SleepEnds, ResumeRest,
                 Sync, Publish, CallbackReturns, progVars
  <2>2. \/ UNCHANGED regVars
        \/ \E e, phase : Taken(e, phase)
        \/ \E e : Released(e)
    BY <1>11 DEF PathStep, Take, Work, Launch, Await, RecordCoroutine, SleepEnds, ResumeRest,
                 Sync, Publish, CallbackReturns
  <2>3. CASE UNCHANGED regVars
    BY <1>2, <2>1, <2>3 DEF regVars, regRest
  <2>4. ASSUME NEW e, Released(e) \/ \E phase : Taken(e, phase) PROVE Still
    <3>1. e \in Execs
      BY <2>4 DEF Released, Taken
    <3> HIDE DEF Still
    <3> QED
      BY <1>0, <1>1, <2>1, <2>4, <3>1, ListsKept
  <2> HIDE DEF Still
  <2> QED
    BY <2>2, <2>3, <2>4
<1>12. UNCHANGED vars => Still
  BY <1>2 DEF vars, regVars, regRest, progVars
<1> HIDE DEF Still, Onward
<1>13. MainStep => Allocate \/ Onward \/ Still
  BY <1>4, <1>5, <1>6 DEF MainStep
<1>14. System => Allocate \/ Onward \/ Still
  BY <1>7, <1>8, <1>10, <1>11, <1>13 DEF System
<1>15. ~ \E u \in {0, 1} : FreeCall(u)
  BY <1>9
<1>16. Next => Allocate \/ Onward \/ Still
  BY <1>6, <1>14, <1>15, ZenonT(30) DEF Next
<1>17. Allocate \/ Onward \/ Still
  BY <1>12, <1>16
<1> QED
  BY <1>17 DEF Still, Onward

\* Which program runs, and which executors there are, never changes.
LEMMA ProgramKept == ASSUME [Next]_vars PROVE UNCHANGED <<prog, kind>>
<1>1. (MainCalls \/ MainSpawns \/ MainJoins \/ MainCalibrates \/ MainEnds \/ Allocate) => UNCHANGED program
  BY DEF MainCalls, MainSpawns, MainJoins, MainCalibrates, MainEnds, Allocate
<1>2. (InterruptAll \/ Signal) => UNCHANGED program
  BY DEF InterruptAll, Signal
<1>3. ASSUME NEW u, CallStep(u) \/ SpinReturns(u) \/ FreeCall(u) PROVE UNCHANGED program
  BY <1>3 DEF CallStep, SpinReturns, FreeCall
<1>4. ASSUME NEW e, ExecutorWaits(e) \/ ExecutorWakes(e) PROVE UNCHANGED program
  BY <1>4 DEF ExecutorWaits, ExecutorWakes, progVars
<1>5. ASSUME NEW i, PathStep(i) PROVE UNCHANGED program
  BY <1>5 DEF PathStep, Take, Work, Launch, Await, RecordCoroutine, SleepEnds, ResumeRest,
              Sync, Publish, CallbackReturns, progVars
<1>6. UNCHANGED vars => UNCHANGED program
  BY DEF vars, progVars
<1>7. UNCHANGED program
  BY <1>1, <1>2, <1>3, <1>4, <1>5, <1>6 DEF Next, System, MainStep
<1> QED
  BY <1>7 DEF program

LEMMA MainNeverGoesBack ==
  ASSUME [Next]_vars, at \in Nat \ {0}
  PROVE  at' \in Nat \ {0} /\ at' >= at /\ (Allocate => at' = at + 1)
<1>1. (MainCalls \/ MainSpawns \/ MainJoins \/ Allocate) => at' = at + 1
  BY DEF MainCalls, MainSpawns, MainJoins, Allocate
<1>2. MainCalibrates => at' = at + 1 \/ at' = at
  BY DEF MainCalibrates
<1>3. (MainEnds \/ InterruptAll \/ Signal) => at' = at
  BY DEF MainEnds, InterruptAll, Signal
<1>4. ASSUME NEW u, CallStep(u) \/ SpinReturns(u) \/ FreeCall(u) PROVE at' = at
  BY <1>4 DEF CallStep, SpinReturns, FreeCall
<1>5. ASSUME NEW e, ExecutorWaits(e) \/ ExecutorWakes(e) PROVE at' = at
  BY <1>5 DEF ExecutorWaits, ExecutorWakes, progVars
<1>6. ASSUME NEW i, PathStep(i) PROVE at' = at
  BY <1>6 DEF PathStep, Take, Work, Launch, Await, RecordCoroutine, SleepEnds, ResumeRest,
              Sync, Publish, CallbackReturns, progVars
<1>7. UNCHANGED vars => at' = at
  BY DEF vars, progVars
<1>8. at' = at + 1 \/ at' = at
  BY <1>1, <1>2, <1>3, <1>4, <1>5, <1>6, <1>7 DEF Next, System, MainStep
<1> QED
  BY <1>1, <1>8

\* alloc_exe puts every node on the nodelet of its layer.
LEMMA AllocateHouses ==
  ASSUME Shapes, EndInv, PlanInv, Allocate, graph # <<>>, at = 1
  PROVE  /\ Execs' = Execs /\ Users' = Users /\ UNCHANGED <<call, expired>>
         /\ \A j \in Nodes(graph) :
              LET e == 1 + NodeletOf(found[j], Nodelets(size[1], size[2]))
              IN  e \in Execs /\ Homes(j)' = {e}
<1> DEFINE count == Nodelets(size[1], size[2])
           home(j) == 1 + NodeletOf(found[j], count)
           mine(e) == {NameOf(k) : k \in {j \in Nodes(graph) : NodeletOf(found[j], count) = e - 1}}
           share == [e \in Execs |-> mine(e)]
<1>1. Assign(share) /\ UNCHANGED <<program, prog, kind, graph, found>>
  BY DEF Allocate, program
<1> HIDE DEF share
<1>2. /\ Execs' = Execs /\ Users' = Users /\ UNCHANGED <<call, expired>>
      /\ \A e \in Execs : exec'[e].weak_nodes = share[e]
  BY <1>1, AssignEffect
<1>3. Execs = 1 .. count
  <2>1. CASE IsMain
    <3>1. Fixed /\ Distr(prog)
      BY <2>1, AllocFirst DEF EndInv
    <3> QED
      BY <3>1 DEF Fixed, Count
  <2>2. CASE ~ IsMain
    BY <2>2 DEF PlanInv, Before
  <2> QED
    BY <2>1, <2>2
<1>4. ASSUME NEW j \in Nodes(graph) PROVE NodeletOf(found[j], count) \in 0 .. count - 1
  <2>1. count \in Nat \ {0}
    BY NodeletsType DEF PlanInv, Planning
  <2>2. found[j] \in Int
    BY LayersSound DEF PlanInv, Planning, SoundGraph, Sound, Layerings
  <2> HIDE DEF count
  <2> QED
    BY <2>1, <2>2, NodeletIn
<1>5. count \in Nat
  BY NodeletsType DEF PlanInv, Planning
<1> HIDE DEF count
<1>6. ASSUME NEW j \in Nodes(graph), NEW k \in Nodes(graph), NameOf(j) = NameOf(k)
      PROVE  home(j) = home(k)
  <2>1. CASE IsMain
    <3>1. Fixed /\ Distr(prog)
      BY <2>1, AllocFirst DEF EndInv
    <3>2. script[at].op = "alloc" /\ at \in DOMAIN script
      <4>1. prog # "graphs"
        BY <3>1 DEF Fixed, Main
      <4>2. MainAt("alloc")
        BY <4>1 DEF Allocate
      <4>3. Ending
        BY <2>1 DEF EndInv, Ending
      <4> QED
        BY <4>2, <4>3, MainIsAt
    <3>3. graph = GraphOf(prog) /\ found = Layers(GraphOf(prog)) /\ count = Count(prog)
      BY <3>1 DEF Fixed, Count, count
    <3>4. \A i \in Nodes(graph) : <<home(i), NameOf(i)>> \in Gives(prog, script[at])
      BY <2>1, <3>2, <3>3 DEF Gives, NameOf
    <3>5. <<home(j), NameOf(j)>> \in Gives(prog, script[at])
          /\ <<home(k), NameOf(j)>> \in Gives(prog, script[at])
      BY <1>6, <3>4
    <3> HIDE DEF home
    <3> QED
      BY <3>1, <3>2, <3>5, ScriptFacts
  <2>2. CASE ~ IsMain
    <3>1. <<1, j>> = <<1, k>>
      BY <1>6, <2>2 DEF NameOf
    <3> QED
      BY <3>1
  <2> QED
    BY <2>1, <2>2
<1>7. ASSUME NEW j \in Nodes(graph) PROVE home(j) \in Execs /\ Homes(j)' = {home(j)}
  <2>1. home(j) \in Execs
    BY <1>3, <1>4, <1>5
  <2>2. NameOf(j)' = NameOf(j)
    BY <1>1 DEF NameOf, IsMain
  <2>3. ASSUME NEW e \in Execs PROVE NameOf(j) \in share[e] <=> e = home(j)
    <3>1. share[e] = mine(e)
      BY DEF share
    <3>2. ASSUME e = home(j) PROVE NameOf(j) \in mine(e)
      <4>1. NodeletOf(found[j], count) = e - 1
        BY <1>4, <1>5, <3>2
      <4> QED
        BY <4>1
    <3>3. ASSUME NameOf(j) \in mine(e) PROVE e = home(j)
      <4>1. PICK k \in Nodes(graph) : NodeletOf(found[k], count) = e - 1 /\ NameOf(k) = NameOf(j)
        BY <3>3
      <4>2. e = home(k)
        BY <1>3, <1>5, <4>1
      <4> HIDE DEF home
      <4> QED
        BY <1>6, <4>1, <4>2
    <3> HIDE DEF mine, home
    <3> QED
      BY <3>1, <3>2, <3>3
  <2>4. Homes(j)' = {e \in Execs : NameOf(j) \in share[e]}
    BY <1>2, <2>2 DEF Homes
  <2> HIDE DEF home
  <2> QED
    BY <2>1, <2>3, <2>4
<1> QED
  BY <1>2, <1>7 DEF count

LEMMA PlanStep == RegistrationInv /\ EndInv /\ PlanInv /\ [Next]_vars => PlanInv'
<1> SUFFICES ASSUME RegistrationInv, Shapes, EndInv, PlanInv, [Next]_vars PROVE PlanInv'
  BY DEF RegistrationInv
<1>0. Execs' = Execs
  BY ExecutorsKept
<1>1. UNCHANGED <<graph, size, found>> /\ (UNCHANGED layer \/ Allocate)
  BY OthersPlanNothing
<1>2. Planning'
  BY <1>1 DEF PlanInv, Planning
<1>3. Planned'
  <2>1. CASE UNCHANGED layer
    BY <1>1, <2>1 DEF PlanInv, Planned
  <2>2. CASE Allocate
    <3> DEFINE count == Nodelets(size[1], size[2])
    <3>1. /\ SumOf(Share(found, size[1], count), count) <= size[1]
          /\ layer' = [k \in 1 .. Len(graph) |-> found[k - 1]]
      BY <2>2 DEF Allocate
    <3>2. graph = <<>> => layer' = <<>>
      <4>1. graph = <<>> => 1 .. Len(graph) = {}
        OBVIOUS
      <4> QED
        BY <3>1, <4>1
    <3> QED
      BY <1>1, <3>1, <3>2 DEF Planned
  <2> QED
    BY <1>1, <2>1, <2>2
<1>4. at \in Nat \ {0} /\ at' \in Nat \ {0} /\ at' >= at /\ (Allocate => at' = at + 1)
  BY MainNeverGoesBack DEF PlanInv, Before
<1>5. layer' # <<>> => at' > 1
  BY <1>1, <1>4 DEF PlanInv, Before
<1>6. UNCHANGED <<prog, kind>>
  BY ProgramKept
<1>7. ((~ IsMain /\ graph # <<>>) => prog = "graphs" /\ Execs = 1 .. Nodelets(size[1], size[2]))'
  BY <1>0, <1>1, <1>6 DEF PlanInv, Before, IsMain
<1>8. CASE ~ (graph # <<>> /\ at <= 2)
  <2>1. ~ (graph' # <<>> /\ at' <= 2)
    BY <1>1, <1>4, <1>8
  <2>2. layer' # <<>> => graph' # <<>>
    BY <1>3 DEF Planned
  <2>3. at' # 2 \/ layer' = <<>>
    BY <2>1, <2>2
  <2> QED
    BY <1>2, <1>3, <1>4, <1>5, <1>7, <2>1, <2>3 DEF PlanInv, Before, Housed
<1>9. CASE graph # <<>> /\ at <= 2
  <2>1. expired = {} /\ \A u \in Users : call[u].at = "idle"
    BY <1>9 DEF PlanInv, Before
  <2>2. CASE Allocate /\ at = 1
    <3>1. /\ Execs' = Execs /\ Users' = Users /\ UNCHANGED <<call, expired>>
          /\ \A j \in Nodes(graph) :
               LET e == 1 + NodeletOf(found[j], Nodelets(size[1], size[2]))
               IN  e \in Execs /\ Homes(j)' = {e}
      BY <1>9, <2>2, AllocateHouses
    <3>2. Housed'
      BY <1>1, <3>1 DEF Housed
    <3> QED
      BY <1>2, <1>3, <1>4, <1>5, <1>7, <2>1, <3>1, <3>2 DEF PlanInv, Before
  <2>3. CASE at' > 2
    BY <1>2, <1>3, <1>4, <1>5, <1>7, <2>3 DEF PlanInv, Before, Housed
  <2>4. CASE /\ UNCHANGED <<at, layer, call, expired>> /\ Execs' = Execs /\ Users' = Users
             /\ \A f \in Execs : exec'[f].weak_nodes = exec[f].weak_nodes
    <3>1. \A j : Homes(j)' = Homes(j)
      BY <1>6, <2>4 DEF Homes, NameOf, IsMain
    <3>2. Housed'
      BY <1>1, <2>4, <3>1 DEF PlanInv, Housed
    <3> QED
      BY <1>2, <1>3, <1>4, <1>5, <1>7, <2>1, <2>4, <3>2 DEF PlanInv, Before
  <2>5. Allocate => at = 1 \/ at' > 2
    BY <1>4
  <2> QED
    BY <1>9, <2>2, <2>3, <2>4, <2>5, NothingMoves
<1> QED
  BY <1>8, <1>9

LEMMA PlanFollowsGraph == PlanInv => AllocationFollowsGraph
<1> DEFINE count == Nodelets(size[1], size[2])
<1> SUFFICES ASSUME PlanInv, layer # <<>>, at = 2
             PROVE  /\ \A j \in Nodes(graph) :
                         /\ layer[j + 1] = Depth(graph, j)
                         /\ \E e \in 1 .. count :
                              /\ Homes(j) = {e}
                              /\ Depth(graph, j) >= 0 => e = 1 + (Depth(graph, j) % count)
                    /\ SumOf(ThreadsOf(found, size[1], count), count) = size[1]
                    /\ \A i \in 0 .. count - 1 : Started(found, size[1], count)[i] > 0
                    /\ \A i, j \in Nodes(graph) :
                         (Edge(graph, i, j) /\ layer[i + 1] >= 0) => layer[j + 1] > layer[i + 1]
  BY DEF AllocationFollowsGraph
<1>1. /\ Len(graph) \in Nat /\ Acyclic(graph) /\ found = Layers(graph)
      /\ layer = [k \in 1 .. Len(graph) |-> found[k - 1]]
      /\ SumOf(Share(found, size[1], count), count) <= size[1]
      /\ size[1] \in Nat \ {0} /\ size[2] \in Nat \ {0}
  BY DEF PlanInv, Planning, Planned, SoundGraph
<1>2. count \in Nat \ {0}
  BY <1>1, NodeletsType
<1>3. \A j \in Nodes(graph) : Homes(j) = {1 + NodeletOf(found[j], count)}
  BY DEF PlanInv, Housed
<1> HIDE DEF count
<1>4. \A j \in Nodes(graph) : layer[j + 1] = found[j]
  <2> SUFFICES ASSUME NEW j \in Nodes(graph) PROVE layer[j + 1] = found[j]
    OBVIOUS
  <2>1. j + 1 \in 1 .. Len(graph) /\ (j + 1) - 1 = j
    BY <1>1 DEF Nodes
  <2> QED
    BY <1>1, <2>1
<1>5. /\ \A j \in Nodes(graph) : found[j] = Depth(graph, j)
      /\ \A i, j \in Nodes(graph) : Edge(graph, i, j) /\ found[i] >= 0 => found[j] > found[i]
  BY <1>1, LayersAreDepths
<1>6. found \in [0 .. Len(graph) - 1 -> Int]
  BY <1>1, LayersSound DEF Sound, Layerings, Nodes
<1>7. /\ SumOf(ThreadsOf(found, size[1], count), count) = size[1]
      /\ ThreadsOf(found, size[1], count) \in [0 .. count - 1 -> Int]
  BY <1>1, <1>2, <1>6, AllThreadsDealt
<1>8. \A i \in 0 .. count - 1 : Started(found, size[1], count)[i] > 0
  <2> DEFINE dealt == ThreadsOf(found, size[1], count)
  <2>1. dealt \in [0 .. count - 1 -> Int] /\ Started(found, size[1], count) = [i \in DOMAIN dealt |-> NumberOfThreads(dealt[i])]
    BY <1>7 DEF Started
  <2> HIDE DEF dealt
  <2> SUFFICES ASSUME NEW i \in 0 .. count - 1 PROVE Started(found, size[1], count)[i] > 0
    OBVIOUS
  <2>2. dealt[i] \in Int /\ Started(found, size[1], count)[i] = NumberOfThreads(dealt[i])
    BY <2>1
  <2> QED
    BY <2>2, ThreadsStarted
<1>9. ASSUME NEW j \in Nodes(graph)
      PROVE  \E e \in 1 .. count :
               /\ Homes(j) = {e}
               /\ Depth(graph, j) >= 0 => e = 1 + (Depth(graph, j) % count)
  <2> DEFINE n == NodeletOf(found[j], count)
  <2>1. found[j] \in Int
    BY <1>6 DEF Nodes
  <2>2. n \in 0 .. count - 1 /\ (found[j] >= 0 => n = found[j] % count)
    BY <1>2, <2>1, NodeletIn
  <2>3. Homes(j) = {1 + n} /\ found[j] = Depth(graph, j)
    BY <1>3, <1>5
  <2> HIDE DEF n
  <2>4. 1 + n \in 1 .. count
    BY <1>2, <2>2
  <2> QED
    BY <2>2, <2>3, <2>4
<1> QED
  BY <1>4, <1>5, <1>7, <1>8, <1>9

\* Whatever graph without a cycle of topics, however many threads and nodelets: the layers of a
\* DistrThreadedExecutor are the depths of the nodes, every node is above all it hears from and is
\* added to the nodelet of its layer and to no other, and every thread is dealt out.  And the
\* sleeps of the GPU programs stay below a kernel.
THEOREM PlanIsAlwaysSound == Spec => []PlanIsSound
<1>2. RegistrationInv /\ EndInv /\ [Next]_vars => EndInv'
  BY EndStep, EndsStutter DEF RegistrationInv
<1>3. Spec => [](RegistrationInv /\ EndInv)
  BY <1>2, EndsStart, ProgramsRegisterOnly, RegistrationInvariant, PTL DEF Spec
<1>4. Spec => []AllocationFollowsGraph
  BY <1>3, PlanStarts, PlanStep, PlanFollowsGraph, PTL DEF Spec
<1>5. AwaitBelowKernel /\ AllocationFollowsGraph => PlanIsSound
  BY DEF PlanIsSound
<1> QED
  BY <1>4, <1>5, SleepsBelowKernel, PTL
================================================================================
