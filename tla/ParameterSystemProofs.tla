------------------------ MODULE ParameterSystemProofs ------------------------
(***************************************************************************)
(* Proofs about ParameterSystem, for any declarations, lists, requests,    *)
(* overrides, ranges, clocks and bounds, and about TimeArithmetic, for     *)
(* integers of every width.                                                *)
(*                                                                         *)
(* The promises of the store are about one call and every map a call can   *)
(* find: the parts on operators say what a call does to a sound map, and   *)
(* that maps stay sound (Storing).  That no answer is lost rests on the    *)
(* place of every request (OnePlace, Promises) and on the mutex that holds *)
(* an answer back until its promise is stored; that an answer is complete  *)
(* rests on the one-by-one loop of the service, whose list and results     *)
(* together are as long as the request's list (ServesOne).  That clocks    *)
(* follow the time source rests on who may run: no callback runs while     *)
(* attachNode changes the clocks, and whoever is about to change them      *)
(* agrees with ros_time_active_ (Excluding, Switching).  That the source   *)
(* does what use_sim_time says rests on the last value it was told and has *)
(* not applied: it waits in an event, or is at hand, or is applied         *)
(* (Agreeing), and the subscription to /clock is a step behind             *)
(* (Subscribing).                                                          *)
(***************************************************************************)
EXTENDS ParameterSystem, TimeArithmetic, FiniteSetTheorems, SequenceTheorems, TLAPS

------------------------------------------------------------------------------
(* Least and greatest elements. *)

LEMMA LeastExists ==
  ASSUME NEW S, S \subseteq Nat, S # {}
  PROVE  \E x \in S : \A y \in S : x <= y
<1>1. \E x \in S : \A y \in S : ~ (<<y, x>> \in OpToRel(<, Nat))
  BY NatLessThanWellFounded, WFMin
<1>2. PICK x \in S : \A y \in S : ~ (<<y, x>> \in OpToRel(<, Nat))
  BY <1>1
<1>3. \A y \in S : ~(y < x)
  BY <1>2 DEF OpToRel
<1> QED
  BY <1>3

LEMMA MinIsLeast ==
  ASSUME NEW S, S \subseteq Nat, S # {}
  PROVE  Min(S) \in S /\ \A y \in S : Min(S) <= y
  BY LeastExists DEF Min

LEMMA MaxIsGreatest ==
  ASSUME NEW n \in Nat, NEW S, S \subseteq 1 .. n, S # {}
  PROVE  Max(S) \in S /\ \A y \in S : y <= Max(S)
<1> DEFINE T == {n - i : i \in S}
<1>1. \A i \in S : i \in Nat /\ n - i \in Nat
  OBVIOUS
<1>a. T \subseteq Nat /\ T # {}
  BY <1>1
<1>2. PICK x \in T : \A y \in T : x <= y
  BY <1>a, LeastExists
<1>3. PICK m \in S : x = n - m
  BY <1>2
<1>4. \A y \in S : m >= y
  BY <1>1, <1>2, <1>3
<1>5. Max(S) \in S /\ \A y \in S : Max(S) >= y
  BY <1>3, <1>4 DEF Max
<1> QED
  BY <1>1, <1>5

------------------------------------------------------------------------------
(* What the operators of NodeParameters do with a map and with a list. *)

\* A parameter whose value is in its range, when it has one.
Sound(info) ==
  /\ info \in [value: Values, descriptor: Descriptors] /\ RangeOK(info.descriptor.range)
  /\ (info.descriptor.range # <<>> /\ info.value.type = "integer") =>
       info.descriptor.range[1] <= info.value.v /\ info.value.v <= info.descriptor.range[2]

SoundMap(pm) ==
  /\ IsFiniteSet(DOMAIN pm) /\ DOMAIN pm \subseteq Names
  /\ \A n \in DOMAIN pm : Sound(pm[n])

LEMMA NoInfoIsSound == Sound(NoInfo)
<1>1. <<>> \in Seq(Int)
  OBVIOUS
<1>2. NotSet \in Values
  BY DEF NotSet, Values
<1>3. DefaultDescriptor \in Descriptors
  BY <1>1 DEF DefaultDescriptor, Descriptors
<1> QED
  BY <1>2, <1>3 DEF Sound, NoInfo, DefaultDescriptor, RangeOK

LEMMA ListElements ==
  ASSUME NEW ps \in Seq(Params)
  PROVE  /\ Len(ps) \in Nat /\ DOMAIN ps = 1 .. Len(ps)
         /\ \A i \in DOMAIN ps : ps[i] \in Params /\ ps[i].name \in Names /\ ps[i].value \in Values
<1>1. Len(ps) \in Nat /\ DOMAIN ps = 1 .. Len(ps)
  BY LenProperties
<1>2. \A i \in DOMAIN ps : ps[i] \in Params
  BY <1>1, ElementOfSeq
<1> QED
  BY <1>1, <1>2 DEF Params

LEMMA NamesOfList ==
  ASSUME NEW ps \in Seq(Params)
  PROVE  IsFiniteSet(NamesIn(ps)) /\ NamesIn(ps) \subseteq Names
<1> DEFINE f == [i \in DOMAIN ps |-> ps[i].name]
<1>1. Len(ps) \in Nat /\ DOMAIN ps = 1 .. Len(ps)
  BY ListElements
<1>2. IsFiniteSet(DOMAIN ps)
  BY <1>1, FS_Interval
<1>3. f \in Surjection(DOMAIN ps, NamesIn(ps))
  BY DEF Surjection, NamesIn
<1>4. IsFiniteSet(NamesIn(ps))
  BY <1>2, <1>3, FS_Surjection
<1> QED
  BY <1>4, ListElements DEF NamesIn

\* The value of a name's last occurrence.
LEMMA LastOccurrence ==
  ASSUME NEW ps \in Seq(Params), NEW n \in NamesIn(ps)
  PROVE  \E i \in DOMAIN ps :
           /\ ps[i].name = n /\ LastOf(ps, n) = ps[i].value
           /\ \A j \in DOMAIN ps : ps[j].name = n => j <= i
<1> DEFINE S == {i \in DOMAIN ps : ps[i].name = n}
<1>1. S # {} /\ S \subseteq 1 .. Len(ps) /\ Len(ps) \in Nat
  BY ListElements DEF NamesIn
<1>2. Max(S) \in S /\ \A y \in S : y <= Max(S)
  BY <1>1, MaxIsGreatest
<1> QED
  BY <1>2 DEF LastOf

LEMMA LastValue ==
  ASSUME NEW ps \in Seq(Params), NEW n \in NamesIn(ps)
  PROVE  LastOf(ps, n) \in Values
  BY LastOccurrence, ListElements

\* A value that the range admits.
LEMMA ValueInRange ==
  ASSUME NEW info, Sound(info), NEW value \in Values, InRange(info.descriptor, value)
  PROVE  Sound([info EXCEPT !.value = value])
<1> DEFINE r == info.descriptor.range
<1>1. /\ [info EXCEPT !.value = value] \in [value: Values, descriptor: Descriptors]
      /\ [info EXCEPT !.value = value].descriptor = info.descriptor
      /\ [info EXCEPT !.value = value].value = value
  BY DEF Sound
<1>2. RangeOK(r) /\ r \in Seq(Int) /\ value.v \in Int
  BY DEF Sound, Descriptors, Values
<1>3. ASSUME r # <<>>, value.type = "integer"
      PROVE  r[1] <= value.v /\ value.v <= r[2]
  <2>1. Len(r) = 3 /\ r[1] <= r[2]
    BY <1>2, <1>3 DEF RangeOK
  <2>2. r[1] \in Int /\ r[2] \in Int
    BY <1>2, <2>1, ElementOfSeq
  <2>3. value.v = r[1] \/ value.v = r[2] \/ (r[1] < value.v /\ value.v < r[2])
    BY <1>3 DEF InRange
  <2> QED
    BY <1>2, <2>1, <2>2, <2>3
<1> QED
  BY <1>1, <1>2, <1>3 DEF Sound

LEMMA TouchedMap ==
  ASSUME NEW pm, SoundMap(pm), NEW S, IsFiniteSet(S), S \subseteq Names
  PROVE  /\ SoundMap(Touched(pm, S)) /\ DOMAIN Touched(pm, S) = DOMAIN pm \cup S
         /\ \A n \in DOMAIN pm : Touched(pm, S)[n] = pm[n]
         /\ \A n \in S \ DOMAIN pm : Touched(pm, S)[n] = NoInfo
<1>1. Touched(pm, S) = [n \in DOMAIN pm \cup S |-> IF n \in DOMAIN pm THEN pm[n] ELSE NoInfo]
  BY DEF Touched, Over
<1>2. IsFiniteSet(DOMAIN pm \cup S)
  BY FS_Union DEF SoundMap
<1> QED
  BY <1>1, <1>2, NoInfoIsSound DEF SoundMap

LEMMA AssignedMap ==
  ASSUME NEW pm, SoundMap(pm), NEW ps \in Seq(Params), NamesIn(ps) \subseteq DOMAIN pm,
         \A i \in DOMAIN ps : InRange(pm[ps[i].name].descriptor, ps[i].value)
  PROVE  SoundMap(Assigned(pm, ps)) /\ DOMAIN Assigned(pm, ps) = DOMAIN pm
<1>1. ASSUME NEW n \in DOMAIN pm
      PROVE  Sound(Assigned(pm, ps)[n])
  <2>1. CASE n \notin NamesIn(ps)
    BY <2>1 DEF Assigned, SoundMap
  <2>2. CASE n \in NamesIn(ps)
    <3>1. PICK i \in DOMAIN ps : ps[i].name = n /\ LastOf(ps, n) = ps[i].value
      BY <2>2, LastOccurrence
    <3>2. Sound(pm[n]) /\ ps[i].value \in Values /\ InRange(pm[n].descriptor, ps[i].value)
      BY <3>1, ListElements DEF SoundMap
    <3>3. Sound([pm[n] EXCEPT !.value = ps[i].value])
      BY <3>2, ValueInRange
    <3>4. Assigned(pm, ps)[n] = [pm[n] EXCEPT !.value = LastOf(ps, n)]
      BY <2>2 DEF Assigned
    <3> QED
      BY <3>1, <3>3, <3>4
  <2> QED
    BY <2>1, <2>2
<1> QED
  BY <1>1 DEF SoundMap, Assigned

\* What a check does with the map: it may touch names of the list.
LEMMA CheckOutcome ==
  ASSUME NEW pm, SoundMap(pm), NEW ps \in Seq(Params), NEW c, c = CheckParameters(pm, ps)
  PROVE  /\ \E S \in SUBSET NamesIn(ps) : IsFiniteSet(S) /\ c.map = Touched(pm, S)
         /\ c.ok => /\ c.map = Touched(pm, NamesIn(ps))
                    /\ \A i \in DOMAIN ps : InRange(c.map[ps[i].name].descriptor, ps[i].value)
<1> DEFINE bad == {i \in DOMAIN ps :
                ~InRange(Touched(pm, NamesIn(ps))[ps[i].name].descriptor, ps[i].value)}
           checked == IF bad = {} THEN ps ELSE SubSeq(ps, 1, Min(bad))
<1>1. c.ok = (bad = {}) /\ c.map = Touched(pm, NamesIn(checked))
  BY DEF CheckParameters
<1>2. NamesIn(checked) \subseteq NamesIn(ps)
  <2>1. CASE bad = {}
    BY <2>1
  <2>2. CASE bad # {}
    <3>1. Len(ps) \in Nat /\ DOMAIN ps = 1 .. Len(ps)
      BY ListElements
    <3>2. Min(bad) \in bad
      <4>1. bad \subseteq Nat
        BY <3>1
      <4> HIDE DEF bad
      <4> QED
        BY <2>2, <4>1, MinIsLeast
    <3>3. Min(bad) \in 1 .. Len(ps)
      BY <3>1, <3>2
    <3>4. /\ DOMAIN SubSeq(ps, 1, Min(bad)) = 1 .. Min(bad)
          /\ \A i \in 1 .. Min(bad) : SubSeq(ps, 1, Min(bad))[i] = ps[i]
      <4> DEFINE m == Min(bad)
      <4>a. m \in 1 .. Len(ps)
        BY <3>3
      <4>1. m \in Int /\ 1 <= m /\ \A i \in 1 .. m : ps[i] \in Params
        <5> HIDE DEF m
        <5> QED
          BY <3>1, <4>a, ListElements
      <4> HIDE DEF m
      <4>2. /\ SubSeq(ps, 1, m) \in Seq(Params) /\ Len(SubSeq(ps, 1, m)) = m
            /\ \A i \in 1 .. m : SubSeq(ps, 1, m)[i] = ps[i]
        BY <4>1, SubSeqProperties, 1 \in Int, m - 1 + 1 = m
      <4>3. DOMAIN SubSeq(ps, 1, m) = 1 .. m
        BY <4>2, LenProperties
      <4> QED
        BY <4>2, <4>3 DEF m
    <3>5. \A i \in 1 .. Min(bad) : i \in DOMAIN ps
      BY <3>1, <3>3
    <3> HIDE DEF bad
    <3> QED
      BY <2>2, <3>4, <3>5 DEF NamesIn
  <2> QED
    BY <2>1, <2>2
<1>3. IsFiniteSet(NamesIn(checked))
  BY <1>2, NamesOfList, FS_Subset
<1>4. c.ok => checked = ps
  BY <1>1
<1> QED
  BY <1>1, <1>2, <1>3, <1>4

LEMMA SetCommonOutcome ==
  ASSUME NEW pm, SoundMap(pm), NEW ps \in Seq(Params), NEW cb \in BOOLEAN,
         NEW set, set = SetCommon(ps, pm, cb)
  PROVE  /\ SoundMap(set.map)
         /\ ~set.ok => \/ set.map = pm
                       \/ \E S \in SUBSET NamesIn(ps) : IsFiniteSet(S) /\ set.map = Touched(pm, S)
         /\ set.ok => set.map = Assigned(Touched(pm, NamesIn(ps)), ps)
<1> DEFINE c == CheckParameters(pm, ps)
<1>1. /\ \E S \in SUBSET NamesIn(ps) : IsFiniteSet(S) /\ c.map = Touched(pm, S)
      /\ c.ok => /\ c.map = Touched(pm, NamesIn(ps))
                 /\ \A i \in DOMAIN ps : InRange(c.map[ps[i].name].descriptor, ps[i].value)
  BY CheckOutcome
<1>2. IsFiniteSet(NamesIn(ps)) /\ NamesIn(ps) \subseteq Names
  BY NamesOfList
<1>3. SoundMap(c.map)
  <2>1. PICK S \in SUBSET NamesIn(ps) : IsFiniteSet(S) /\ c.map = Touched(pm, S)
    BY <1>1
  <2>2. SoundMap(Touched(pm, S))
    BY <1>2, <2>1, TouchedMap
  <2> QED
    BY <2>1, <2>2
<1>4. CASE ~Accepts(cb, ps)
  BY <1>4 DEF SetCommon
<1>5. CASE Accepts(cb, ps) /\ ~c.ok
  BY <1>1, <1>3, <1>5 DEF SetCommon
<1>6. CASE Accepts(cb, ps) /\ c.ok
  <2>1. set = [ok |-> TRUE, map |-> Assigned(c.map, ps)]
    BY <1>6 DEF SetCommon
  <2>2. NamesIn(ps) \subseteq DOMAIN c.map
    <3>1. DOMAIN Touched(pm, NamesIn(ps)) = DOMAIN pm \cup NamesIn(ps)
      BY <1>2, TouchedMap
    <3> QED
      BY <1>1, <1>6, <3>1
  <2>3. SoundMap(Assigned(c.map, ps))
    BY <1>1, <1>3, <1>6, <2>2, AssignedMap
  <2> QED
    BY <1>1, <1>6, <2>1, <2>3
<1> QED
  BY <1>4, <1>5, <1>6

LEMMA OverMap ==
  ASSUME NEW pm, SoundMap(pm), NEW rest, SoundMap(rest)
  PROVE  SoundMap(Over(pm, rest)) /\ DOMAIN Over(pm, rest) = DOMAIN pm \cup DOMAIN rest
<1>1. IsFiniteSet(DOMAIN pm \cup DOMAIN rest)
  BY FS_Union DEF SoundMap
<1> QED
  BY <1>1 DEF SoundMap, Over

LEMMA RestrictedMap ==
  ASSUME NEW pm, SoundMap(pm), NEW S, S \subseteq DOMAIN pm
  PROVE  SoundMap(Restrict(pm, S))
<1>1. IsFiniteSet(S)
  BY FS_Subset DEF SoundMap
<1> QED
  BY <1>1 DEF SoundMap, Restrict

LEMMA EntryMap ==
  ASSUME NEW n \in Names, NEW info, Sound(info)
  PROVE  SoundMap(Entry(n, info)) /\ DOMAIN Entry(n, info) = {n}
<1>1. IsFiniteSet({n})
  BY FS_Singleton
<1> QED
  BY <1>1 DEF SoundMap, Entry

\* declare_parameter, with the name's override when it has one.
LEMMA DeclareOutcome ==
  ASSUME NEW pm, SoundMap(pm), NEW n \in Names, NEW default \in Values,
         NEW descriptor \in Descriptors, RangeOK(descriptor.range), NEW cb \in BOOLEAN,
         \A m \in DOMAIN overrides : overrides[m] \in Values
  PROVE  LET o == Declare(pm, n, default, descriptor, cb)
         IN SoundMap(o.map) /\ (o.result = "ok" => n \in DOMAIN o.map)
<1> DEFINE initial == IF n \in DOMAIN overrides THEN overrides[n] ELSE default
           ps == <<[name |-> n, value |-> initial]>>
           info == [value |-> NotSet, descriptor |-> descriptor]
           set == SetCommon(ps, Entry(n, info), cb)
           declared == DeclareCommon(n, default, descriptor, pm, cb, TRUE)
<1>1. initial \in Values
  OBVIOUS
<1>2. ps \in Seq(Params) /\ NamesIn(ps) = {n}
  <2>1. [name |-> n, value |-> initial] \in Params
    BY <1>1 DEF Params
  <2> HIDE DEF initial
  <2> QED
    BY <2>1 DEF NamesIn
<1>3. Sound(info)
  <2>1. NotSet \in Values /\ NotSet.type # "integer"
    BY DEF NotSet, Values
  <2> QED
    BY <2>1 DEF Sound
<1>4. SoundMap(Entry(n, info)) /\ DOMAIN Entry(n, info) = {n}
  BY <1>3, EntryMap
<1>5. SoundMap(set.map) /\ n \in DOMAIN set.map
  <2> HIDE DEF ps, info
  <2>1. /\ SoundMap(set.map)
        /\ ~set.ok => \/ set.map = Entry(n, info)
                      \/ \E S \in SUBSET NamesIn(ps) :
                           IsFiniteSet(S) /\ set.map = Touched(Entry(n, info), S)
        /\ set.ok => set.map = Assigned(Touched(Entry(n, info), NamesIn(ps)), ps)
    BY <1>2, <1>4, SetCommonOutcome
  <2>2. ASSUME NEW S \in SUBSET NamesIn(ps), IsFiniteSet(S)
        PROVE  n \in DOMAIN Touched(Entry(n, info), S)
    BY <1>2, <1>4, <2>2, TouchedMap
  <2>3. IsFiniteSet(NamesIn(ps))
    BY <1>2, FS_Singleton
  <2>4. n \in DOMAIN Assigned(Touched(Entry(n, info), NamesIn(ps)), ps)
    BY <2>2, <2>3 DEF Assigned
  <2> QED
    BY <1>4, <2>1, <2>2, <2>4
<1>6. declared.map = Over(Entry(n, set.map[n]), pm)
  BY DEF DeclareCommon
<1>7. SoundMap(declared.map) /\ n \in DOMAIN declared.map
  <2> HIDE DEF set, declared
  <2>1. SoundMap(Entry(n, set.map[n])) /\ DOMAIN Entry(n, set.map[n]) = {n}
    BY <1>5, EntryMap DEF SoundMap
  <2>2. SoundMap(Over(Entry(n, set.map[n]), pm)) /\ n \in DOMAIN Over(Entry(n, set.map[n]), pm)
    BY <2>1, OverMap
  <2> QED
    BY <1>6, <2>2
<1> HIDE DEF declared
<1> QED
  BY <1>7 DEF Declare, Outcome, declared

LEMMA UndeclareOutcome ==
  ASSUME NEW pm, SoundMap(pm), NEW n
  PROVE  SoundMap(Undeclare(pm, n).map)
  BY RestrictedMap DEF Undeclare, Outcome

------------------------------------------------------------------------------
(* set_parameters_atomically. *)

LEMMA StagedMap ==
  ASSUME NEW pm, SoundMap(pm), NEW ps \in Seq(Params)
  PROVE  /\ SoundMap(Staged(pm, ps)) /\ DOMAIN Staged(pm, ps) = NamesIn(ps) \ DOMAIN pm
         /\ \A n \in NamesIn(ps) \ DOMAIN pm : Staged(pm, ps)[n].value = LastOf(ps, n)
<1>1. IsFiniteSet(NamesIn(ps) \ DOMAIN pm) /\ NamesIn(ps) \ DOMAIN pm \subseteq Names
  BY NamesOfList, FS_Difference
<1>2. ASSUME NEW n \in NamesIn(ps) \ DOMAIN pm
      PROVE  /\ Sound([NoInfo EXCEPT !.value = LastOf(ps, n)])
             /\ [NoInfo EXCEPT !.value = LastOf(ps, n)].value = LastOf(ps, n)
  <2>1. LastOf(ps, n) \in Values
    BY LastValue
  <2>2. InRange(NoInfo.descriptor, LastOf(ps, n))
    BY DEF InRange, NoInfo, DefaultDescriptor
  <2>3. Sound([NoInfo EXCEPT !.value = LastOf(ps, n)])
    BY <2>1, <2>2, NoInfoIsSound, ValueInRange
  <2> QED
    BY <2>3 DEF NoInfo
<1> QED
  BY <1>1, <1>2 DEF SoundMap, Staged

\* The list that is set: the given one, but for names that are staged.
LEMMA ListToBeSet ==
  ASSUME NEW pm, SoundMap(pm), NEW ps \in Seq(Params)
  PROVE  LET ts == ToBeSet(ps, Staged(pm, ps))
         IN /\ ts \in Seq(Params) /\ DOMAIN ts = DOMAIN ps /\ NamesIn(ts) = NamesIn(ps)
            /\ \A i \in DOMAIN ps : ts[i].name = ps[i].name
            /\ \A i \in DOMAIN ps : ps[i].name \in DOMAIN pm => ts[i] = ps[i]
<1> DEFINE staged == Staged(pm, ps)
           ts == ToBeSet(ps, staged)
<1>1. /\ SoundMap(staged) /\ DOMAIN staged = NamesIn(ps) \ DOMAIN pm
      /\ \A n \in DOMAIN staged : staged[n].value \in Values
  <2>1. SoundMap(staged) /\ DOMAIN staged = NamesIn(ps) \ DOMAIN pm
    BY StagedMap
  <2> QED
    BY <2>1 DEF SoundMap, Sound
<1> HIDE DEF staged
<1>2. Len(ps) \in Nat /\ DOMAIN ps = 1 .. Len(ps)
  BY ListElements
<1>3. ASSUME NEW i \in DOMAIN ps
      PROVE  /\ ts[i] \in Params /\ ts[i].name = ps[i].name
             /\ ps[i].name \in DOMAIN pm => ts[i] = ps[i]
  <2>1. ps[i] \in Params /\ ps[i].name \in Names /\ ps[i].value \in Values
    BY ListElements
  <2>2. ts[i] = ps[i] \/ (/\ ps[i].name \in DOMAIN staged
                          /\ ts[i] = [ps[i] EXCEPT !.value = staged[ps[i].name].value])
    BY DEF ToBeSet
  <2>3. ASSUME ps[i].name \in DOMAIN staged, NEW v \in Values
        PROVE  [ps[i] EXCEPT !.value = v] \in Params /\ [ps[i] EXCEPT !.value = v].name = ps[i].name
    BY <2>1 DEF Params
  <2> QED
    BY <1>1, <2>1, <2>2, <2>3
<1>4. DOMAIN ts = DOMAIN ps /\ ts = [i \in 1 .. Len(ps) |-> ts[i]]
  BY <1>2 DEF ToBeSet
<1>5. ts \in Seq(Params)
  <2> HIDE DEF ts
  <2> QED
    BY <1>2, <1>3, <1>4, IsASeq
<1>6. NamesIn(ts) = NamesIn(ps)
  BY <1>3, <1>4 DEF NamesIn
<1> QED
  BY <1>3, <1>4, <1>5, <1>6 DEF staged

\* Where set_parameters_atomically ends: refused by name, refused by value, or done.
LEMMA SetAtomicallyCases ==
  ASSUME NEW pm, NEW ps, NEW cb, NEW o, o = SetAtomically(pm, ps, cb)
  PROVE  LET staged == Staged(pm, ps)
             to_set == ToBeSet(ps, staged)
             gone == ToBeUndeclared(pm, to_set)
             set == SetCommon(to_set, pm, cb)
             pm2 == Over(staged, set.map)
             event == Event(TRUE, WithNames(ps, DOMAIN staged),
                            WithNames(to_set, NamesIn(ps) \ (DOMAIN staged \cup gone)), gone)
         IN \/ o.result # "ok" /\ o.map = pm /\ o.published = <<>>
            \/ o.result # "ok" /\ ~set.ok /\ o.map = set.map /\ o.published = <<>>
            \/ /\ o.result = "ok" /\ set.ok /\ o.map = Restrict(pm2, DOMAIN pm2 \ gone)
               /\ o.published = <<event>>
<1> DEFINE staged == Staged(pm, ps)
           to_set == ToBeSet(ps, staged)
           gone == ToBeUndeclared(pm, to_set)
           set == SetCommon(to_set, pm, cb)
           pm2 == Over(staged, set.map)
           event == Event(TRUE, WithNames(ps, DOMAIN staged),
                          WithNames(to_set, NamesIn(ps) \ (DOMAIN staged \cup gone)), gone)
           refused == {i \in DOMAIN ps : ps[i].name \notin DOMAIN pm /\ ~allow_undeclared}
           read_only == ReadOnlyAt(pm, ps)
<1>1. CASE refused \cup read_only # {}
  <2>1. o = Outcome(IF Min(refused \cup read_only) \in refused THEN "throws" ELSE "failed", pm, <<>>)
    BY <1>1 DEF SetAtomically
  <2> HIDE DEF staged, to_set, gone, set, pm2, event, refused, read_only
  <2>2. o.result # "ok" /\ o.map = pm /\ o.published = <<>>
    BY <2>1 DEF Outcome
  <2> QED
    BY <2>2, Zenon
<1>2. CASE refused \cup read_only = {} /\ ~set.ok
  <2>1. o = Outcome("failed", set.map, <<>>)
    BY <1>2 DEF SetAtomically
  <2> QED
    BY <1>2, <2>1 DEF Outcome
<1>3. CASE refused \cup read_only = {} /\ set.ok /\ AssertionFails(pm, to_set)
  <2>1. o = Outcome("aborts", pm, <<>>)
    BY <1>3 DEF SetAtomically
  <2> HIDE DEF staged, to_set, gone, set, pm2, event, refused, read_only
  <2>2. o.result # "ok" /\ o.map = pm /\ o.published = <<>>
    BY <2>1 DEF Outcome
  <2> QED
    BY <2>2, Zenon
<1>4. CASE refused \cup read_only = {} /\ set.ok /\ ~AssertionFails(pm, to_set)
  <2>1. o = Outcome("ok", Restrict(pm2, DOMAIN pm2 \ gone), <<event>>)
    BY <1>4 DEF SetAtomically
  <2> HIDE DEF pm2, event, gone
  <2>2. /\ o.result = "ok" /\ o.map = Restrict(pm2, DOMAIN pm2 \ gone)
        /\ o.published = <<event>>
    BY <2>1 DEF Outcome
  <2> QED
    BY <1>4, <2>2 DEF pm2, event, gone
<1> QED
  BY <1>1, <1>2, <1>3, <1>4

LEMMA SetAtomicallySound ==
  ASSUME NEW pm, SoundMap(pm), NEW ps \in Seq(Params), NEW cb \in BOOLEAN
  PROVE  SoundMap(SetAtomically(pm, ps, cb).map)
<1> DEFINE staged == Staged(pm, ps)
           to_set == ToBeSet(ps, staged)
           gone == ToBeUndeclared(pm, to_set)
           set == SetCommon(to_set, pm, cb)
           pm2 == Over(staged, set.map)
           o == SetAtomically(pm, ps, cb)
<1>1. \/ o.result # "ok" /\ o.map = pm
      \/ o.result # "ok" /\ ~set.ok /\ o.map = set.map
      \/ o.result = "ok" /\ set.ok /\ o.map = Restrict(pm2, DOMAIN pm2 \ gone)
  BY SetAtomicallyCases
<1>2. SoundMap(staged) /\ to_set \in Seq(Params)
  BY StagedMap, ListToBeSet
<1> HIDE DEF staged, to_set, o
<1>3. SoundMap(set.map)
  BY <1>2, SetCommonOutcome
<1> HIDE DEF set, gone
<1>4. SoundMap(pm2)
  BY <1>2, <1>3, OverMap
<1> HIDE DEF pm2
<1>5. SoundMap(Restrict(pm2, DOMAIN pm2 \ gone))
  BY <1>4, RestrictedMap
<1> QED
  BY <1>1, <1>3, <1>5 DEF o

\* A call that does not succeed leaves every value.
LEMMA FailureKeepsValues ==
  ASSUME NEW pm, SoundMap(pm), NEW ps \in Seq(Params), NEW cb \in BOOLEAN,
         NEW o, o = SetAtomically(pm, ps, cb), o.result # "ok"
  PROVE  \A n \in DOMAIN o.map : ValueOf(o.map, n) = ValueOf(pm, n)
<1> DEFINE staged == Staged(pm, ps)
           to_set == ToBeSet(ps, staged)
           set == SetCommon(to_set, pm, cb)
<1>1. o.map = pm \/ (~set.ok /\ o.map = set.map)
  BY SetAtomicallyCases
<1>2. to_set \in Seq(Params)
  BY ListToBeSet
<1> HIDE DEF to_set
<1>3. ~set.ok => \/ set.map = pm
                 \/ \E S \in SUBSET NamesIn(to_set) : IsFiniteSet(S) /\ set.map = Touched(pm, S)
  BY <1>2, SetCommonOutcome
<1> HIDE DEF set
<1>4. ASSUME NEW S \in SUBSET NamesIn(to_set), IsFiniteSet(S)
      PROVE  \A n \in DOMAIN Touched(pm, S) : ValueOf(Touched(pm, S), n) = ValueOf(pm, n)
  <2>1. S \subseteq Names
    BY <1>2, NamesOfList
  <2>2. /\ DOMAIN Touched(pm, S) = DOMAIN pm \cup S
        /\ \A n \in DOMAIN pm : Touched(pm, S)[n] = pm[n]
        /\ \A n \in S \ DOMAIN pm : Touched(pm, S)[n] = NoInfo
    BY <1>4, <2>1, TouchedMap
  <2>3. NoInfo.value = NotSet
    BY DEF NoInfo
  <2> QED
    BY <2>2, <2>3 DEF ValueOf
<1> QED
  BY <1>1, <1>3, <1>4

\* No name is given a value after NOT_SET.
Unrevived(ps) ==
  ~ \E i, j \in DOMAIN ps : /\ i < j /\ ps[i].name = ps[j].name
                            /\ ps[i].value = NotSet /\ ps[j].value # NotSet

\* The names that go are those whose last value is NOT_SET.
LEMMA GoneNames ==
  ASSUME NEW pm, SoundMap(pm), NEW ps \in Seq(Params), Unrevived(ps)
  PROVE  ToBeUndeclared(pm, ToBeSet(ps, Staged(pm, ps))) =
           {n \in NamesIn(ps) : n \in DOMAIN pm /\ LastOf(ps, n) = NotSet /\ pm[n].value # NotSet}
<1> DEFINE to_set == ToBeSet(ps, Staged(pm, ps))
           gone == ToBeUndeclared(pm, to_set)
           deleted == {n \in NamesIn(ps) : /\ n \in DOMAIN pm /\ LastOf(ps, n) = NotSet
                                           /\ pm[n].value # NotSet}
<1>1. /\ DOMAIN to_set = DOMAIN ps /\ \A i \in DOMAIN ps : to_set[i].name = ps[i].name
      /\ \A i \in DOMAIN ps : ps[i].name \in DOMAIN pm => to_set[i] = ps[i]
  BY ListToBeSet
<1> HIDE DEF to_set
<1>2. ASSUME NEW n
      PROVE  n \in gone <=> \E i \in DOMAIN ps : /\ ps[i].name = n /\ ps[i].value = NotSet
                                                 /\ n \in DOMAIN pm /\ pm[n].value # NotSet
  BY <1>1 DEF ToBeUndeclared
<1>3. ASSUME NEW n \in NamesIn(ps)
      PROVE  LastOf(ps, n) = NotSet <=> \E i \in DOMAIN ps : ps[i].name = n /\ ps[i].value = NotSet
  <2>1. PICK l \in DOMAIN ps : /\ ps[l].name = n /\ LastOf(ps, n) = ps[l].value
                               /\ \A j \in DOMAIN ps : ps[j].name = n => j <= l
    BY LastOccurrence
  <2>2. ASSUME NEW i \in DOMAIN ps, ps[i].name = n, ps[i].value = NotSet
        PROVE  ps[l].value = NotSet
    <3>1. i <= l /\ i \in Nat /\ l \in Nat
      BY <2>1, <2>2, ListElements
    <3>2. CASE i = l
      BY <2>2, <3>2
    <3>3. CASE i < l
      BY <2>1, <2>2, <3>3 DEF Unrevived
    <3> QED
      BY <3>1, <3>2, <3>3
  <2> QED
    BY <2>1, <2>2
<1>4. \A n : n \in gone => n \in NamesIn(ps)
  BY <1>2 DEF NamesIn
<1> HIDE DEF gone
<1>5. \A n : n \in gone <=> n \in deleted
  BY <1>2, <1>3, <1>4
<1> QED
  BY <1>5 DEF gone, to_set

\* A declared name has the same last value in the list that is set.
LEMMA LastToBeSet ==
  ASSUME NEW pm, SoundMap(pm), NEW ps \in Seq(Params), NEW n \in NamesIn(ps) \cap DOMAIN pm
  PROVE  LastOf(ToBeSet(ps, Staged(pm, ps)), n) = LastOf(ps, n)
<1> DEFINE to_set == ToBeSet(ps, Staged(pm, ps))
           S == {j \in DOMAIN ps : ps[j].name = n}
<1>1. /\ DOMAIN to_set = DOMAIN ps
      /\ \A i \in DOMAIN ps : to_set[i].name = ps[i].name
      /\ \A i \in DOMAIN ps : ps[i].name \in DOMAIN pm => to_set[i] = ps[i]
  BY ListToBeSet
<1> HIDE DEF to_set
<1>2. S # {} /\ S \subseteq 1 .. Len(ps) /\ Len(ps) \in Nat
  BY ListElements DEF NamesIn
<1>3. Max(S) \in S
  BY <1>2, MaxIsGreatest
<1>4. {j \in DOMAIN to_set : to_set[j].name = n} = S
  BY <1>1
<1>5. LastOf(ps, n) = ps[Max(S)].value /\ LastOf(to_set, n) = to_set[Max(S)].value
  BY <1>4 DEF LastOf
<1>6. to_set[Max(S)] = ps[Max(S)]
  BY <1>1, <1>3
<1> QED
  BY <1>5, <1>6 DEF to_set

\* The names and values after a call that succeeds.
LEMMA AtomicOutcome ==
  ASSUME NEW pm, SoundMap(pm), NEW ps \in Seq(Params), NEW cb \in BOOLEAN,
         NEW o, o = SetAtomically(pm, ps, cb), o.result = "ok"
  PROVE  LET gone == ToBeUndeclared(pm, ToBeSet(ps, Staged(pm, ps)))
         IN /\ gone \subseteq DOMAIN pm \cap NamesIn(ps)
            /\ DOMAIN o.map = (DOMAIN pm \cup NamesIn(ps)) \ gone
            /\ \A n \in DOMAIN o.map :
                 o.map[n].value = IF n \in NamesIn(ps) THEN LastOf(ps, n) ELSE pm[n].value
            /\ \A n \in DOMAIN pm \ NamesIn(ps) : o.map[n] = pm[n]
<1> DEFINE staged == Staged(pm, ps)
           to_set == ToBeSet(ps, staged)
           gone == ToBeUndeclared(pm, to_set)
           set == SetCommon(to_set, pm, cb)
           pm2 == Over(staged, set.map)
           touched == Touched(pm, NamesIn(ps))
           kept == (DOMAIN pm \cup NamesIn(ps)) \ gone
<1>1. set.ok /\ o.map = Restrict(pm2, DOMAIN pm2 \ gone)
  BY SetAtomicallyCases
<1>2. /\ DOMAIN staged = NamesIn(ps) \ DOMAIN pm
      /\ \A n \in NamesIn(ps) \ DOMAIN pm : staged[n].value = LastOf(ps, n)
  BY StagedMap
<1>3. /\ to_set \in Seq(Params) /\ DOMAIN to_set = DOMAIN ps /\ NamesIn(to_set) = NamesIn(ps)
      /\ \A i \in DOMAIN ps : to_set[i].name = ps[i].name
      /\ \A i \in DOMAIN ps : ps[i].name \in DOMAIN pm => to_set[i] = ps[i]
  BY ListToBeSet
<1>4. gone \subseteq DOMAIN pm \cap NamesIn(ps)
  BY <1>3 DEF ToBeUndeclared, NamesIn
<1>5. /\ DOMAIN touched = DOMAIN pm \cup NamesIn(ps)
      /\ \A n \in DOMAIN pm : touched[n] = pm[n]
  BY NamesOfList, TouchedMap
<1> HIDE DEF staged, to_set
<1>6. set.map = Assigned(touched, to_set)
  BY <1>1, <1>3, SetCommonOutcome
<1> HIDE DEF set, gone, touched
<1>7. /\ DOMAIN set.map = DOMAIN pm \cup NamesIn(ps)
      /\ \A n \in DOMAIN pm : n \notin NamesIn(ps) => set.map[n] = pm[n]
      /\ \A n \in DOMAIN pm : n \in NamesIn(ps) => set.map[n].value = LastOf(ps, n)
  <2>1. ASSUME NEW n \in DOMAIN pm, n \in NamesIn(ps)
        PROVE  set.map[n].value = LastOf(ps, n)
    <3>1. set.map[n] = [pm[n] EXCEPT !.value = LastOf(to_set, n)]
      BY <1>3, <1>5, <1>6, <2>1 DEF Assigned
    <3>2. pm[n] \in [value: Values, descriptor: Descriptors]
      BY DEF SoundMap, Sound
    <3>3. set.map[n].value = LastOf(to_set, n)
      BY <3>1, <3>2
    <3>4. LastOf(to_set, n) = LastOf(ps, n)
      BY <2>1, LastToBeSet DEF to_set, staged
    <3> QED
      BY <3>3, <3>4
  <2> QED
    BY <1>3, <1>5, <1>6, <2>1 DEF Assigned
<1>8. /\ DOMAIN pm2 = DOMAIN pm \cup NamesIn(ps)
      /\ \A n \in DOMAIN pm2 : pm2[n].value = IF n \in NamesIn(ps) THEN LastOf(ps, n) ELSE pm[n].value
  <2>1. DOMAIN pm2 = DOMAIN pm \cup NamesIn(ps)
    BY <1>2, <1>7 DEF Over
  <2>2. ASSUME NEW n \in DOMAIN pm2
        PROVE  pm2[n].value = IF n \in NamesIn(ps) THEN LastOf(ps, n) ELSE pm[n].value
    <3>1. CASE n \in DOMAIN pm
      <4>1. pm2[n] = set.map[n]
        BY <1>2, <1>7, <3>1 DEF Over
      <4> QED
        BY <1>7, <3>1, <4>1
    <3>2. CASE n \in NamesIn(ps) \ DOMAIN pm
      <4>1. pm2[n] = staged[n]
        BY <1>2, <3>2 DEF Over
      <4> QED
        BY <1>2, <3>2, <4>1
    <3> QED
      BY <2>1, <3>1, <3>2
  <2> QED
    BY <2>1, <2>2
<1>11. \A n \in DOMAIN pm \ NamesIn(ps) : pm2[n] = pm[n]
  BY <1>2, <1>7 DEF Over
<1> HIDE DEF pm2
<1>9. DOMAIN o.map = kept /\ \A n \in kept : o.map[n] = pm2[n]
  BY <1>1, <1>8 DEF Restrict
<1>10. \A n \in kept : o.map[n].value = IF n \in NamesIn(ps) THEN LastOf(ps, n) ELSE pm[n].value
  BY <1>8, <1>9
<1>12. \A n \in DOMAIN pm \ NamesIn(ps) : o.map[n] = pm[n]
  BY <1>4, <1>9, <1>11
<1> QED
  BY <1>4, <1>9, <1>10, <1>12 DEF gone, to_set, staged

\* A call that succeeds gives each name its last value, and removes the others.
LEMMA SuccessKeepsPromise ==
  ASSUME NEW pm, SoundMap(pm), NEW ps \in Seq(Params), NEW cb \in BOOLEAN,
         NEW o, o = SetAtomically(pm, ps, cb), o.result = "ok", Unrevived(ps)
  PROVE  [n \in DOMAIN o.map |-> o.map[n].value] = Promised(pm, ps)
<1> DEFINE gone == ToBeUndeclared(pm, ToBeSet(ps, Staged(pm, ps)))
           kept == (DOMAIN pm \cup NamesIn(ps)) \ gone
<1>1. /\ DOMAIN o.map = kept
      /\ \A n \in kept : o.map[n].value = IF n \in NamesIn(ps) THEN LastOf(ps, n) ELSE pm[n].value
  BY AtomicOutcome
<1>2. gone = {n \in NamesIn(ps) : n \in DOMAIN pm /\ LastOf(ps, n) = NotSet /\ pm[n].value # NotSet}
  BY GoneNames
<1>3. Promised(pm, ps) = [n \in kept |-> IF n \in NamesIn(ps) THEN LastOf(ps, n) ELSE pm[n].value]
  BY <1>2 DEF Promised
<1> HIDE DEF kept
<1> QED
  BY <1>1, <1>3

LEMMA SuccessIsWritable ==
  ASSUME NEW pm, NEW ps, NEW cb, SetAtomically(pm, ps, cb).result = "ok",
         NEW n \in NamesIn(ps), n \in DOMAIN pm
  PROVE  ~pm[n].descriptor.read_only
<1> DEFINE refused == {i \in DOMAIN ps : ps[i].name \notin DOMAIN pm /\ ~allow_undeclared}
           read_only == ReadOnlyAt(pm, ps)
<1>1. ASSUME refused \cup read_only # {}
      PROVE  FALSE
  <2>1. SetAtomically(pm, ps, cb) =
          Outcome(IF Min(refused \cup read_only) \in refused THEN "throws" ELSE "failed", pm, <<>>)
    BY <1>1 DEF SetAtomically
  <2> HIDE DEF refused, read_only
  <2>2. SetAtomically(pm, ps, cb).result # "ok"
    BY <2>1 DEF Outcome
  <2> QED
    BY <2>2
<1> HIDE DEF refused
<1> QED
  BY <1>1 DEF NamesIn, ReadOnlyAt

\* What a call leaves of a read-only parameter: all of it.
LEMMA SetKeepsReadOnly ==
  ASSUME NEW pm, SoundMap(pm), NEW ps \in Seq(Params), NEW cb \in BOOLEAN,
         NEW n \in DOMAIN pm, pm[n].descriptor.read_only
  PROVE  LET o == SetAtomically(pm, ps, cb) IN n \in DOMAIN o.map /\ o.map[n] = pm[n]
<1> DEFINE o == SetAtomically(pm, ps, cb)
           to_set == ToBeSet(ps, Staged(pm, ps))
           set == SetCommon(to_set, pm, cb)
<1>1. \/ o.result # "ok" /\ o.map = pm
      \/ o.result # "ok" /\ ~set.ok /\ o.map = set.map
      \/ o.result = "ok" /\ n \notin NamesIn(ps)
  <2>1. o.result = "ok" => n \notin NamesIn(ps)
    BY SuccessIsWritable
  <2>2. o.result # "ok" => o.map = pm \/ (~set.ok /\ o.map = set.map)
    BY SetAtomicallyCases
  <2> HIDE DEF o, set
  <2> QED
    BY <2>1, <2>2
<1>2. to_set \in Seq(Params)
  BY ListToBeSet
<1> HIDE DEF to_set
<1>3. ~set.ok => \/ set.map = pm
                 \/ \E S \in SUBSET NamesIn(to_set) : IsFiniteSet(S) /\ set.map = Touched(pm, S)
  BY <1>2, SetCommonOutcome
<1> HIDE DEF set
<1>4. ASSUME NEW S \in SUBSET NamesIn(to_set), IsFiniteSet(S)
      PROVE  n \in DOMAIN Touched(pm, S) /\ Touched(pm, S)[n] = pm[n]
  <2>1. S \subseteq Names
    BY <1>2, NamesOfList
  <2>2. DOMAIN Touched(pm, S) = DOMAIN pm \cup S /\ \A m \in DOMAIN pm : Touched(pm, S)[m] = pm[m]
    BY <1>4, <2>1, TouchedMap
  <2> QED
    BY <2>2
<1>5. ASSUME o.result = "ok", n \notin NamesIn(ps)
      PROVE  n \in DOMAIN o.map /\ o.map[n] = pm[n]
  <2> DEFINE gone == ToBeUndeclared(pm, ToBeSet(ps, Staged(pm, ps)))
  <2>1. /\ gone \subseteq DOMAIN pm \cap NamesIn(ps)
        /\ DOMAIN o.map = (DOMAIN pm \cup NamesIn(ps)) \ gone
        /\ \A m \in DOMAIN pm \ NamesIn(ps) : o.map[m] = pm[m]
    BY <1>5, AtomicOutcome
  <2> HIDE DEF o, gone
  <2> QED
    BY <1>5, <2>1
<1> HIDE DEF o
<1> QED
  BY <1>1, <1>3, <1>4, <1>5 DEF o

LEMMA DeclareKeepsReadOnly ==
  ASSUME NEW pm, NEW m, NEW default, NEW descriptor, NEW cb, NEW n \in DOMAIN pm
  PROVE  LET o == Declare(pm, m, default, descriptor, cb) IN n \in DOMAIN o.map /\ o.map[n] = pm[n]
<1> DEFINE o == Declare(pm, m, default, descriptor, cb)
           declared == DeclareCommon(m, default, descriptor, pm, cb, TRUE)
<1>1. \E info : declared.map = Over(Entry(m, info), pm)
  BY DEF DeclareCommon
<1> HIDE DEF declared
<1>2. o.map = pm \/ (m \notin DOMAIN pm /\ o.map = declared.map)
  BY DEF Declare, Outcome, declared
<1> HIDE DEF o
<1>3. ASSUME m \notin DOMAIN pm, NEW info
      PROVE  /\ n \in DOMAIN Over(Entry(m, info), pm)
             /\ Over(Entry(m, info), pm)[n] = pm[n]
  BY <1>3 DEF Over, Entry
<1> QED
  BY <1>1, <1>2, <1>3 DEF o

LEMMA UndeclareKeepsReadOnly ==
  ASSUME NEW pm, NEW m, NEW n \in DOMAIN pm, pm[n].descriptor.read_only
  PROVE  LET o == Undeclare(pm, m) IN n \in DOMAIN o.map /\ o.map[n] = pm[n]
  BY DEF Undeclare, Outcome, Restrict

\* A longer name is not below a depth of one.
LEMMA ExactName ==
  ASSUME NEW pm, DOMAIN pm \subseteq Names, NEW n \in Names
  PROVE  HasParameter(pm, n) <=> n \in DOMAIN pm
<1>1. ASSUME NEW m \in DOMAIN pm, IsStrictPrefix(n, m)
      PROVE  ~(Len(m) - Len(n) < 1)
  <2>1. m \in Names /\ n # m /\ IsPrefix(n, m)
    BY <1>1 DEF IsStrictPrefix
  <2>2. Len(m) \in Nat /\ Len(n) \in Nat
    BY <2>1, LenProperties DEF Names
  <2>3. Len(n) <= Len(m) /\ SubSeq(n, 1, Len(n)) = SubSeq(m, 1, Len(n))
    BY <2>1 DEF IsPrefix
  <2>4. SubSeq(n, 1, Len(n)) = n /\ SubSeq(m, 1, Len(m)) = m
    BY <2>1, SubSeqFull DEF Names
  <2>5. Len(n) # Len(m)
    BY <2>1, <2>3, <2>4
  <2> QED
    BY <2>2, <2>3, <2>5
<1>2. n \in ListParameters(pm, {n}, 1) <=> n \in DOMAIN pm
  BY DEF ListParameters
<1>3. ListParameters(pm, {n}, 1) \subseteq {n}
  BY <1>1 DEF ListParameters
<1> QED
  BY <1>2, <1>3 DEF HasParameter

------------------------------------------------------------------------------
(* The parameters of a list that have a name. *)

\* What holds of 0, and of each number after one it holds of, holds of all.  (A
\* set stands for the property: the provers take no operator.)
LEMMA UpTo ==
  ASSUME NEW N \in Nat, NEW S, 0 \in S, \A i \in 1 .. N : i - 1 \in S => i \in S
  PROVE  \A i \in 0 .. N : i \in S
<1> SUFFICES ASSUME {i \in 0 .. N : i \notin S} # {}
             PROVE  FALSE
  OBVIOUS
<1>1. {i \in 0 .. N : i \notin S} \subseteq Nat
  OBVIOUS
<1>2. PICK m \in {i \in 0 .. N : i \notin S} : \A y \in {i \in 0 .. N : i \notin S} : m <= y
  BY <1>1, LeastExists
<1>3. m \in 1 .. N /\ m - 1 \in 0 .. N
  BY <1>2
<1> QED
  BY <1>2, <1>3

\* What WithNames has found after i elements, as a step from i - 1.
StepOf(ps, names, found, i) ==
  IF i = 0 THEN <<>>
  ELSE IF ps[i].name \in names THEN Append(found[i - 1], ps[i]) ELSE found[i - 1]

\* The recursive function of WithNames exists.
LEMMA FoundExists ==
  ASSUME NEW ps, NEW names, NEW N \in Nat
  PROVE  \E f : f = [i \in 0 .. N |-> StepOf(ps, names, f, i)]
<1> DEFINE S == {n \in 0 .. N : \E f : f = [i \in 0 .. n |-> StepOf(ps, names, f, i)]}
<1>1. 0 \in S
  <2> DEFINE f == [i \in 0 .. 0 |-> <<>>]
  <2>1. f = [i \in 0 .. 0 |-> StepOf(ps, names, f, i)]
    BY DEF StepOf
  <2> QED
    BY <2>1
<1>2. ASSUME NEW n \in 1 .. N, n - 1 \in S
      PROVE  n \in S
  <2>1. PICK f : f = [i \in 0 .. n - 1 |-> StepOf(ps, names, f, i)]
    BY <1>2
  <2> DEFINE g == [i \in 0 .. n |-> IF i = n THEN StepOf(ps, names, f, n) ELSE f[i]]
  <2>2. ASSUME NEW i \in 0 .. n
        PROVE  StepOf(ps, names, g, i) = StepOf(ps, names, f, i)
    <3>1. i # 0 => i - 1 \in 0 .. n /\ i - 1 # n
      OBVIOUS
    <3>2. i # 0 => g[i - 1] = f[i - 1]
      BY <3>1
    <3> HIDE DEF g
    <3> QED
      BY <3>2 DEF StepOf
  <2>3. ASSUME NEW i \in 0 .. n
        PROVE  g[i] = StepOf(ps, names, f, i)
    <3>1. i # n => i \in 0 .. n - 1
      OBVIOUS
    <3>2. i # n => f[i] = StepOf(ps, names, f, i)
      BY <2>1, <3>1
    <3> QED
      BY <3>2
  <2>4. g = [i \in 0 .. n |-> g[i]]
    OBVIOUS
  <2> HIDE DEF g
  <2>5. g = [i \in 0 .. n |-> StepOf(ps, names, g, i)]
    BY <2>2, <2>3, <2>4
  <2> QED
    BY <2>5
<1> HIDE DEF S
<1>3. \A i \in 0 .. N : i \in S
  BY <1>1, <1>2, UpTo
<1>4. N \in S
  BY <1>3
<1> QED
  BY <1>4 DEF S

LEMMA FoundStep ==
  ASSUME NEW ps, NEW names, Len(ps) \in Nat
  PROVE  \E f : /\ f = [i \in 0 .. Len(ps) |-> StepOf(ps, names, f, i)]
                /\ WithNames(ps, names) = f[Len(ps)]
<1> DEFINE g == CHOOSE f : f = [i \in 0 .. Len(ps) |->
                  IF i = 0 THEN <<>>
                  ELSE IF ps[i].name \in names THEN Append(f[i - 1], ps[i]) ELSE f[i - 1]]
<1>1. \E f : f = [i \in 0 .. Len(ps) |-> StepOf(ps, names, f, i)]
  BY FoundExists
<1>2. \E f : f = [i \in 0 .. Len(ps) |->
                  IF i = 0 THEN <<>>
                  ELSE IF ps[i].name \in names THEN Append(f[i - 1], ps[i]) ELSE f[i - 1]]
  BY <1>1 DEF StepOf
<1>3. g = [i \in 0 .. Len(ps) |->
                  IF i = 0 THEN <<>>
                  ELSE IF ps[i].name \in names THEN Append(g[i - 1], ps[i]) ELSE g[i - 1]]
  BY <1>2
<1>4. WithNames(ps, names) = g[Len(ps)]
  BY DEF WithNames
<1> HIDE DEF g
<1>5. g = [i \in 0 .. Len(ps) |-> StepOf(ps, names, g, i)]
  BY <1>3 DEF StepOf
<1> QED
  BY <1>4, <1>5

\* s is what is found in the first i elements of ps.
FoundIn(ps, names, s, i) ==
  /\ s \in Seq(Params)
  /\ \A k \in 1 .. Len(s) : s[k].name \in names
  /\ \A k \in 1 .. Len(s) : \E j \in 1 .. i : s[k] = ps[j]
  /\ \A j \in 1 .. i : ps[j].name \in names => \E k \in 1 .. Len(s) : s[k].name = ps[j].name
  /\ \A j \in 1 .. i :
       /\ ps[j].name \in names
       /\ \A l \in 1 .. i : ps[l].name = ps[j].name => l <= j
       => \E k \in 1 .. Len(s) :
            s[k] = ps[j] /\ \A l \in 1 .. Len(s) : s[l].name = ps[j].name => l <= k

LEMMA FoundNext ==
  ASSUME NEW ps \in Seq(Params), NEW names, NEW i \in 1 .. Len(ps), NEW s,
         FoundIn(ps, names, s, i - 1)
  PROVE  FoundIn(ps, names, IF ps[i].name \in names THEN Append(s, ps[i]) ELSE s, i)
<1>0. Len(ps) \in Nat /\ ps[i] \in Params
  BY LenProperties, ElementOfSeq
<1>1. s \in Seq(Params) /\ Len(s) \in Nat
  BY LenProperties DEF FoundIn
<1>2. CASE ps[i].name \notin names
  <2>1. \A j \in 1 .. i : ps[j].name \in names => j \in 1 .. i - 1
    BY <1>0, <1>2
  <2>2. \A j \in 1 .. i - 1 : j \in 1 .. i
    BY <1>0
  <2>3. /\ \A k \in 1 .. Len(s) : s[k].name \in names
        /\ \A k \in 1 .. Len(s) : \E j \in 1 .. i : s[k] = ps[j]
        /\ \A j \in 1 .. i : ps[j].name \in names => \E k \in 1 .. Len(s) : s[k].name = ps[j].name
    BY <2>1, <2>2 DEF FoundIn
  <2>4. ASSUME NEW j \in 1 .. i, ps[j].name \in names,
               \A l \in 1 .. i : ps[l].name = ps[j].name => l <= j
        PROVE  \E k \in 1 .. Len(s) :
                 s[k] = ps[j] /\ \A l \in 1 .. Len(s) : s[l].name = ps[j].name => l <= k
    <3>1. j \in 1 .. i - 1 /\ \A l \in 1 .. i - 1 : ps[l].name = ps[j].name => l <= j
      BY <2>1, <2>2, <2>4
    <3> QED
      BY <2>4, <3>1 DEF FoundIn
  <2>5. FoundIn(ps, names, s, i)
    BY <1>1, <2>3, <2>4 DEF FoundIn
  <2> QED
    BY <1>2, <2>5
<1>3. CASE ps[i].name \in names
  <2> DEFINE t == Append(s, ps[i])
  <2>1. /\ t \in Seq(Params) /\ Len(t) = Len(s) + 1
        /\ \A k \in 1 .. Len(s) : t[k] = s[k]
        /\ t[Len(s) + 1] = ps[i]
    BY <1>0, <1>1, AppendProperties
  <2> HIDE DEF t
  <2>2. \A k \in 1 .. Len(t) : k \in 1 .. Len(s) \/ (k = Len(s) + 1 /\ t[k] = ps[i])
    BY <1>1, <2>1
  <2>3. \A j \in 1 .. i : j \in 1 .. i - 1 \/ j = i
    BY <1>0
  <2>4. /\ Len(t) \in 1 .. Len(t) /\ \A k \in 1 .. Len(s) : k \in 1 .. Len(t)
        /\ i \in 1 .. i /\ \A j \in 1 .. i - 1 : j \in 1 .. i
        /\ t[Len(t)] = ps[i]
    BY <1>0, <1>1, <2>1
  <2>5. \A k \in 1 .. Len(t) : t[k].name \in names
    BY <1>3, <2>1, <2>2 DEF FoundIn
  <2>6. \A k \in 1 .. Len(t) : \E j \in 1 .. i : t[k] = ps[j]
    BY <2>1, <2>2, <2>4 DEF FoundIn
  <2>7. ASSUME NEW j \in 1 .. i, ps[j].name \in names
        PROVE  \E k \in 1 .. Len(t) : t[k].name = ps[j].name
    <3>1. CASE j = i
      BY <2>4, <3>1
    <3>2. CASE j \in 1 .. i - 1
      <4>1. PICK k \in 1 .. Len(s) : s[k].name = ps[j].name
        BY <2>7, <3>2 DEF FoundIn
      <4> QED
        BY <2>1, <2>4, <4>1
    <3> QED
      BY <2>3, <3>1, <3>2
  <2>8. ASSUME NEW j \in 1 .. i, ps[j].name \in names,
               \A l \in 1 .. i : ps[l].name = ps[j].name => l <= j
        PROVE  \E k \in 1 .. Len(t) :
                 t[k] = ps[j] /\ \A l \in 1 .. Len(t) : t[l].name = ps[j].name => l <= k
    <3>1. CASE j = i
      <4>1. \A l \in 1 .. Len(t) : l <= Len(t)
        OBVIOUS
      <4> QED
        BY <2>4, <3>1, <4>1
    <3>2. CASE j \in 1 .. i - 1
      <4>1. ps[i].name # ps[j].name
        <5>1. ps[i].name = ps[j].name => i <= j
          BY <2>4, <2>8
        <5> QED
          BY <1>0, <3>2, <5>1
      <4>2. \A l \in 1 .. i - 1 : ps[l].name = ps[j].name => l <= j
        BY <2>4, <2>8
      <4>3. PICK k \in 1 .. Len(s) :
              s[k] = ps[j] /\ \A l \in 1 .. Len(s) : s[l].name = ps[j].name => l <= k
        BY <2>8, <3>2, <4>2 DEF FoundIn
      <4>4. \A l \in 1 .. Len(t) : t[l].name = ps[j].name => l <= k
        BY <2>1, <2>2, <4>1, <4>3
      <4> QED
        BY <2>1, <2>4, <4>3, <4>4
    <3> QED
      BY <2>3, <3>1, <3>2
  <2>9. FoundIn(ps, names, t, i)
    BY <2>1, <2>5, <2>6, <2>7, <2>8 DEF FoundIn
  <2> QED
    BY <1>3, <2>9 DEF t
<1> QED
  BY <1>2, <1>3

\* WithNames keeps what a list says of the names.
LEMMA ListWithNames ==
  ASSUME NEW ps \in Seq(Params), NEW names
  PROVE  LET ws == WithNames(ps, names)
         IN /\ ws \in Seq(Params)
            /\ NamesIn(ws) = NamesIn(ps) \cap names
            /\ \A n \in NamesIn(ws) : LastOf(ws, n) = LastOf(ps, n)
<1> DEFINE ws == WithNames(ps, names)
<1>1. Len(ps) \in Nat /\ DOMAIN ps = 1 .. Len(ps)
  BY LenProperties
<1>2. PICK f : /\ f = [i \in 0 .. Len(ps) |-> StepOf(ps, names, f, i)]
               /\ ws = f[Len(ps)]
  BY <1>1, FoundStep
<1>3. \A i \in 0 .. Len(ps) : f[i] = StepOf(ps, names, f, i)
  BY <1>2
<1> DEFINE S == {i \in 0 .. Len(ps) : FoundIn(ps, names, f[i], i)}
<1>4. 0 \in S
  <2>1. f[0] = <<>> /\ 0 \in 0 .. Len(ps)
    BY <1>1, <1>3 DEF StepOf
  <2>2. <<>> \in Seq(Params) /\ Len(<<>>) = 0 /\ 1 .. 0 = {}
    BY EmptySeq
  <2>3. FoundIn(ps, names, <<>>, 0)
    BY <2>2 DEF FoundIn
  <2> QED
    BY <2>1, <2>3
<1>5. ASSUME NEW i \in 1 .. Len(ps), i - 1 \in S
      PROVE  i \in S
  <2>1. f[i] = IF ps[i].name \in names THEN Append(f[i - 1], ps[i]) ELSE f[i - 1]
    BY <1>1, <1>3 DEF StepOf
  <2>2. FoundIn(ps, names, f[i], i)
    BY <1>5, <2>1, FoundNext
  <2> QED
    BY <1>1, <2>2
<1> HIDE DEF S
<1>6. Len(ps) \in S
  <2>1. \A i \in 0 .. Len(ps) : i \in S
    BY <1>1, <1>4, <1>5, UpTo
  <2> QED
    BY <1>1, <2>1
<1>7. FoundIn(ps, names, ws, Len(ps))
  BY <1>2, <1>6 DEF S
<1> HIDE DEF ws
<1>8. ws \in Seq(Params) /\ Len(ws) \in Nat /\ DOMAIN ws = 1 .. Len(ws)
  BY <1>7, LenProperties DEF FoundIn
<1>9. NamesIn(ws) = NamesIn(ps) \cap names
  <2>1. ASSUME NEW n \in NamesIn(ws)
        PROVE  n \in NamesIn(ps) \cap names
    <3>1. PICK k \in 1 .. Len(ws) : ws[k].name = n
      BY <1>8, <2>1 DEF NamesIn
    <3>2. \E j \in 1 .. Len(ps) : ps[j] = ws[k] /\ ps[j].name \in names
      BY <1>7 DEF FoundIn
    <3> QED
      BY <1>1, <3>1, <3>2 DEF NamesIn
  <2>2. ASSUME NEW n \in NamesIn(ps) \cap names
        PROVE  n \in NamesIn(ws)
    <3>1. PICK j \in 1 .. Len(ps) : ps[j].name = n
      BY <1>1, <2>2 DEF NamesIn
    <3>2. \E k \in 1 .. Len(ws) : ws[k].name = ps[j].name
      BY <1>7, <2>2, <3>1 DEF FoundIn
    <3> QED
      BY <1>8, <3>1, <3>2 DEF NamesIn
  <2> QED
    BY <2>1, <2>2
<1>10. ASSUME NEW n \in NamesIn(ws)
       PROVE  LastOf(ws, n) = LastOf(ps, n)
  <2>1. PICK i \in DOMAIN ws : /\ ws[i].name = n /\ LastOf(ws, n) = ws[i].value
                               /\ \A j \in DOMAIN ws : ws[j].name = n => j <= i
    BY <1>8, <1>10, LastOccurrence
  <2>2. n \in NamesIn(ps) /\ n \in names
    BY <1>9, <1>10
  <2>3. PICK j \in DOMAIN ps : /\ ps[j].name = n /\ LastOf(ps, n) = ps[j].value
                               /\ \A l \in DOMAIN ps : ps[l].name = n => l <= j
    BY <2>2, LastOccurrence
  <2>4. PICK k \in 1 .. Len(ws) :
          ws[k] = ps[j] /\ \A l \in 1 .. Len(ws) : ws[l].name = ps[j].name => l <= k
    BY <1>1, <1>7, <2>2, <2>3 DEF FoundIn
  <2>5. i = k
    BY <1>8, <2>1, <2>3, <2>4
  <2> QED
    BY <2>1, <2>3, <2>4, <2>5
<1> QED
  BY <1>8, <1>9, <1>10 DEF ws

------------------------------------------------------------------------------
(* The event of set_parameters_atomically. *)

LEMMA LastUnique ==
  ASSUME NEW ps \in Seq(Params), NEW i \in DOMAIN ps,
         \A j \in DOMAIN ps : ps[j].name = ps[i].name => j <= i
  PROVE  LastOf(ps, ps[i].name) = ps[i].value
<1>1. ps[i].name \in NamesIn(ps)
  BY DEF NamesIn
<1>2. PICK l \in DOMAIN ps :
        /\ ps[l].name = ps[i].name /\ LastOf(ps, ps[i].name) = ps[l].value
        /\ \A j \in DOMAIN ps : ps[j].name = ps[i].name => j <= l
  BY <1>1, LastOccurrence
<1>3. Len(ps) \in Nat /\ DOMAIN ps = 1 .. Len(ps)
  BY LenProperties
<1>4. l = i
  BY <1>2, <1>3
<1> QED
  BY <1>2, <1>4

\* Of two lists the second has the last word.
LEMMA LastOfBoth ==
  ASSUME NEW ps \in Seq(Params), NEW qs \in Seq(Params)
  PROVE  /\ ps \o qs \in Seq(Params) /\ NamesIn(ps \o qs) = NamesIn(ps) \cup NamesIn(qs)
         /\ \A n \in NamesIn(qs) : LastOf(ps \o qs, n) = LastOf(qs, n)
         /\ \A n \in NamesIn(ps) \ NamesIn(qs) : LastOf(ps \o qs, n) = LastOf(ps, n)
<1> DEFINE both == ps \o qs
<1>1. /\ Len(ps) \in Nat /\ DOMAIN ps = 1 .. Len(ps)
      /\ Len(qs) \in Nat /\ DOMAIN qs = 1 .. Len(qs)
  BY LenProperties
<1>2. /\ both \in Seq(Params) /\ Len(both) = Len(ps) + Len(qs)
      /\ \A i \in 1 .. Len(ps) + Len(qs) :
           both[i] = IF i <= Len(ps) THEN ps[i] ELSE qs[i - Len(ps)]
  BY ConcatProperties
<1>3. DOMAIN both = 1 .. Len(ps) + Len(qs)
  BY <1>2, LenProperties
<1> HIDE DEF both
<1>4. \A i \in 1 .. Len(ps) : i \in DOMAIN both /\ both[i] = ps[i]
  BY <1>1, <1>2, <1>3
<1>5. \A i \in 1 .. Len(qs) : Len(ps) + i \in DOMAIN both /\ both[Len(ps) + i] = qs[i]
  <2> SUFFICES ASSUME NEW i \in 1 .. Len(qs)
               PROVE  Len(ps) + i \in DOMAIN both /\ both[Len(ps) + i] = qs[i]
    OBVIOUS
  <2>1. /\ Len(ps) + i \in 1 .. Len(ps) + Len(qs) /\ ~(Len(ps) + i <= Len(ps))
        /\ (Len(ps) + i) - Len(ps) = i
    BY <1>1
  <2>2. both[Len(ps) + i] = qs[(Len(ps) + i) - Len(ps)]
    BY <1>2, <2>1
  <2> QED
    BY <1>3, <2>1, <2>2
<1>6. \A k \in DOMAIN both : \/ k \in 1 .. Len(ps) /\ both[k] = ps[k]
                             \/ k - Len(ps) \in 1 .. Len(qs) /\ both[k] = qs[k - Len(ps)]
  BY <1>1, <1>2, <1>3
<1>7. NamesIn(both) = NamesIn(ps) \cup NamesIn(qs)
  <2>1. \A n \in NamesIn(both) : n \in NamesIn(ps) \cup NamesIn(qs)
    BY <1>1, <1>6 DEF NamesIn
  <2>2. \A n \in NamesIn(ps) \cup NamesIn(qs) : n \in NamesIn(both)
    BY <1>1, <1>4, <1>5 DEF NamesIn
  <2> QED
    BY <2>1, <2>2
<1>8. ASSUME NEW n \in NamesIn(qs)
      PROVE  LastOf(both, n) = LastOf(qs, n)
  <2>1. PICK i \in DOMAIN qs : /\ qs[i].name = n /\ LastOf(qs, n) = qs[i].value
                               /\ \A j \in DOMAIN qs : qs[j].name = n => j <= i
    BY <1>8, LastOccurrence
  <2>2. Len(ps) + i \in DOMAIN both /\ both[Len(ps) + i] = qs[i]
    BY <1>1, <1>5, <2>1
  <2>3. \A k \in DOMAIN both : both[k].name = n => k <= Len(ps) + i
    <3> SUFFICES ASSUME NEW k \in DOMAIN both, both[k].name = n
                 PROVE  k <= Len(ps) + i
      OBVIOUS
    <3>1. CASE k \in 1 .. Len(ps)
      BY <1>1, <2>1, <3>1
    <3>2. CASE k - Len(ps) \in 1 .. Len(qs) /\ both[k] = qs[k - Len(ps)]
      <4>1. k - Len(ps) <= i
        BY <1>1, <2>1, <3>2
      <4> QED
        BY <1>1, <1>3, <2>1, <4>1
    <3> QED
      BY <1>6, <3>1, <3>2
  <2>4. LastOf(both, n) = both[Len(ps) + i].value
    BY <1>2, <2>1, <2>2, <2>3, LastUnique
  <2> QED
    BY <2>1, <2>2, <2>4
<1>9. ASSUME NEW n \in NamesIn(ps) \ NamesIn(qs)
      PROVE  LastOf(both, n) = LastOf(ps, n)
  <2>1. PICK i \in DOMAIN ps : /\ ps[i].name = n /\ LastOf(ps, n) = ps[i].value
                               /\ \A j \in DOMAIN ps : ps[j].name = n => j <= i
    BY <1>9, LastOccurrence
  <2>2. i \in DOMAIN both /\ both[i] = ps[i]
    BY <1>1, <1>4, <2>1
  <2>3. \A k \in DOMAIN both : both[k].name = n => k <= i
    BY <1>1, <1>6, <1>9, <2>1 DEF NamesIn
  <2>4. LastOf(both, n) = both[i].value
    BY <1>2, <2>1, <2>2, <2>3, LastUnique
  <2> QED
    BY <2>1, <2>2, <2>4
<1> QED
  BY <1>2, <1>7, <1>8, <1>9 DEF both

\* An event carries lists of parameters.
ParameterEvents ==
  [named: BOOLEAN, new: Seq(Params), changed: Seq(Params), deleted: SUBSET Names]

\* What an event tells of a name: its value in the map, or nothing, and then the
\* value has not changed or there is none any more.
TellsOf(e, n, before, after) ==
  IF n \in NamesIn(e.new \o e.changed)
  THEN ValueOf(after, n) = LastOf(e.new \o e.changed, n)
  ELSE ValueOf(after, n) \in {ValueOf(before, n), NotSet}

LEMMA FailureTells ==
  ASSUME NEW pm, SoundMap(pm), NEW ps \in Seq(Params), NEW cb \in BOOLEAN,
         NEW o, o = SetAtomically(pm, ps, cb), o.result # "ok"
  PROVE  o.published = <<>> /\ \A n : ValueOf(o.map, n) = ValueOf(pm, n)
<1> DEFINE staged == Staged(pm, ps)
           to_set == ToBeSet(ps, staged)
           set == SetCommon(to_set, pm, cb)
<1>1. o.published = <<>> /\ (o.map = pm \/ (~set.ok /\ o.map = set.map))
  BY SetAtomicallyCases
<1>2. to_set \in Seq(Params)
  BY ListToBeSet
<1> HIDE DEF to_set
<1>3. ~set.ok => \/ set.map = pm
                 \/ \E S \in SUBSET NamesIn(to_set) : IsFiniteSet(S) /\ set.map = Touched(pm, S)
  BY <1>2, SetCommonOutcome
<1> HIDE DEF set
<1>4. ASSUME NEW S \in SUBSET NamesIn(to_set), IsFiniteSet(S)
      PROVE  \A n : ValueOf(Touched(pm, S), n) = ValueOf(pm, n)
  <2>1. S \subseteq Names
    BY <1>2, NamesOfList
  <2>2. /\ DOMAIN Touched(pm, S) = DOMAIN pm \cup S
        /\ \A n \in DOMAIN pm : Touched(pm, S)[n] = pm[n]
        /\ \A n \in S \ DOMAIN pm : Touched(pm, S)[n] = NoInfo
    BY <1>4, <2>1, TouchedMap
  <2>3. NoInfo.value = NotSet
    BY DEF NoInfo
  <2> QED
    BY <2>2, <2>3 DEF ValueOf
<1> QED
  BY <1>1, <1>3, <1>4

LEMMA SuccessTells ==
  ASSUME NEW pm, SoundMap(pm), NEW ps \in Seq(Params), NEW cb \in BOOLEAN,
         NEW o, o = SetAtomically(pm, ps, cb), o.result = "ok"
  PROVE  \E e \in ParameterEvents :
           /\ o.published = <<e>> /\ e.named
           /\ \A n : TellsOf(e, n, pm, o.map)
<1> DEFINE staged == Staged(pm, ps)
           to_set == ToBeSet(ps, staged)
           gone == ToBeUndeclared(pm, to_set)
           new == WithNames(ps, DOMAIN staged)
           changed == WithNames(to_set, NamesIn(ps) \ (DOMAIN staged \cup gone))
           e == Event(TRUE, new, changed, gone)
<1>1. o.published = <<e>>
  BY SetAtomicallyCases
<1>2. /\ gone \subseteq DOMAIN pm \cap NamesIn(ps)
      /\ DOMAIN o.map = (DOMAIN pm \cup NamesIn(ps)) \ gone
      /\ \A n \in DOMAIN o.map :
           o.map[n].value = IF n \in NamesIn(ps) THEN LastOf(ps, n) ELSE pm[n].value
  BY AtomicOutcome
<1>3. DOMAIN staged = NamesIn(ps) \ DOMAIN pm
  BY StagedMap
<1>4. /\ to_set \in Seq(Params) /\ NamesIn(to_set) = NamesIn(ps)
      /\ \A n \in NamesIn(ps) \cap DOMAIN pm : LastOf(to_set, n) = LastOf(ps, n)
  BY ListToBeSet, LastToBeSet
<1>5. e = [named |-> TRUE, new |-> new, changed |-> changed, deleted |-> gone]
  BY DEF Event
<1> HIDE DEF staged, to_set, gone
<1>6. /\ new \in Seq(Params) /\ NamesIn(new) = NamesIn(ps) \ DOMAIN pm
      /\ \A n \in NamesIn(new) : LastOf(new, n) = LastOf(ps, n)
  BY <1>3, ListWithNames
<1>7. /\ changed \in Seq(Params) /\ NamesIn(changed) = (NamesIn(ps) \cap DOMAIN pm) \ gone
      /\ \A n \in NamesIn(changed) : LastOf(changed, n) = LastOf(to_set, n)
  BY <1>3, <1>4, ListWithNames
<1> HIDE DEF new, changed, e
<1>8. e \in ParameterEvents /\ e.named = TRUE /\ e.new = new /\ e.changed = changed
  <2>1. gone \subseteq Names
    BY <1>2 DEF SoundMap
  <2> QED
    BY <1>5, <1>6, <1>7, <2>1 DEF ParameterEvents
<1>9. /\ NamesIn(new \o changed) = NamesIn(new) \cup NamesIn(changed)
      /\ \A n \in NamesIn(changed) : LastOf(new \o changed, n) = LastOf(changed, n)
      /\ \A n \in NamesIn(new) \ NamesIn(changed) : LastOf(new \o changed, n) = LastOf(new, n)
  BY <1>6, <1>7, LastOfBoth
<1>10. ASSUME NEW n, n \in NamesIn(new \o changed)
       PROVE  ValueOf(o.map, n) = LastOf(new \o changed, n)
  <2>1. n \in NamesIn(ps) /\ n \in DOMAIN o.map
    BY <1>2, <1>6, <1>7, <1>9, <1>10
  <2>2. ValueOf(o.map, n) = LastOf(ps, n)
    BY <1>2, <2>1 DEF ValueOf
  <2>3. CASE n \in NamesIn(changed)
    BY <1>4, <1>7, <1>9, <2>2, <2>3
  <2>4. CASE n \in NamesIn(new) \ NamesIn(changed)
    BY <1>6, <1>9, <2>2, <2>4
  <2> QED
    BY <1>9, <1>10, <2>3, <2>4
<1>11. ASSUME NEW n, n \notin NamesIn(new \o changed)
       PROVE  ValueOf(o.map, n) \in {ValueOf(pm, n), NotSet}
  BY <1>2, <1>6, <1>7, <1>9, <1>11 DEF ValueOf
<1>12. \A n : TellsOf(e, n, pm, o.map)
  BY <1>8, <1>10, <1>11 DEF TellsOf
<1> QED
  BY <1>1, <1>8, <1>12

------------------------------------------------------------------------------
(* The inductive invariant. *)

\* The executor is in a service call of the parameter service.
ServingSteps == {"set", "serve"}
Serves == pc[Executor] \in ServingSteps

\* The store, and the lists that the two threads set one by one.
Storing ==
  /\ SoundMap(parameters) /\ callback \in BOOLEAN
  /\ \A n \in DOMAIN overrides : overrides[n] \in Values
  /\ DOMAIN pc = Threads /\ DOMAIN todo = Threads
  /\ \A t \in Threads : pc[t] = "set" => todo[t] \in Seq(Params)

\* The counters and messages of the client and the service.
Traffic ==
  /\ sent \in 0 .. MaxRequests /\ serving \in 0 .. sent /\ handling \in 0 .. sent
  /\ DOMAIN request = Ids /\ \A k \in 1 .. sent : request[k] \in Requests
  /\ inbox \subseteq 1 .. sent /\ pending \subseteq 1 .. sent
  /\ answers \subseteq [id : 1 .. sent, size : Nat]
  /\ future \in [Ids -> Nat \cup {NoAnswer}]
  /\ got \in [Threads -> Nat] /\ mutex \in [Services -> {None, Caller}]

\* The executor serves one request at a time, and counts the results of one
\* that sets parameters one by one.
ServesOne ==
  /\ Serves <=> serving # 0
  /\ pc[Executor] # "set" => got[Executor] = 0
  /\ pc[Executor] = "serve" => request[serving].service # "set"
  /\ pc[Executor] = "set" =>
       /\ request[serving].service = "set"
       /\ got[Executor] + Len(todo[Executor]) = Len(request[serving].list)

\* A request is in one place, from the sending to the future.
OnePlace ==
  /\ serving \notin inbox
  /\ \A a \in answers : a.id \notin inbox /\ a.id # serving
  /\ \A a, b \in answers : a.id = b.id => a = b
  /\ \A k \in Ids : future[k] # NoAnswer =>
       k <= sent /\ k \notin inbox /\ k # serving /\ \A a \in answers : a.id # k

\* The promise of a request is known until its future is set, except while the
\* caller that stores it holds the mutex.
Promises ==
  /\ caller = "store" => /\ sent # 0 /\ mutex[request[sent].service] = Caller
                         /\ future[sent] = NoAnswer /\ handling # sent
  /\ \A k \in 1 .. sent : future[k] = NoAnswer =>
       k \in pending \/ handling = k \/ (caller = "store" /\ k = sent)
  /\ \A k \in pending : future[k] = NoAnswer
  /\ handling # 0 => /\ future[handling] = NoAnswer /\ handling \notin pending
                     /\ \E a \in answers : a.id = handling

\* Every request without a future is on its way, or its answer is.
Underway ==
  \A k \in 1 .. sent : future[k] = NoAnswer =>
    k \in inbox \/ serving = k \/ \E a \in answers : a.id = k

\* An answer has as many results as the request has parameters or names.
Counted ==
  /\ \A a \in answers : request[a.id].service \in {"set", "get"} => a.size = Len(request[a.id].list)
  /\ AnswersFit

IInv == /\ Storing /\ Traffic /\ ServesOne /\ OnePlace /\ Promises /\ Underway /\ Counted

\* A step of the user's thread or of the time source: the executor neither
\* begins a service call nor goes on with one.
Aside ==
  /\ UNCHANGED <<clientVars, serving, inbox>>
  /\ got' \in [Threads -> Nat] /\ got'[Executor] = got[Executor]
  /\ DOMAIN pc' = Threads /\ DOMAIN todo' = Threads
  /\ Serves => pc'[Executor] = pc[Executor] /\ todo'[Executor] = todo[Executor]
  /\ ~ Serves => pc'[Executor] \notin ServingSteps
  /\ pc'[User] = "set" => todo'[User] \in Seq(Params)

\* How pc and todo change.
Stays == UNCHANGED <<pc, todo>>
UserGoes == /\ \E step : pc' = [pc EXCEPT ![User] = step] /\ step # "set"
            /\ UNCHANGED todo
ExecutorGoes ==
  /\ ~ Serves
  /\ UNCHANGED pc \/ \E step : pc' = [pc EXCEPT ![Executor] = step] /\ step \notin ServingSteps
  /\ UNCHANGED todo \/ \E list : todo' = [todo EXCEPT ![Executor] = list]

LEMMA AsideMoves ==
  ASSUME Storing, Traffic, UNCHANGED <<clientVars, serverVars>>, Stays \/ UserGoes \/ ExecutorGoes
  PROVE  Aside
<1>1. /\ User \in Threads /\ Executor \in Threads /\ User # Executor
      /\ DOMAIN pc = Threads /\ DOMAIN todo = Threads /\ got \in [Threads -> Nat]
      /\ \A t \in Threads : pc[t] = "set" => todo[t] \in Seq(Params)
  BY DEF Threads, User, Executor, Storing, Traffic
<1>2. UNCHANGED <<clientVars, serving, inbox>> /\ got' = got
  BY DEF serverVars
<1>3. CASE Stays
  BY <1>1, <1>2, <1>3 DEF Aside, Stays, Serves
<1>4. CASE UserGoes
  <2>1. PICK step : pc' = [pc EXCEPT ![User] = step] /\ step # "set"
    BY <1>4 DEF UserGoes
  <2>2. pc'[User] = step /\ pc'[Executor] = pc[Executor] /\ DOMAIN pc' = Threads /\ todo' = todo
    BY <1>1, <1>4, <2>1 DEF UserGoes
  <2> QED
    BY <1>1, <1>2, <2>1, <2>2 DEF Aside, Serves
<1>5. CASE ExecutorGoes
  <2>1. /\ DOMAIN pc' = Threads /\ pc'[User] = pc[User] /\ pc'[Executor] \notin ServingSteps
    BY <1>1, <1>5 DEF ExecutorGoes, Serves
  <2>2. DOMAIN todo' = Threads /\ todo'[User] = todo[User]
    BY <1>1, <1>5 DEF ExecutorGoes
  <2>3. ~ Serves
    BY <1>5 DEF ExecutorGoes
  <2> QED
    BY <1>1, <1>2, <2>1, <2>2, <2>3 DEF Aside
<1> QED
  BY <1>3, <1>4, <1>5

LEMMA ApplyMoves ==
  ASSUME NEW t, NEW v, Apply(t, v)
  PROVE  \E step : pc' = [pc EXCEPT ![t] = step] /\ step \notin ServingSteps
<1>1. /\ \/ pc' = [pc EXCEPT ![t] = "create_sub"] \/ pc' = [pc EXCEPT ![t] = "enable"]
         \/ pc' = [pc EXCEPT ![t] = "disable"] \/ pc' = [pc EXCEPT ![t] = "destroy_sub"]
  BY DEF Apply, Goto
<1>2. {"create_sub", "enable", "disable", "destroy_sub"} \cap ServingSteps = {}
  BY DEF ServingSteps
<1> QED
  BY <1>1, <1>2

\* No step of the time source is in a service call.
LEMMA SourceMoves ==
  ASSUME SourceSteps, Storing
  PROVE  Stays \/ UserGoes \/ ExecutorGoes
<1>a. ASSUME NEW step, pc' = [pc EXCEPT ![User] = step], step # "set", todo' = todo
      PROVE  UserGoes
  BY <1>a DEF UserGoes
<1>b. ASSUME ~ Serves, NEW step, pc' = [pc EXCEPT ![Executor] = step], step \notin ServingSteps,
             UNCHANGED todo \/ \E list : todo' = [todo EXCEPT ![Executor] = list]
      PROVE  ExecutorGoes
  BY <1>b DEF ExecutorGoes
<1>c. \A step \in {"enable", "disable", "create_sub", "destroy_sub", "subscribe", "match", "event",
                   "idle", "clock_cb", "clock_enable", "clock_cache", "clock_set"} :
        step \notin ServingSteps /\ step # "set"
  BY DEF ServingSteps
<1>d. ASSUME pc[Executor] \in {"enable", "disable", "create_sub", "destroy_sub", "match", "event",
                   "idle", "clock_cb", "clock_enable", "clock_cache", "clock_set"}
      PROVE  ~ Serves
  BY <1>d DEF Serves, ServingSteps
<1>1. ASSUME NEW t \in Threads, EnableClocks(t)
      PROVE  UserGoes \/ ExecutorGoes
  BY <1>1, <1>a, <1>b, <1>c, <1>d DEF EnableClocks, Goto, Threads
<1>2. ASSUME NEW t \in Threads, CreateClockSub(t)
      PROVE  UserGoes \/ ExecutorGoes
  <2>1. CASE t = User
    BY <1>2, <2>1, <1>a, <1>c DEF CreateClockSub, Goto
  <2>2. CASE t = Executor
    BY <1>2, <2>2, <1>b, <1>c, <1>d DEF CreateClockSub, Goto, User, Executor
  <2> QED
    BY <2>1, <2>2 DEF Threads
<1>3. CASE DisableClocks(Executor)
  BY <1>3, <1>b, <1>c, <1>d DEF DisableClocks, Goto
<1>4. CASE DestroyClockSub(Executor)
  BY <1>4, <1>b, <1>c, <1>d DEF DestroyClockSub, Goto
<1>5. CASE TakeEvent
  BY <1>5, <1>b, <1>c, <1>d DEF TakeEvent, Goto
<1>6. CASE OnParameterEvent
  <2>1. /\ pc[Executor] = "event" /\ \E list : todo' = [todo EXCEPT ![Executor] = list]
        /\ pc' = [pc EXCEPT ![Executor] = "match"] \/ pc' = [pc EXCEPT ![Executor] = "idle"]
    BY <1>6 DEF OnParameterEvent, Goto
  <2> QED
    BY <2>1, <1>b, <1>c, <1>d
<1>7. CASE NextMatch
  <2>1. pc[Executor] = "match" /\ \E list : todo' = [todo EXCEPT ![Executor] = list]
    BY <1>7 DEF NextMatch
  <2>2. UNCHANGED pc \/ \E step : pc' = [pc EXCEPT ![Executor] = step] /\ step \notin ServingSteps
    BY <1>7, <1>c, ApplyMoves DEF NextMatch, Goto
  <2> QED
    BY <2>1, <2>2, <1>d DEF ExecutorGoes
<1>8. CASE Tick
  BY <1>8 DEF Tick, Stays
<1>9. CASE TakeClock
  BY <1>9, <1>b, <1>c, <1>d DEF TakeClock, Goto
<1>10. CASE ClockCb
  BY <1>10, <1>b, <1>c, <1>d DEF ClockCb, Goto
<1>11. CASE ClockEnable
  BY <1>11, <1>b, <1>c, <1>d DEF ClockEnable, Goto
<1>12. CASE ClockCache
  BY <1>12, <1>b, <1>c, <1>d DEF ClockCache, Goto
<1>13. CASE ClockSet
  BY <1>13, <1>b, <1>c, <1>d DEF ClockSet, Goto
<1> QED
  BY <1>1, <1>2, <1>3, <1>4, <1>5, <1>6, <1>7, <1>8, <1>9, <1>10, <1>11, <1>12, <1>13
     DEF SourceSteps

LEMMA UseSimTimeMoves ==
  ASSUME NEW value, UseSimTime(value)
  PROVE  \E step : pc' = [pc EXCEPT ![User] = step] /\ step # "set"
<1>1. CASE Apply(User, TRUE)
  BY <1>1, ApplyMoves DEF ServingSteps
<1>2. CASE Goto(User, "subscribe")
  <2>1. pc' = [pc EXCEPT ![User] = "subscribe"] /\ "subscribe" # "set"
    BY <1>2 DEF Goto
  <2> QED
    BY <2>1
<1> QED
  BY <1>1, <1>2 DEF UseSimTime

\* The calls of the user's thread, and its steps in between.
UserStep ==
  \/ \E d \in Defaults : CallDeclare(d) \/ CallUndeclare(d.name)
  \/ \E ps \in ParamLists : CallSetAtomically(ps) \/ CallSetParameters(ps)
  \/ CallSetCallback \/ CallTimeSource \/ SetNext(User) \/ SetReturns
  \/ AttachNode \/ AttachDeclares \/ AttachGets \/ Subscribe

LEMMA UserStepIsAside ==
  ASSUME Storing, Traffic, UserStep
  PROVE  Aside
<1>0. /\ User \in Threads /\ Executor \in Threads /\ User # Executor
      /\ DOMAIN pc = Threads /\ DOMAIN todo = Threads /\ got \in [Threads -> Nat]
      /\ \A t \in Threads : pc[t] = "set" => todo[t] \in Seq(Params)
  BY DEF Threads, User, Executor, Storing, Traffic
<1>a. ASSUME UNCHANGED <<clientVars, serverVars>>,
             NEW step, pc' = [pc EXCEPT ![User] = step], step # "set", todo' = todo
      PROVE  Aside
  BY <1>a, AsideMoves DEF UserGoes
<1>b. ASSUME UNCHANGED <<clientVars, serverVars>>, pc' = pc, todo' = todo
      PROVE  Aside
  BY <1>b, AsideMoves DEF Stays
<1>1. ASSUME NEW d \in Defaults, CallDeclare(d) \/ CallUndeclare(d.name)
      PROVE  Aside
  BY <1>1, <1>b DEF CallDeclare, CallUndeclare, Call, otherSource
<1>2. ASSUME NEW ps \in ParamLists, CallSetAtomically(ps)
      PROVE  Aside
  BY <1>2, <1>b DEF CallSetAtomically, Call, otherSource
<1>3. ASSUME NEW ps \in ParamLists, CallSetParameters(ps)
      PROVE  Aside
  <2>1. /\ todo' = [todo EXCEPT ![User] = ps] /\ pc' = [pc EXCEPT ![User] = "set"]
        /\ UNCHANGED <<clientVars, serverVars>> /\ ps \in Seq(Params)
    BY <1>3, ListsAssumption DEF CallSetParameters, Call, Goto
  <2>2. /\ todo'[User] = ps /\ todo'[Executor] = todo[Executor] /\ DOMAIN todo' = Threads
        /\ pc'[Executor] = pc[Executor] /\ DOMAIN pc' = Threads
    BY <1>0, <2>1
  <2>3. UNCHANGED <<clientVars, serving, inbox>> /\ got' = got
    BY <2>1 DEF serverVars
  <2> QED
    BY <1>0, <2>1, <2>2, <2>3 DEF Aside, Serves
<1>4. CASE CallSetCallback
  BY <1>4, <1>b DEF CallSetCallback, Call, otherSource
<1>5. CASE CallTimeSource
  <2>1. pc' = pc /\ todo' = todo
    BY <1>5 DEF CallTimeSource, DetachNode, AttachClock, DetachClock
  <2> QED
    BY <1>5, <1>b, <2>1 DEF CallTimeSource, Call
<1>6. CASE SetNext(User)
  <2>1. /\ pc[User] = "set" /\ todo[User] # <<>> /\ pc' = pc /\ got' = [got EXCEPT ![User] = @ + 1]
        /\ \/ todo' = [todo EXCEPT ![User] = <<>>]
           \/ todo' = [todo EXCEPT ![User] = Tail(todo[User])]
        /\ UNCHANGED <<clientVars, serving, inbox>>
    BY <1>6 DEF SetNext
  <2>2. todo[User] \in Seq(Params) /\ Tail(todo[User]) \in Seq(Params) /\ <<>> \in Seq(Params)
    BY <1>0, <2>1, HeadTailProperties, EmptySeq
  <2>3. /\ todo'[User] \in Seq(Params) /\ todo'[Executor] = todo[Executor] /\ DOMAIN todo' = Threads
    BY <1>0, <2>1, <2>2
  <2>4. got' \in [Threads -> Nat] /\ got'[Executor] = got[Executor]
    BY <1>0, <2>1
  <2> QED
    BY <1>0, <2>1, <2>3, <2>4 DEF Aside, Serves
<1>7. CASE SetReturns
  <2>1. /\ pc' = [pc EXCEPT ![User] = "idle"] /\ got' = [got EXCEPT ![User] = 0] /\ todo' = todo
        /\ UNCHANGED <<clientVars, serving, inbox>>
    BY <1>7 DEF SetReturns, Goto
  <2>2. pc'[User] = "idle" /\ pc'[Executor] = pc[Executor] /\ DOMAIN pc' = Threads
    BY <1>0, <2>1
  <2>3. got' \in [Threads -> Nat] /\ got'[Executor] = got[Executor]
    BY <1>0, <2>1
  <2> QED
    BY <1>0, <2>1, <2>2, <2>3 DEF Aside, Serves
<1>8. CASE AttachNode
  <2>1. /\ UNCHANGED <<clientVars, serverVars, todo>>
        /\ pc' = [pc EXCEPT ![User] = "get"] \/ pc' = [pc EXCEPT ![User] = "declare"]
    BY <1>8 DEF AttachNode, Call, Goto
  <2> QED
    BY <1>a, <2>1
<1>9. CASE AttachDeclares
  <2>1. /\ UNCHANGED <<clientVars, serverVars, todo>>
        /\ (\E value : UseSimTime(value)) \/ Goto(User, "idle")
    BY <1>9 DEF AttachDeclares
  <2> QED
    BY <1>a, <2>1, UseSimTimeMoves DEF Goto
<1>10. CASE AttachGets
  <2>1. /\ UNCHANGED <<clientVars, serverVars, todo>>
        /\ (\E value : UseSimTime(value)) \/ Goto(User, "idle")
    BY <1>10 DEF AttachGets
  <2> QED
    BY <1>a, <2>1, UseSimTimeMoves DEF Goto
<1>11. CASE Subscribe
  BY <1>11, <1>a DEF Subscribe, Goto
<1> QED
  BY <1>1, <1>2, <1>3, <1>4, <1>5, <1>6, <1>7, <1>8, <1>9, <1>10, <1>11 DEF UserStep

LEMMA SourceStepIsAside ==
  ASSUME Storing, Traffic, SourceStep
  PROVE  Aside
  BY SourceMoves, AsideMoves DEF SourceStep

\* A step aside keeps what is said of requests and answers.
LEMMA AsideKeeps ==
  ASSUME Storing, Traffic, Aside
  PROVE  /\ Traffic' /\ (ServesOne => ServesOne') /\ (OnePlace => OnePlace')
         /\ (Promises => Promises') /\ (Underway => Underway') /\ (Counted => Counted')
<1>1. /\ request' = request /\ sent' = sent /\ mutex' = mutex /\ pending' = pending
      /\ caller' = caller /\ handling' = handling /\ answers' = answers /\ future' = future
      /\ serving' = serving /\ inbox' = inbox
      /\ got' \in [Threads -> Nat] /\ got'[Executor] = got[Executor]
  BY DEF Aside, clientVars
<1>2. /\ Serves => pc'[Executor] = pc[Executor] /\ todo'[Executor] = todo[Executor]
      /\ ~ Serves => pc'[Executor] \notin ServingSteps
  BY DEF Aside
<1>3. Serves' <=> Serves
  BY <1>2 DEF Serves
<1>4. Traffic'
  BY <1>1 DEF Traffic
<1>5. ServesOne => ServesOne'
  <2>1. CASE Serves
    <3>1. pc'[Executor] = pc[Executor] /\ todo'[Executor] = todo[Executor]
      BY <1>2, <2>1
    <3> QED
      BY <1>1, <1>3, <3>1 DEF ServesOne
  <2>2. CASE ~ Serves
    <3>1. /\ pc'[Executor] # "set" /\ pc'[Executor] # "serve"
          /\ pc[Executor] # "set" /\ pc[Executor] # "serve"
      BY <1>2, <2>2 DEF Serves, ServingSteps
    <3> QED
      BY <1>1, <1>3, <3>1 DEF ServesOne
  <2> QED
    BY <2>1, <2>2
<1>6. (OnePlace => OnePlace') /\ (Promises => Promises') /\ (Underway => Underway')
  BY <1>1 DEF OnePlace, Promises, Underway
<1>7. Counted => Counted'
  BY <1>1 DEF Counted, AnswersFit
<1> QED
  BY <1>4, <1>5, <1>6, <1>7

------------------------------------------------------------------------------
(* The store is kept by every step. *)

LEMMA PerformedMap ==
  ASSUME NEW o, Perform(o), SoundMap(o.map)
  PROVE  SoundMap(parameters')
  BY DEF Perform, Store

LEMMA HeadOfList ==
  ASSUME NEW list \in Seq(Params), list # <<>>
  PROVE  <<Head(list)>> \in Seq(Params) /\ Tail(list) \in Seq(Params) /\ Len(Tail(list)) = Len(list) - 1
<1>1. Head(list) \in Params /\ Tail(list) \in Seq(Params) /\ Len(Tail(list)) = Len(list) - 1
  BY HeadTailProperties
<1> QED
  BY <1>1

\* The map and the callback after a step.
Sounds == SoundMap(parameters') /\ callback' \in BOOLEAN

LEMMA SetNextSounds ==
  ASSUME Storing, NEW t \in Threads, SetNext(t)
  PROVE  Sounds
<1>1. /\ pc[t] = "set" /\ todo[t] # <<>> /\ callback' = callback
      /\ Perform(SetAtomically(parameters, <<Head(todo[t])>>, callback))
  BY DEF SetNext
<1>2. SoundMap(parameters) /\ callback \in BOOLEAN /\ <<Head(todo[t])>> \in Seq(Params)
  BY <1>1, HeadOfList DEF Storing
<1>3. SoundMap(SetAtomically(parameters, <<Head(todo[t])>>, callback).map)
  BY <1>2, SetAtomicallySound
<1> QED
  BY <1>1, <1>2, <1>3, PerformedMap DEF Sounds

LEMMA UserStepSounds ==
  ASSUME Storing, UserStep
  PROVE  Sounds
<1>0. /\ SoundMap(parameters) /\ callback \in BOOLEAN
      /\ \A n \in DOMAIN overrides : overrides[n] \in Values
  BY DEF Storing
<1>a. ASSUME UNCHANGED <<parameters, callback>>
      PROVE  Sounds
  BY <1>0, <1>a DEF Sounds
<1>1. ASSUME NEW d \in Defaults, CallDeclare(d)
      PROVE  Sounds
  <2>1. /\ callback' = callback
        /\ Perform(Declare(parameters, d.name, d.value, d.descriptor, callback))
    BY <1>1 DEF CallDeclare
  <2>2. SoundMap(Declare(parameters, d.name, d.value, d.descriptor, callback).map)
    BY <1>0, DeclareOutcome, DefaultsAssumption
  <2> QED
    BY <1>0, <2>1, <2>2, PerformedMap DEF Sounds
<1>2. ASSUME NEW d \in Defaults, CallUndeclare(d.name)
      PROVE  Sounds
  <2>1. callback' = callback /\ Perform(Undeclare(parameters, d.name))
    BY <1>2 DEF CallUndeclare
  <2>2. SoundMap(Undeclare(parameters, d.name).map)
    BY <1>0, UndeclareOutcome
  <2> QED
    BY <1>0, <2>1, <2>2, PerformedMap DEF Sounds
<1>3. ASSUME NEW ps \in ParamLists, CallSetAtomically(ps)
      PROVE  Sounds
  <2>1. callback' = callback /\ Perform(SetAtomically(parameters, ps, callback))
    BY <1>3 DEF CallSetAtomically
  <2>2. SoundMap(SetAtomically(parameters, ps, callback).map)
    BY <1>0, SetAtomicallySound, ListsAssumption
  <2> QED
    BY <1>0, <2>1, <2>2, PerformedMap DEF Sounds
<1>4. ASSUME NEW ps \in ParamLists, CallSetParameters(ps)
      PROVE  Sounds
  BY <1>4, <1>a DEF CallSetParameters, storeVars
<1>5. CASE CallSetCallback
  BY <1>0, <1>5 DEF CallSetCallback, Sounds
<1>6. CASE CallTimeSource
  BY <1>6, <1>a DEF CallTimeSource, storeVars
<1>7. CASE SetNext(User)
  BY <1>7, SetNextSounds DEF Threads
<1>8. CASE SetReturns \/ AttachNode \/ AttachGets \/ Subscribe
  BY <1>8, <1>a DEF SetReturns, AttachNode, AttachGets, Subscribe, storeVars
<1>9. CASE AttachDeclares
  <2> DEFINE value == [type |-> "bool", v |-> 0]
             o == Declare(parameters, SimTime, value, DefaultDescriptor, callback)
  <2>1. callback' = callback /\ Store(o)
    BY <1>9 DEF AttachDeclares
  <2>2. value \in Values /\ SimTime \in Names
    BY DEF Values, Names, SimTime
  <2>3. DefaultDescriptor \in Descriptors /\ RangeOK(DefaultDescriptor.range)
    BY NoInfoIsSound DEF Sound, NoInfo
  <2>4. SoundMap(o.map)
    <3> HIDE DEF value
    <3> QED
      BY <1>0, <2>2, <2>3, DeclareOutcome
  <2> HIDE DEF o
  <2> QED
    BY <1>0, <2>1, <2>4 DEF Store, Sounds
<1> QED
  BY <1>1, <1>2, <1>3, <1>4, <1>5, <1>6, <1>7, <1>8, <1>9 DEF UserStep

\* Where pc and todo may end for the store's lists.
LEMMA StoringKept ==
  ASSUME Storing, Sounds, UNCHANGED overrides, DOMAIN pc' = Threads, DOMAIN todo' = Threads,
         \A t \in Threads : pc'[t] = "set" => todo'[t] \in Seq(Params)
  PROVE  Storing'
  BY DEF Storing, Sounds

LEMMA AsideStoring ==
  ASSUME Storing, Sounds, UNCHANGED overrides, Aside
  PROVE  Storing'
<1>1. ASSUME pc'[Executor] = "set"
      PROVE  todo'[Executor] \in Seq(Params)
  <2>1. Serves /\ pc'[Executor] = pc[Executor] /\ todo'[Executor] = todo[Executor]
    BY <1>1 DEF Aside, ServingSteps
  <2> QED
    BY <1>1, <2>1 DEF Storing, Threads
<1>2. \A t \in Threads : pc'[t] = "set" => todo'[t] \in Seq(Params)
  BY <1>1 DEF Aside, Threads
<1> QED
  BY <1>2, StoringKept DEF Aside

LEMMA RequestFits ==
  ASSUME Traffic, NEW k \in 1 .. sent
  PROVE  /\ k \in Ids /\ request[k].service \in Services
         /\ request[k].list \in Seq(Params) /\ Len(request[k].list) \in Nat
<1>1. k \in Ids /\ request[k] \in [service : Services, list : Seq(Params)]
  BY ListsAssumption DEF Traffic, Ids
<1>2. request[k].service \in Services /\ request[k].list \in Seq(Params)
  BY <1>1
<1> QED
  BY <1>1, <1>2, LenProperties

LEMMA ServedFits ==
  ASSUME Traffic, ServesOne, Serves
  PROVE  /\ serving \in 1 .. sent /\ request[serving].service \in Services
         /\ request[serving].list \in Seq(Params) /\ Len(request[serving].list) \in Nat
<1>1. serving \in 1 .. sent
  BY ListsAssumption DEF Traffic, ServesOne
<1> QED
  BY <1>1, RequestFits

\* An answer takes the place of the request that is served.
LEMMA RespondKeeps ==
  ASSUME IInv, Serves, Sounds, UNCHANGED overrides, NEW size \in Nat, Respond(size),
         request[serving].service \in {"set", "get"} => size = Len(request[serving].list)
  PROVE  IInv'
<1> DEFINE a0 == [id |-> serving, size |-> size]
<1>0. serving \in 1 .. sent /\ sent \in Nat
  BY ServedFits, ListsAssumption DEF IInv, Traffic
<1>1. /\ answers' = answers \cup {a0} /\ serving' = 0
      /\ got' = [got EXCEPT ![Executor] = 0] /\ pc' = [pc EXCEPT ![Executor] = "idle"]
      /\ todo' = todo /\ inbox' = inbox /\ request' = request /\ sent' = sent /\ mutex' = mutex
      /\ pending' = pending /\ caller' = caller /\ handling' = handling /\ future' = future
  BY DEF Respond, Goto
<1>2. /\ pc'[Executor] = "idle" /\ pc'[User] = pc[User] /\ DOMAIN pc' = Threads
      /\ got'[Executor] = 0 /\ got' \in [Threads -> Nat]
  BY <1>1 DEF IInv, Storing, Traffic, Threads, User, Executor
<1>3. Storing'
  <2>1. \A t \in Threads : pc'[t] = "set" => todo'[t] \in Seq(Params)
    BY <1>1, <1>2 DEF IInv, Storing, Threads
  <2> QED
    BY <1>1, <1>2, <2>1, StoringKept DEF IInv, Storing
<1>4. Traffic'
  BY <1>0, <1>1, <1>2 DEF IInv, Traffic
<1>5. ServesOne'
  BY <1>1, <1>2 DEF ServesOne, Serves, ServingSteps
<1>6. OnePlace'
  <2>1. a0.id = serving /\ serving # 0 /\ serving \notin inbox
    BY <1>0 DEF IInv, OnePlace
  <2>2. \A a \in answers : a.id \notin inbox /\ a.id # serving /\ a.id # 0
    BY <1>0 DEF IInv, OnePlace, Traffic
  <2>3. \A k \in Ids : k # 0
    BY DEF Ids
  <2>4. 0 \notin inbox
    BY <1>0 DEF IInv, Traffic
  <2> HIDE DEF a0
  <2> QED
    BY <1>1, <2>1, <2>2, <2>3, <2>4 DEF IInv, OnePlace
<1>7. Promises'
  BY <1>1 DEF IInv, Promises
<1>8. Underway'
  <2>1. a0.id = serving
    OBVIOUS
  <2> HIDE DEF a0
  <2> QED
    BY <1>1, <2>1 DEF IInv, Underway
<1>9. Counted'
  <2>1. a0.id = serving /\ a0.size = size
    OBVIOUS
  <2> HIDE DEF a0
  <2> QED
    BY <1>1, <2>1 DEF IInv, Counted, AnswersFit
<1> QED
  BY <1>3, <1>4, <1>5, <1>6, <1>7, <1>8, <1>9 DEF IInv

LEMMA ServeSetKeeps ==
  ASSUME IInv, ServeSet, UNCHANGED overrides
  PROVE  IInv'
<1>1. /\ pc[Executor] = "set" /\ todo[Executor] = <<>> /\ Respond(got[Executor])
      /\ parameters' = parameters /\ callback' = callback
  BY DEF ServeSet, storeVars
<1>2. Serves /\ Sounds
  BY <1>1 DEF IInv, Storing, Serves, ServingSteps, Sounds
<1>3. got[Executor] \in Nat /\ got[Executor] + Len(todo[Executor]) = Len(request[serving].list)
  BY <1>1 DEF IInv, ServesOne, Traffic, Threads
<1>4. got[Executor] = Len(request[serving].list)
  BY <1>1, <1>3
<1> QED
  BY <1>1, <1>2, <1>3, <1>4, RespondKeeps

LEMMA ServeAtomicallyKeeps ==
  ASSUME IInv, ServeAtomically, UNCHANGED overrides
  PROVE  IInv'
<1>1. /\ pc[Executor] = "serve" /\ request[serving].service = "set_atomically" /\ Respond(1)
      /\ Perform(SetAtomically(parameters, request[serving].list, callback))
      /\ callback' = callback
  BY DEF ServeAtomically
<1>2. Serves
  BY <1>1 DEF Serves, ServingSteps
<1>3. request[serving].list \in Seq(Params)
  BY <1>2, ServedFits DEF IInv
<1>4. SoundMap(SetAtomically(parameters, request[serving].list, callback).map)
  BY <1>3, SetAtomicallySound DEF IInv, Storing
<1>5. Sounds
  BY <1>1, <1>4, PerformedMap DEF IInv, Storing, Sounds
<1> QED
  BY <1>1, <1>2, <1>5, RespondKeeps

LEMMA ServeQueryKeeps ==
  ASSUME IInv, ServeQuery, UNCHANGED overrides
  PROVE  IInv'
<1> DEFINE r == request[serving]
<1>1. /\ pc[Executor] = "serve" /\ Respond(AnswerSize(r))
      /\ parameters' = parameters /\ callback' = callback
  BY DEF ServeQuery, storeVars
<1>2. Serves /\ Sounds
  BY <1>1 DEF IInv, Storing, Serves, ServingSteps, Sounds
<1>3. r.service # "set" /\ Len(r.list) \in Nat
  BY <1>1, <1>2, ServedFits DEF IInv, ServesOne
<1>4. ListAnswer(r.list) \in Nat
  <2> DEFINE L == ListParameters(parameters, NamesIn(r.list), 1)
  <2>1. IsFiniteSet(DOMAIN parameters) /\ L \subseteq DOMAIN parameters
    BY DEF IInv, Storing, SoundMap, ListParameters
  <2>2. IsFiniteSet(L)
    BY <2>1, FS_Subset
  <2> QED
    BY <2>2, FS_CardinalityType DEF ListAnswer
<1> HIDE DEF r
<1>5. AnswerSize(r) \in Nat
  BY <1>3, <1>4 DEF AnswerSize, GetAnswer, TypesAnswer
<1>6. r.service \in {"set", "get"} => AnswerSize(r) = Len(r.list)
  BY <1>3 DEF AnswerSize, GetAnswer
<1> QED
  BY <1>1, <1>2, <1>5, <1>6, RespondKeeps DEF r

LEMMA ServeNextKeeps ==
  ASSUME IInv, SetNext(Executor), UNCHANGED overrides
  PROVE  IInv'
<1>1. /\ pc[Executor] = "set" /\ todo[Executor] # <<>>
      /\ todo' = [todo EXCEPT ![Executor] = Tail(todo[Executor])]
      /\ got' = [got EXCEPT ![Executor] = @ + 1] /\ pc' = pc
      /\ serving' = serving /\ inbox' = inbox
      /\ request' = request /\ sent' = sent /\ mutex' = mutex /\ pending' = pending
      /\ caller' = caller /\ handling' = handling /\ answers' = answers /\ future' = future
  BY DEF SetNext, clientVars, User, Executor
<1>2. /\ todo[Executor] \in Seq(Params) /\ Tail(todo[Executor]) \in Seq(Params)
      /\ Len(Tail(todo[Executor])) = Len(todo[Executor]) - 1 /\ Len(todo[Executor]) \in Nat
  BY <1>1, HeadOfList, LenProperties DEF IInv, Storing, Threads
<1>3. /\ todo'[Executor] = Tail(todo[Executor]) /\ todo'[User] = todo[User] /\ DOMAIN todo' = Threads
      /\ got[Executor] \in Nat /\ got'[Executor] = got[Executor] + 1 /\ got' \in [Threads -> Nat]
  BY <1>1 DEF IInv, Storing, Traffic, Threads, User, Executor
<1>4. Sounds
  BY SetNextSounds DEF IInv, Threads
<1>5. Storing'
  <2>1. \A t \in Threads : pc'[t] = "set" => todo'[t] \in Seq(Params)
    BY <1>1, <1>2, <1>3 DEF IInv, Storing, Threads
  <2> QED
    BY <1>1, <1>3, <1>4, <2>1, StoringKept DEF IInv, Storing
<1>6. Traffic'
  BY <1>1, <1>3 DEF IInv, Traffic
<1>7. ServesOne'
  <2>1. Serves' <=> Serves
    BY <1>1 DEF Serves
  <2>2. got[Executor] + Len(todo[Executor]) = Len(request[serving].list)
    BY <1>1 DEF IInv, ServesOne
  <2>3. got'[Executor] + Len(todo'[Executor]) = got[Executor] + Len(todo[Executor])
    <3>1. \A g, n \in Nat : (g + 1) + (n - 1) = g + n
      OBVIOUS
    <3>2. Len(todo'[Executor]) = Len(todo[Executor]) - 1
      BY <1>2, <1>3
    <3> QED
      BY <1>2, <1>3, <3>1, <3>2
  <2> QED
    BY <1>1, <2>1, <2>2, <2>3 DEF IInv, ServesOne
<1>8. OnePlace' /\ Promises' /\ Underway'
  BY <1>1 DEF IInv, OnePlace, Promises, Underway
<1>9. Counted'
  BY <1>1 DEF IInv, Counted, AnswersFit
<1> QED
  BY <1>5, <1>6, <1>7, <1>8, <1>9 DEF IInv

LEMMA TakeRequestKeeps ==
  ASSUME IInv, TakeRequest, UNCHANGED overrides
  PROVE  IInv'
<1>1. PICK k \in inbox :
        /\ serving' = k /\ inbox' = inbox \ {k}
        /\ pc' = [pc EXCEPT ![Executor] = IF request[k].service = "set" THEN "set" ELSE "serve"]
        /\ todo' = [todo EXCEPT ![Executor] =
                      IF request[k].service = "set" THEN request[k].list ELSE <<>>]
  BY DEF TakeRequest, Goto
<1>2. /\ pc[Executor] = "idle" /\ parameters' = parameters /\ callback' = callback /\ got' = got
      /\ request' = request /\ sent' = sent /\ mutex' = mutex /\ pending' = pending
      /\ caller' = caller /\ handling' = handling /\ answers' = answers /\ future' = future
  BY DEF TakeRequest, storeVars, clientVars
<1>3. k \in 1 .. sent /\ sent \in Nat
  BY ListsAssumption DEF IInv, Traffic
<1>4. request[k].list \in Seq(Params) /\ Len(request[k].list) \in Nat
  BY <1>3, RequestFits DEF IInv
<1>5. /\ ~ Serves /\ serving = 0 /\ got[Executor] = 0
  BY <1>2 DEF IInv, ServesOne, Serves, ServingSteps
<1>6. /\ pc'[User] = pc[User] /\ todo'[User] = todo[User]
      /\ DOMAIN pc' = Threads /\ DOMAIN todo' = Threads
      /\ pc'[Executor] = IF request[k].service = "set" THEN "set" ELSE "serve"
      /\ request[k].service = "set" => todo'[Executor] = request[k].list
  BY <1>1 DEF IInv, Storing, Threads, User, Executor
<1>7. Storing'
  <2>1. Sounds
    BY <1>2 DEF IInv, Storing, Sounds
  <2>2. \A t \in Threads : pc'[t] = "set" => todo'[t] \in Seq(Params)
    BY <1>4, <1>6 DEF IInv, Storing, Threads
  <2> QED
    BY <1>6, <2>1, <2>2, StoringKept DEF IInv
<1>8. Traffic'
  BY <1>1, <1>2, <1>3 DEF IInv, Traffic
<1>9. ServesOne'
  <2>1. Serves'
    BY <1>6 DEF Serves, ServingSteps
  <2>2. k # 0
    BY <1>3
  <2> QED
    BY <1>1, <1>2, <1>4, <1>5, <1>6, <2>1, <2>2 DEF ServesOne
<1>10. OnePlace'
  BY <1>1, <1>2 DEF IInv, OnePlace
<1>11. Promises'
  BY <1>2 DEF IInv, Promises
<1>12. Underway'
  <2>1. \A j \in 1 .. sent : serving # j
    BY <1>5
  <2> QED
    BY <1>1, <1>2, <2>1 DEF IInv, Underway
<1>13. Counted'
  BY <1>2 DEF IInv, Counted, AnswersFit
<1> QED
  BY <1>7, <1>8, <1>9, <1>10, <1>11, <1>12, <1>13 DEF IInv

------------------------------------------------------------------------------
(* The client. *)

\* The client leaves the server and the store alone.
LEMMA ClientLeaves ==
  ASSUME IInv, UNCHANGED <<sourceVars, parameters, callback, serving, got, overrides>>,
         \A k \in 1 .. sent : request'[k] = request[k]
  PROVE  Storing' /\ ServesOne'
<1>1. /\ parameters' = parameters /\ callback' = callback /\ pc' = pc /\ todo' = todo
      /\ serving' = serving /\ got' = got /\ overrides' = overrides
  BY DEF sourceVars
<1>2. Storing'
  BY <1>1 DEF IInv, Storing
<1>3. Serves' <=> Serves
  BY <1>1 DEF Serves
<1>4. pc[Executor] \in {"set", "serve"} => serving \in 1 .. sent
  BY ServedFits DEF IInv, Serves, ServingSteps
<1>5. ServesOne'
  BY <1>1, <1>3, <1>4 DEF IInv, ServesOne
<1> QED
  BY <1>2, <1>5

LEMMA SendRequestKeeps ==
  ASSUME IInv, NEW r \in Requests, SendRequest(r), UNCHANGED overrides
  PROVE  IInv'
<1> DEFINE new == sent + 1
<1>1. /\ caller = "idle" /\ sent < MaxRequests /\ mutex[r.service] = None
      /\ mutex' = [mutex EXCEPT ![r.service] = Caller]
      /\ sent' = new /\ request' = [request EXCEPT ![new] = r] /\ inbox' = inbox \cup {new}
      /\ caller' = "store" /\ serving' = serving /\ got' = got /\ pending' = pending
      /\ handling' = handling /\ answers' = answers /\ future' = future
  BY DEF SendRequest
<1>2. /\ sent \in Nat /\ MaxRequests \in Nat /\ new \in Ids /\ new \in Nat \ {0}
      /\ \A k \in 1 .. sent : k # new /\ k \in 1 .. new
      /\ \A k \in 1 .. new : k = new \/ k \in 1 .. sent
  BY <1>1, ListsAssumption DEF IInv, Traffic, Ids
<1>3. /\ r.service \in Services
      /\ request'[new] = r /\ DOMAIN request' = Ids
      /\ \A k \in 1 .. sent : request'[k] = request[k]
      /\ mutex'[r.service] = Caller /\ mutex' \in [Services -> {None, Caller}]
  <2>1. r.service \in Services
    BY ListsAssumption
  <2> QED
    BY <1>1, <1>2, <2>1 DEF IInv, Traffic
<1>4. Storing' /\ ServesOne'
  BY <1>3, ClientLeaves DEF SendRequest, storeVars
<1>5. /\ serving \in 0 .. sent /\ handling \in 0 .. sent /\ inbox \subseteq 1 .. sent
      /\ pending \subseteq 1 .. sent /\ answers \subseteq [id : 1 .. sent, size : Nat]
  BY DEF IInv, Traffic
<1>6. /\ serving # new /\ handling # new /\ new \notin inbox /\ new \notin pending
      /\ \A a \in answers : a.id # new /\ a.id \in 1 .. sent
  BY <1>2, <1>5
<1>7. future[new] = NoAnswer
  BY <1>2 DEF IInv, OnePlace
<1> HIDE DEF new
<1>8. Traffic'
  <2>1. \A k \in 1 .. sent' : request'[k] \in Requests
    BY <1>1, <1>2, <1>3 DEF IInv, Traffic
  <2>2. sent' \in 0 .. MaxRequests
    BY <1>1, <1>2 DEF new
  <2>3. serving' \in 0 .. sent' /\ handling' \in 0 .. sent'
    BY <1>1, <1>2, <1>5 DEF new
  <2>4. inbox' \subseteq 1 .. sent' /\ pending' \subseteq 1 .. sent'
    BY <1>1, <1>2, <1>5
  <2>5. answers' \subseteq [id : 1 .. sent', size : Nat]
    BY <1>1, <1>2, <1>5
  <2> QED
    BY <1>1, <1>3, <2>1, <2>2, <2>3, <2>4, <2>5 DEF IInv, Traffic
<1>9. OnePlace'
  <2>1. \A k \in Ids : future[k] # NoAnswer => k <= new
    BY <1>2 DEF IInv, OnePlace, Ids, new
  <2> QED
    BY <1>1, <1>6, <1>7, <2>1 DEF IInv, OnePlace
<1>10. Promises'
  <2>1. new # 0
    BY <1>2
  <2>2. handling # 0 => handling \in 1 .. sent
    BY <1>5
  <2> QED
    BY <1>1, <1>2, <1>3, <1>5, <1>6, <1>7, <2>1, <2>2 DEF IInv, Promises
<1>11. Underway'
  BY <1>1, <1>2 DEF IInv, Underway
<1>12. Counted'
  <2>1. \A k \in Ids : future[k] # NoAnswer => k \in 1 .. sent
    BY <1>2 DEF IInv, OnePlace, Ids
  <2> QED
    BY <1>1, <1>3, <1>6, <2>1 DEF IInv, Counted, AnswersFit
<1> QED
  BY <1>4, <1>8, <1>9, <1>10, <1>11, <1>12 DEF IInv

LEMMA StorePendingKeeps ==
  ASSUME IInv, StorePending, UNCHANGED overrides
  PROVE  IInv'
<1>1. /\ caller = "store" /\ pending' = pending \cup {sent}
      /\ mutex' = [mutex EXCEPT ![request[sent].service] = None]
      /\ caller' \in {"idle", "spin"}
      /\ request' = request /\ sent' = sent /\ handling' = handling /\ answers' = answers
      /\ future' = future /\ serving' = serving /\ got' = got /\ inbox' = inbox
  BY DEF StorePending, serverVars
<1>2. sent # 0 /\ sent \in 1 .. sent /\ sent \in Nat
  BY <1>1, ListsAssumption DEF IInv, Promises, Traffic
<1>3. mutex' \in [Services -> {None, Caller}]
  BY <1>1 DEF IInv, Traffic
<1>4. Storing' /\ ServesOne'
  BY <1>1, ClientLeaves DEF StorePending, storeVars, serverVars
<1>5. Traffic'
  BY <1>1, <1>2, <1>3 DEF IInv, Traffic
<1>6. OnePlace' /\ Underway'
  BY <1>1 DEF IInv, OnePlace, Underway
<1>7. Promises'
  <2>1. caller' # "store"
    BY <1>1
  <2> QED
    BY <1>1, <1>2, <2>1 DEF IInv, Promises
<1>8. Counted'
  BY <1>1 DEF IInv, Counted, AnswersFit
<1> QED
  BY <1>4, <1>5, <1>6, <1>7, <1>8 DEF IInv

LEMMA SpinReturnsKeeps ==
  ASSUME IInv, SpinReturns, UNCHANGED overrides
  PROVE  IInv'
<1>1. /\ caller' = "idle" /\ pending' = pending /\ mutex' = mutex
      /\ request' = request /\ sent' = sent /\ handling' = handling /\ answers' = answers
      /\ future' = future /\ serving' = serving /\ got' = got /\ inbox' = inbox
      /\ caller = "spin"
  BY DEF SpinReturns, serverVars
<1>2. Storing' /\ ServesOne'
  BY <1>1, ClientLeaves DEF SpinReturns, storeVars, serverVars
<1>3. Traffic' /\ OnePlace' /\ Underway'
  BY <1>1 DEF IInv, Traffic, OnePlace, Underway
<1>4. Promises'
  BY <1>1 DEF IInv, Promises
<1>5. Counted'
  BY <1>1 DEF IInv, Counted, AnswersFit
<1> QED
  BY <1>2, <1>3, <1>4, <1>5 DEF IInv

\* An answer is handled only when its promise is known: the mutex that guards
\* the promise is held while it is not.
LEMMA HandleResponseKeeps ==
  ASSUME IInv, HandleResponse, UNCHANGED overrides
  PROVE  IInv'
<1>1. PICK a \in answers :
        /\ mutex[request[a.id].service] = None
        /\ IF a.id \in pending
           THEN handling' = a.id /\ pending' = pending \ {a.id} /\ UNCHANGED answers
           ELSE answers' = answers \ {a} /\ UNCHANGED <<handling, pending>>
  BY DEF HandleResponse
<1>2. /\ handling = 0 /\ request' = request /\ sent' = sent /\ mutex' = mutex /\ caller' = caller
      /\ future' = future /\ serving' = serving /\ got' = got /\ inbox' = inbox
  BY DEF HandleResponse, serverVars
<1>3. a.id \in 1 .. sent /\ a.id # 0 /\ a.id \in Ids
  BY ListsAssumption DEF IInv, Traffic, Ids
<1>4. future[a.id] = NoAnswer
  BY <1>3 DEF IInv, OnePlace
<1>5. ~ (caller = "store" /\ a.id = sent)
  BY <1>1 DEF IInv, Promises, Caller, None
<1>6. a.id \in pending
  BY <1>2, <1>3, <1>4, <1>5 DEF IInv, Promises
<1>7. handling' = a.id /\ pending' = pending \ {a.id} /\ answers' = answers
  BY <1>1, <1>6
<1>8. Storing' /\ ServesOne'
  BY <1>2, ClientLeaves DEF HandleResponse, storeVars, serverVars
<1>9. Traffic'
  <2>1. a.id \in 0 .. sent
    BY <1>3, ListsAssumption DEF IInv, Traffic
  <2>2. pending' \subseteq 1 .. sent
    BY <1>7 DEF IInv, Traffic
  <2> QED
    BY <1>2, <1>7, <2>1, <2>2 DEF IInv, Traffic
<1>10. OnePlace' /\ Underway'
  BY <1>2, <1>7 DEF IInv, OnePlace, Underway
<1>11. Promises'
  BY <1>2, <1>3, <1>4, <1>5, <1>7 DEF IInv, Promises
<1>12. Counted'
  BY <1>2, <1>7 DEF IInv, Counted, AnswersFit
<1> QED
  BY <1>8, <1>9, <1>10, <1>11, <1>12 DEF IInv

LEMMA CompleteKeeps ==
  ASSUME IInv, Complete, UNCHANGED overrides
  PROVE  IInv'
<1> DEFINE service == request[handling].service
<1>1. PICK a \in answers :
        /\ a.id = handling /\ answers' = answers \ {a}
        /\ future' = [future EXCEPT ![handling] =
               CASE service = "get" -> GetResult(a)
                 [] service = "get_types" -> GetTypesResult(a)
                 [] service = "set" -> SetResult(a)
                 [] service = "set_atomically" -> SetAtomicallyResult(a)
                 [] service = "list" -> ListResult(a)]
  BY DEF Complete
<1>2. /\ handling # 0 /\ handling' = 0
      /\ request' = request /\ sent' = sent /\ mutex' = mutex /\ caller' = caller
      /\ pending' = pending /\ serving' = serving /\ got' = got /\ inbox' = inbox
  BY DEF Complete, serverVars
<1>3. /\ a.id \in 1 .. sent /\ a.id \in Ids /\ a.size \in Nat /\ request[a.id].service \in Services
      /\ sent \in Nat
  BY RequestFits, ListsAssumption DEF IInv, Traffic
<1>4. PICK x : /\ future' = [future EXCEPT ![a.id] = x] /\ x \in Nat
               /\ request[a.id].service \in {"set", "get"} => x = a.size
  BY <1>1, <1>3 DEF Services, GetResult, GetTypesResult, SetResult, SetAtomicallyResult, ListResult
<1>5. /\ future'[a.id] = x /\ \A k \in Ids : k # a.id => future'[k] = future[k]
      /\ future' \in [Ids -> Nat \cup {NoAnswer}] /\ x # NoAnswer
  BY <1>3, <1>4 DEF IInv, Traffic, NoAnswer
<1>6. Storing' /\ ServesOne'
  BY <1>2, ClientLeaves DEF Complete, serverVars
<1>7. Traffic'
  <2>1. answers' \subseteq [id : 1 .. sent, size : Nat]
    BY <1>1 DEF IInv, Traffic
  <2>2. 0 \in 0 .. sent
    BY <1>3
  <2> QED
    BY <1>2, <1>5, <2>1, <2>2 DEF IInv, Traffic
<1>8. a.id \notin inbox /\ a.id # serving /\ a.id \notin pending /\ \A b \in answers' : b.id # a.id
  BY <1>1, <1>2 DEF IInv, OnePlace, Promises
<1>9. \A k \in 1 .. sent : k \in Ids
  BY <1>3, ListsAssumption DEF IInv, Traffic, Ids
<1>10. OnePlace'
  <2>1. a.id <= sent
    BY <1>3
  <2> QED
    BY <1>1, <1>2, <1>5, <1>8, <2>1 DEF IInv, OnePlace
<1>11. Promises'
  <2>1. pending \subseteq Ids
    BY <1>9 DEF IInv, Traffic
  <2>2. caller = "store" => sent \in 1 .. sent /\ sent # a.id
    BY <1>1, <1>3 DEF IInv, Promises
  <2>3. caller = "store" => future'[sent] = NoAnswer /\ sent # 0
    BY <1>5, <1>9, <2>2 DEF IInv, Promises
  <2>4. \A k \in 1 .. sent : future'[k] = NoAnswer =>
          k \in pending \/ (caller = "store" /\ k = sent)
    BY <1>1, <1>5, <1>9 DEF IInv, Promises
  <2>5. \A k \in pending : future'[k] = NoAnswer
    BY <1>5, <1>8, <2>1 DEF IInv, Promises
  <2> QED
    BY <1>2, <2>3, <2>4, <2>5 DEF IInv, Promises
<1>12. Underway'
  <2>1. ASSUME NEW k \in 1 .. sent, future'[k] = NoAnswer
        PROVE  k \in inbox \/ serving = k \/ \E b \in answers' : b.id = k
    <3>1. k # a.id /\ future[k] = NoAnswer
      BY <1>5, <1>9, <2>1
    <3>2. k \in inbox \/ serving = k \/ \E b \in answers : b.id = k
      BY <3>1 DEF IInv, Underway
    <3> QED
      BY <1>1, <3>1, <3>2
  <2> QED
    BY <1>2, <2>1 DEF Underway
<1>13. Counted'
  <2>1. request[a.id].service \in {"set", "get"} => x = Len(request[a.id].list)
    BY <1>4 DEF IInv, Counted
  <2> QED
    BY <1>1, <1>2, <1>5, <2>1 DEF IInv, Counted, AnswersFit
<1> QED
  BY <1>6, <1>7, <1>10, <1>11, <1>12, <1>13 DEF IInv

------------------------------------------------------------------------------
(* The theorems. *)

LEMMA IInvHolds == Init => IInv
<1> SUFFICES ASSUME Init
             PROVE  IInv
  OBVIOUS
<1>1. /\ callback = FALSE /\ serving = 0 /\ got = [t \in Threads |-> 0] /\ sent = 0
      /\ request = [k \in Ids |-> CHOOSE r \in Requests : TRUE]
      /\ mutex = [s \in Services |-> None] /\ pending = {} /\ caller = "idle"
      /\ handling = 0 /\ inbox = {} /\ answers = {} /\ future = [k \in Ids |-> NoAnswer]
      /\ pc = [t \in Threads |-> "idle"] /\ todo = [t \in Threads |-> <<>>]
  BY DEF Init, SourceInit
<1>2. \A n \in DOMAIN overrides : overrides[n] \in Values
  BY OverridesAssumption DEF Init, Overridden
<1>3. IsFiniteSet(DOMAIN overrides) /\ DOMAIN overrides \subseteq Names
  BY OverridesAssumption DEF Init, Overridden
<1>4. \A v \in Values : Sound([NoInfo EXCEPT !.value = v])
  <2>1. \A v : InRange(NoInfo.descriptor, v)
    BY DEF InRange, NoInfo, DefaultDescriptor
  <2> QED
    BY <2>1, NoInfoIsSound, ValueInRange
<1>5. SoundMap(parameters)
  <2>1. PICK auto \in BOOLEAN :
          parameters = [n \in IF auto THEN DOMAIN overrides ELSE {} |->
                          [NoInfo EXCEPT !.value = overrides[n]]]
    BY DEF Init, ParametersInit
  <2>2. DOMAIN parameters \subseteq DOMAIN overrides
    BY <2>1
  <2>3. IsFiniteSet(DOMAIN parameters)
    BY <1>3, <2>2, FS_Subset
  <2>4. \A n \in DOMAIN parameters : Sound(parameters[n])
    BY <1>2, <1>4, <2>1, <2>2
  <2> QED
    BY <1>3, <2>2, <2>3, <2>4 DEF SoundMap
<1>6. User \in Threads /\ Executor \in Threads
  BY DEF Threads
<1>7. pc[Executor] = "idle" /\ got[Executor] = 0
  BY <1>1, <1>6
<1>8. Storing
  BY <1>1, <1>2, <1>5 DEF Storing
<1>9. Traffic
  BY <1>1, ListsAssumption DEF Traffic
<1>10. ServesOne
  BY <1>1, <1>7 DEF ServesOne, Serves, ServingSteps
<1>11. OnePlace /\ Promises /\ Underway /\ Counted
  BY <1>1 DEF OnePlace, Promises, Underway, Counted, AnswersFit
<1> QED
  BY <1>8, <1>9, <1>10, <1>11 DEF IInv

LEMMA IInvKept == IInv /\ [Next]_vars => IInv'
<1> SUFFICES ASSUME IInv, [Next]_vars
             PROVE  IInv'
  OBVIOUS
<1>1. ASSUME UserStep, UNCHANGED overrides
      PROVE  IInv'
  <2>1. Aside /\ Sounds
    BY <1>1, UserStepIsAside, UserStepSounds DEF IInv
  <2>2. Storing'
    BY <1>1, <2>1, AsideStoring DEF IInv
  <2> QED
    BY <2>1, <2>2, AsideKeeps DEF IInv
<1>2. ASSUME SourceStep, UNCHANGED overrides
      PROVE  IInv'
  <2>1. Aside
    BY <1>2, SourceStepIsAside DEF IInv
  <2>2. Sounds
    BY <1>2 DEF SourceStep, storeVars, IInv, Storing, Sounds
  <2>3. Storing'
    BY <1>2, <2>1, <2>2, AsideStoring DEF IInv
  <2> QED
    BY <2>1, <2>3, AsideKeeps DEF IInv
<1>3. ASSUME UNCHANGED vars
      PROVE  IInv'
  <2>1. UNCHANGED <<clientVars, serverVars>> /\ Stays /\ Sounds /\ UNCHANGED overrides
    BY <1>3 DEF vars, sourceVars, storeVars, Stays, Sounds, IInv, Storing
  <2>2. Aside
    BY <2>1, AsideMoves DEF IInv
  <2>3. Storing'
    BY <2>1, <2>2, AsideStoring DEF IInv
  <2> QED
    BY <2>2, <2>3, AsideKeeps DEF IInv
<1>4. ASSUME Next
      PROVE  IInv'
  <2>1. UNCHANGED overrides
    BY <1>4 DEF Next
  <2>2. \/ UserStep \/ SetNext(Executor) \/ TakeRequest \/ ServeSet \/ ServeAtomically
        \/ ServeQuery \/ (\E r \in Requests : SendRequest(r)) \/ StorePending \/ SpinReturns
        \/ HandleResponse \/ Complete \/ SourceStep
    BY <1>4 DEF Next, UserStep, Threads
  <2> QED
    BY <1>1, <1>2, <2>1, <2>2, ServeNextKeeps, TakeRequestKeeps, ServeSetKeeps,
       ServeAtomicallyKeeps, ServeQueryKeeps, SendRequestKeeps, StorePendingKeeps,
       SpinReturnsKeeps, HandleResponseKeeps, CompleteKeeps
<1> QED
  BY <1>3, <1>4

\* Every request of a client is answered in full: NodeParameters serves what
\* Client sent, and handle_response finds its promise, for any requests.
THEOREM RequestsAreAnswered == Spec => []RequestsAnswered
<1>1. IInv => RequestsAnswered
  <2>1. ASSUME IInv
        PROVE  AnswersFit /\ NoAnswerLost
    BY <2>1 DEF IInv, Counted, Underway, Promises, NoAnswerLost
  <2> QED
    BY <2>1 DEF RequestsAnswered
<1> QED
  BY <1>1, IInvHolds, IInvKept, PTL DEF Spec

\* The store keeps its promises for any names, values, ranges and lists: ranges,
\* all or nothing, read-only, and has_parameter for the name itself.
THEOREM StoreKeepsPromises == Spec => []StoreKept
<1>1. IInv => StoreKept
  <2> SUFFICES ASSUME IInv
               PROVE  StoreKept
    OBVIOUS
  <2>0. SoundMap(parameters) /\ callback \in BOOLEAN
    BY DEF IInv, Storing
  <2>1. ValuesInRange
    BY <2>0 DEF ValuesInRange, SoundMap, Sound
  <2>2. SetIsAtomic
    <3> SUFFICES ASSUME NEW ps \in ParamLists
                 PROVE  LET o == SetAtomically(parameters, ps, callback)
                        IN IF o.result = "ok"
                           THEN ~ Unrevived(ps) \/
                                [n \in DOMAIN o.map |-> o.map[n].value] = Promised(parameters, ps)
                           ELSE \A n \in DOMAIN o.map :
                                  ValueOf(o.map, n) = ValueOf(parameters, n)
      BY DEF SetIsAtomic, Unrevived
    <3>1. ps \in Seq(Params)
      BY ListsAssumption
    <3> QED
      BY <2>0, <3>1, SuccessKeepsPromise, FailureKeepsValues
  <2>3. HasParameterIsExact
    BY <2>0, ExactName, DefaultsAssumption DEF HasParameterIsExact, SoundMap
  <2>4. ReadOnlyKept
    <3> SUFFICES ASSUME NEW n \in DOMAIN parameters, parameters[n].descriptor.read_only, NEW o,
                        \/ \E ps \in ParamLists : o = SetAtomically(parameters, ps, callback)
                        \/ \E d \in Defaults :
                             o = Declare(parameters, d.name, d.value, d.descriptor, callback)
                        \/ \E d \in Defaults : o = Undeclare(parameters, d.name)
                 PROVE  n \in DOMAIN o.map /\ o.map[n] = parameters[n]
      BY DEF ReadOnlyKept
    <3>1. ParamLists \subseteq Seq(Params)
      BY ListsAssumption
    <3> QED
      BY <2>0, <3>1, SetKeepsReadOnly, DeclareKeepsReadOnly, UndeclareKeepsReadOnly
  <2> QED
    BY <2>1, <2>2, <2>3, <2>4 DEF StoreKept
<1> QED
  BY <1>1, IInvHolds, IInvKept, PTL DEF Spec

------------------------------------------------------------------------------
(* The clocks of the time source. *)

\* attachNode, up to its subscription to /clock.
Early == {"declare", "get", "enable", "create_sub"}

\* A callback runs only while the node is attached, and attachNode is not yet
\* done with the source.
Excluding ==
  /\ ~parameter_subscription => events = <<>>
  /\ ~clock_subscription => clock_msgs = <<>>
  /\ pc[User] \in Early => ~InCallback /\ ~clock_subscription
  /\ pc[User] \in Early \cup {"idle", "set", "subscribe"}
  /\ pc[User] \notin {"idle", "set"} => attached /\ ~parameter_subscription
  /\ ~attached => ~InCallback /\ ~clock_subscription /\ ~parameter_subscription

\* Whoever is about to change the clocks agrees with ros_time_active_.
Switching ==
  /\ \A t \in Threads : pc[t] \in {"enable", "clock_enable", "clock_set"} => ros_time_active
  /\ \A t \in Threads : pc[t] = "disable" => ~ros_time_active
  /\ pc[Executor] = "clock_cache" /\ parameter_state = "SET_TRUE" => ros_time_active
  /\ pc[Executor] = "clock_set" => last_msg = Head(todo[Executor])

ClockInv == /\ associated_clocks \subseteq Clocks
            /\ ~undefined => Excluding /\ Switching /\ ClocksFollow

LEMMA ClocksStay ==
  ASSUME ClocksFollow, ~undefined,
         ros_time_active' <=> ros_time_active, last_msg' = last_msg, clock' = clock,
         associated_clocks' = associated_clocks, skipped' = skipped, leftover' = leftover,
         (\A t \in Threads : pc'[t] \notin Enabling) => \A t \in Threads : pc[t] \notin Enabling
  PROVE  ClocksFollow'
<1> SUFFICES ASSUME \A t \in Threads : pc[t] \notin Enabling
             PROVE  /\ (ros_time_active /\ ~skipped /\ ~leftover) => \A c \in associated_clocks :
                         clock[c] = [active |-> TRUE, time |-> last_msg]
                    /\ (~ros_time_active /\ ~leftover) => \A c \in associated_clocks :
                         ~clock[c].active
  BY DEF ClocksFollow
<1> QED
  BY DEF ClocksFollow

\* A step that touches neither the source nor its callbacks.
Elsewhere ==
  /\ UNCHANGED <<interfaces, flags, clocks, clock_msgs, clock_subscription, last_msg>>
  /\ UNCHANGED events \/ parameter_subscription
  /\ pc'[User] = pc[User] \/ {pc[User], pc'[User]} \subseteq {"idle", "set"}
  /\ \/ pc'[Executor] = pc[Executor] /\ todo'[Executor] = todo[Executor]
     \/ {pc[Executor], pc'[Executor]} \subseteq {"idle", "set", "serve"}

LEMMA ElsewhereKeeps ==
  ASSUME ClockInv, Elsewhere
  PROVE  ClockInv'
<1>1. /\ attached' = attached /\ parameter_subscription' = parameter_subscription
      /\ leftover' = leftover /\ undefined' = undefined
      /\ parameter_state' = parameter_state /\ ros_time_active' = ros_time_active
      /\ associated_clocks' = associated_clocks /\ clock' = clock /\ skipped' = skipped
      /\ clock_msgs' = clock_msgs /\ clock_subscription' = clock_subscription
      /\ last_msg' = last_msg
      /\ events' = events \/ parameter_subscription
  BY DEF Elsewhere, interfaces, flags, clocks
<1>2. /\ pc'[User] = pc[User] \/ {pc[User], pc'[User]} \subseteq {"idle", "set"}
      /\ \/ pc'[Executor] = pc[Executor] /\ todo'[Executor] = todo[Executor]
         \/ {pc[Executor], pc'[Executor]} \subseteq {"idle", "set", "serve"}
  BY DEF Elsewhere
<1>3. InCallback' = InCallback
  BY <1>2 DEF InCallback
<1> SUFFICES ASSUME ~undefined
             PROVE  Excluding' /\ Switching' /\ ClocksFollow'
  BY <1>1 DEF ClockInv
<1>4. Excluding'
  BY <1>1, <1>2, <1>3 DEF ClockInv, Excluding, Early
<1>5. Switching'
  <2>1. \A t \in Threads : pc'[t] \in Enabling => pc[t] = pc'[t]
    BY <1>2 DEF Threads, Enabling
  <2>2. pc'[Executor] \in {"clock_cache", "clock_set"} =>
          pc[Executor] = pc'[Executor] /\ todo'[Executor] = todo[Executor]
    BY <1>2
  <2>3. Switching
    BY DEF ClockInv
  <2> QED
    BY <1>1, <2>1, <2>2, <2>3 DEF Switching, Enabling
<1>6. (\A t \in Threads : pc'[t] \notin Enabling) => \A t \in Threads : pc[t] \notin Enabling
  BY <1>2 DEF Threads, Enabling
<1>7. ClocksFollow'
  BY <1>1, <1>6, ClocksStay DEF ClockInv
<1> QED
  BY <1>4, <1>5, <1>7

\* How the other steps of the two threads move.
LEMMA UserGoesTo ==
  ASSUME Storing, NEW step, pc' = [pc EXCEPT ![User] = step], UNCHANGED todo
  PROVE  pc'[User] = step /\ pc'[Executor] = pc[Executor] /\ todo'[Executor] = todo[Executor]
  BY DEF Storing, Threads, User, Executor

LEMMA ExecutorGoesTo ==
  ASSUME Storing, NEW step, pc' = [pc EXCEPT ![Executor] = step]
  PROVE  pc'[Executor] = step /\ pc'[User] = pc[User]
  BY DEF Storing, Threads, User, Executor

LEMMA ExecutorStaysPut ==
  ASSUME Storing, NEW ps, todo' = [todo EXCEPT ![User] = ps]
  PROVE  todo'[Executor] = todo[Executor]
  BY DEF Storing, Threads, User, Executor

LEMMA StoreIsElsewhere ==
  ASSUME NEW o, Store(o)
  PROVE  UNCHANGED events \/ parameter_subscription
  BY DEF Store

LEMMA StepsElsewhere ==
  ASSUME Storing,
         \/ \E d \in Defaults : CallDeclare(d) \/ CallUndeclare(d.name)
         \/ \E ps \in ParamLists : CallSetAtomically(ps) \/ CallSetParameters(ps)
         \/ CallSetCallback \/ (\E t \in Threads : SetNext(t)) \/ SetReturns
         \/ TakeRequest \/ ServeSet \/ ServeAtomically \/ ServeQuery
         \/ (\E r \in Requests : SendRequest(r)) \/ StorePending \/ SpinReturns
         \/ HandleResponse \/ Complete \/ UNCHANGED vars
  PROVE  Elsewhere
<1>a. ASSUME UNCHANGED <<interfaces, flags, clocks, clock_msgs, clock_subscription, last_msg, pc, todo>>,
             UNCHANGED events \/ parameter_subscription
      PROVE  Elsewhere
  BY <1>a DEF Elsewhere
<1>1. ASSUME NEW d \in Defaults, CallDeclare(d) \/ CallUndeclare(d.name)
      PROVE  Elsewhere
  BY <1>1, <1>a, StoreIsElsewhere DEF CallDeclare, CallUndeclare, Perform, otherSource
<1>2. ASSUME NEW ps \in ParamLists, CallSetAtomically(ps)
      PROVE  Elsewhere
  BY <1>2, <1>a, StoreIsElsewhere DEF CallSetAtomically, Perform, otherSource
<1>3. ASSUME NEW ps \in ParamLists, CallSetParameters(ps)
      PROVE  Elsewhere
  <2>1. /\ pc[User] = "idle" /\ todo' = [todo EXCEPT ![User] = ps]
        /\ pc' = [pc EXCEPT ![User] = "set"]
        /\ UNCHANGED <<interfaces, flags, clocks, clock_msgs, clock_subscription, last_msg, events>>
    BY <1>3 DEF CallSetParameters, Call, Goto, queues
  <2>2. pc'[User] = "set" /\ pc'[Executor] = pc[Executor] /\ todo'[Executor] = todo[Executor]
    BY <2>1, ExecutorStaysPut DEF Storing, Threads, User, Executor
  <2> QED
    BY <2>1, <2>2 DEF Elsewhere
<1>4. CASE CallSetCallback
  BY <1>4, <1>a DEF CallSetCallback, otherSource
<1>5. ASSUME NEW t \in Threads, SetNext(t)
      PROVE  Elsewhere
  <2>1. /\ UNCHANGED <<interfaces, flags, clocks, clock_msgs, clock_subscription, last_msg, pc>>
        /\ UNCHANGED events \/ parameter_subscription
        /\ pc[t] = "set" /\ \E ps : todo' = [todo EXCEPT ![t] = ps]
    BY <1>5, StoreIsElsewhere DEF SetNext, Perform
  <2>2. CASE t = User
    BY <2>1, <2>2, ExecutorStaysPut DEF Elsewhere
  <2>3. CASE t = Executor
    BY <2>1, <2>3 DEF Elsewhere
  <2> QED
    BY <2>2, <2>3 DEF Threads
<1>6. CASE SetReturns
  <2>1. /\ pc[User] = "set" /\ pc' = [pc EXCEPT ![User] = "idle"] /\ todo' = todo
        /\ UNCHANGED <<interfaces, flags, clocks, clock_msgs, clock_subscription, last_msg, events>>
    BY <1>6 DEF SetReturns, Goto, queues
  <2> QED
    BY <2>1, UserGoesTo DEF Elsewhere
<1>7. CASE TakeRequest
  <2>1. /\ pc[Executor] = "idle"
        /\ pc' = [pc EXCEPT ![Executor] = "set"] \/ pc' = [pc EXCEPT ![Executor] = "serve"]
        /\ UNCHANGED <<interfaces, flags, clocks, clock_msgs, clock_subscription, last_msg, events>>
    BY <1>7 DEF TakeRequest, Goto, queues
  <2> QED
    BY <2>1, ExecutorGoesTo DEF Elsewhere
<1>8. CASE ServeSet \/ ServeAtomically \/ ServeQuery
  <2>1. /\ pc[Executor] \in {"set", "serve"} /\ pc' = [pc EXCEPT ![Executor] = "idle"]
        /\ UNCHANGED <<interfaces, flags, clocks, clock_msgs, clock_subscription, last_msg>>
        /\ UNCHANGED events \/ parameter_subscription
    BY <1>8, StoreIsElsewhere DEF ServeSet, ServeAtomically, ServeQuery, Respond, Goto, Perform
  <2> QED
    BY <2>1, ExecutorGoesTo DEF Elsewhere
<1>9. ASSUME UNCHANGED sourceVars
      PROVE  Elsewhere
  BY <1>9, <1>a DEF sourceVars, interfaces, flags, clocks
<1>10. ASSUME NEW r \in Requests, SendRequest(r)
       PROVE  Elsewhere
  BY <1>9, <1>10 DEF SendRequest
<1>11. CASE StorePending \/ SpinReturns \/ HandleResponse \/ Complete \/ UNCHANGED vars
  BY <1>9, <1>11 DEF StorePending, SpinReturns, HandleResponse, Complete, vars
<1> QED
  BY <1>1, <1>2, <1>3, <1>4, <1>5, <1>6, <1>7, <1>8, <1>10, <1>11

\* Attached clocks take what the source has.
LEMMA AttachClockKeeps ==
  ASSUME ClockInv, ~undefined, NEW c \in Clocks, AttachClock(c)
  PROVE  ClockInv'
<1>1. /\ attached' = attached /\ parameter_subscription' = parameter_subscription
      /\ leftover' = leftover /\ undefined' = undefined
      /\ parameter_state' = parameter_state /\ ros_time_active' = ros_time_active
      /\ skipped' = skipped /\ pc' = pc /\ todo' = todo
      /\ clock_msgs' = clock_msgs /\ clock_subscription' = clock_subscription
      /\ last_msg' = last_msg /\ events' = events
      /\ associated_clocks' = associated_clocks \cup {c}
      /\ clock' = [d \in Clocks |-> IF d \in {c} THEN [active |-> ros_time_active, time |-> last_msg]
                                     ELSE clock[d]]
  BY DEF AttachClock, SetClocks, interfaces, flags, queues
<1>2. associated_clocks' \subseteq Clocks /\ associated_clocks \subseteq Clocks
  BY <1>1 DEF ClockInv
<1>3. Excluding' /\ Switching'
  BY <1>1 DEF ClockInv, Excluding, InCallback, Switching
<1>4. /\ clock'[c] = [active |-> ros_time_active, time |-> last_msg]
      /\ \A d \in associated_clocks : d # c => clock'[d] = clock[d]
  BY <1>1, <1>2
<1>5. ClocksFollow'
  <2> SUFFICES ASSUME \A t \in Threads : pc[t] \notin Enabling
               PROVE  /\ (ros_time_active /\ ~skipped /\ ~leftover) => \A d \in associated_clocks' :
                           clock'[d] = [active |-> TRUE, time |-> last_msg]
                      /\ (~ros_time_active /\ ~leftover) => \A d \in associated_clocks' :
                           ~clock'[d].active
    BY <1>1 DEF ClocksFollow
  <2>1. /\ (ros_time_active /\ ~skipped /\ ~leftover) => \A d \in associated_clocks :
             clock[d] = [active |-> TRUE, time |-> last_msg]
        /\ (~ros_time_active /\ ~leftover) => \A d \in associated_clocks : ~clock[d].active
    BY DEF ClockInv, ClocksFollow
  <2>2. ASSUME ros_time_active, ~skipped, ~leftover, NEW d \in associated_clocks'
        PROVE  clock'[d] = [active |-> TRUE, time |-> last_msg]
    <3>1. ros_time_active = TRUE
      BY <2>2
    <3> QED
      BY <1>1, <1>4, <2>1, <2>2, <3>1
  <2>3. ASSUME ~ros_time_active, ~leftover, NEW d \in associated_clocks'
        PROVE  ~clock'[d].active
    BY <1>1, <1>4, <2>1, <2>3
  <2> QED
    BY <2>2, <2>3
<1> QED
  BY <1>2, <1>3, <1>5 DEF ClockInv

LEMMA DetachClockKeeps ==
  ASSUME ClockInv, ~undefined, NEW c \in Clocks, DetachClock(c)
  PROVE  ClockInv'
<1>1. /\ attached' = attached /\ parameter_subscription' = parameter_subscription
      /\ leftover' = leftover /\ undefined' = undefined
      /\ parameter_state' = parameter_state /\ ros_time_active' = ros_time_active
      /\ skipped' = skipped /\ pc' = pc /\ todo' = todo
      /\ clock_msgs' = clock_msgs /\ clock_subscription' = clock_subscription
      /\ last_msg' = last_msg /\ events' = events
      /\ associated_clocks' = associated_clocks \ {c} /\ clock' = clock
  BY DEF DetachClock, interfaces, flags, queues
<1>2. associated_clocks' \subseteq Clocks
  BY <1>1 DEF ClockInv
<1>3. Excluding' /\ Switching'
  BY <1>1 DEF ClockInv, Excluding, InCallback, Switching
<1>4. ClocksFollow'
  BY <1>1 DEF ClockInv, ClocksFollow
<1> QED
  BY <1>2, <1>3, <1>4 DEF ClockInv

\* detachNode leaves the clocks alone: those that were active are left over.
LEMMA DetachNodeKeeps ==
  ASSUME ClockInv, ~undefined, DetachNode
  PROVE  ClockInv'
<1>1. /\ pc[User] = "idle" /\ attached' = FALSE
      /\ parameter_subscription' = FALSE /\ clock_subscription' = FALSE
      /\ events' = <<>> /\ clock_msgs' = <<>> /\ ros_time_active' = FALSE
      /\ leftover' = (leftover \/ ros_time_active) /\ undefined' = (undefined \/ InCallback)
      /\ parameter_state' = parameter_state /\ last_msg' = last_msg
      /\ associated_clocks' = associated_clocks /\ clock' = clock /\ skipped' = skipped
      /\ pc' = pc /\ todo' = todo
  BY DEF DetachNode, clocks
<1> SUFFICES ASSUME ~undefined'
             PROVE  Excluding' /\ Switching' /\ ClocksFollow'
  BY <1>1 DEF ClockInv
<1>2. ~InCallback /\ InCallback' = InCallback
  BY <1>1 DEF InCallback
<1>3. Excluding'
  BY <1>1, <1>2 DEF Excluding, Early
<1>4. \A t \in Threads : pc[t] \in {"idle", "set", "serve"}
  BY <1>1, <1>2 DEF Threads, InCallback
<1>5. Switching'
  BY <1>1, <1>4 DEF Switching, Threads
<1>6. ASSUME ~leftover'
      PROVE  ~leftover /\ ~ros_time_active
  BY <1>1, <1>6
<1>7. ~ros_time_active /\ ~leftover => \A c \in associated_clocks : ~clock[c].active
  BY <1>4 DEF ClockInv, ClocksFollow, Enabling
<1>8. ClocksFollow'
  BY <1>1, <1>6, <1>7 DEF ClocksFollow
<1> QED
  BY <1>3, <1>5, <1>8

LEMMA AttachNodeKeeps ==
  ASSUME Storing, ClockInv, ~undefined, AttachNode
  PROVE  ClockInv'
<1>1. /\ pc[User] = "idle" /\ ~attached /\ attached' = TRUE
      /\ parameter_subscription' = parameter_subscription
      /\ leftover' = leftover /\ undefined' = undefined
      /\ parameter_state' = parameter_state /\ ros_time_active' = ros_time_active
      /\ associated_clocks' = associated_clocks /\ clock' = clock /\ skipped' = skipped
      /\ clock_msgs' = clock_msgs /\ clock_subscription' = clock_subscription
      /\ last_msg' = last_msg /\ events' = events /\ todo' = todo
      /\ pc' = [pc EXCEPT ![User] = "get"] \/ pc' = [pc EXCEPT ![User] = "declare"]
  BY DEF AttachNode, Call, Goto, flags, clocks, queues
<1>2. pc'[User] \in {"get", "declare"} /\ pc'[Executor] = pc[Executor]
  BY <1>1, UserGoesTo
<1>3. InCallback' = InCallback
  BY <1>2 DEF InCallback
<1>4. Excluding'
  BY <1>1, <1>2, <1>3 DEF ClockInv, Excluding, Early
<1>5. Switching'
  BY <1>1, <1>2 DEF ClockInv, Switching, Threads
<1>6. ClocksFollow'
  BY <1>1, <1>2 DEF ClockInv, ClocksFollow, Threads, Enabling
<1> QED
  BY <1>1, <1>4, <1>5, <1>6 DEF ClockInv

\* attachNode reads use_sim_time while no callback runs.
LEMMA AttachReadsKeeps ==
  ASSUME Storing, ClockInv, ~undefined, pc[User] \in {"declare", "get"}, UNCHANGED todo,
         UNCHANGED <<interfaces, clocks, clock_msgs, clock_subscription, last_msg>>,
         UNCHANGED events \/ parameter_subscription,
         (\E value : UseSimTime(value)) \/ (Goto(User, "idle") /\ UNCHANGED flags)
  PROVE  ClockInv'
<1>1. /\ attached' = attached /\ parameter_subscription' = parameter_subscription
      /\ leftover' = leftover /\ undefined' = undefined
      /\ associated_clocks' = associated_clocks /\ clock' = clock /\ skipped' = skipped
      /\ clock_msgs' = clock_msgs /\ clock_subscription' = clock_subscription
      /\ last_msg' = last_msg /\ todo' = todo
  BY DEF interfaces, clocks
<1>2. /\ ~InCallback /\ ~clock_subscription /\ attached /\ ~parameter_subscription /\ events = <<>>
      /\ clock_msgs = <<>>
  BY DEF ClockInv, Excluding, Early
<1>3. events' = <<>>
  BY <1>2
<1>4. pc[User] \notin Enabling /\ pc[Executor] \in {"idle", "set", "serve"}
  BY <1>2 DEF InCallback, Enabling
<1>5. \/ ros_time_active' = TRUE /\ ~ros_time_active /\ pc' = [pc EXCEPT ![User] = "enable"]
      \/ ros_time_active' = TRUE /\ ros_time_active /\ pc' = [pc EXCEPT ![User] = "create_sub"]
      \/ ros_time_active' = ros_time_active /\ pc' = [pc EXCEPT ![User] = "subscribe"]
      \/ ros_time_active' = ros_time_active /\ pc' = [pc EXCEPT ![User] = "idle"]
  BY DEF UseSimTime, Apply, Goto, flags
<1>6. pc'[Executor] = pc[Executor]
  BY <1>5, UserGoesTo
<1>7. \/ ros_time_active' = TRUE /\ ~ros_time_active /\ pc'[User] = "enable"
      \/ ros_time_active' = TRUE /\ ros_time_active /\ pc'[User] = "create_sub"
      \/ ros_time_active' = ros_time_active /\ pc'[User] = "subscribe"
      \/ ros_time_active' = ros_time_active /\ pc'[User] = "idle"
  BY <1>5, UserGoesTo
<1>8. ~InCallback'
  BY <1>2, <1>6 DEF InCallback
<1>9. Excluding'
  BY <1>1, <1>2, <1>3, <1>7, <1>8 DEF Excluding, Early
<1>10. Switching'
  <2>1. pc'[Executor] \in {"idle", "set", "serve"}
    BY <1>4, <1>6
  <2>2. pc'[User] \in {"enable", "clock_enable", "clock_set"} => ros_time_active'
    BY <1>7
  <2>3. pc'[User] # "disable"
    BY <1>7
  <2> QED
    BY <2>1, <2>2, <2>3 DEF Switching, Threads
<1>11. ClocksFollow'
  <2>1. CASE pc'[User] = "enable"
    BY <2>1 DEF ClocksFollow, Enabling, Threads
  <2>2. CASE pc'[User] # "enable"
    <3>1. ros_time_active' <=> ros_time_active
      BY <1>7, <2>2
    <3>2. \A t \in Threads : pc[t] \notin Enabling
      BY <1>4 DEF Threads, Enabling
    <3>3. /\ (ros_time_active /\ ~skipped /\ ~leftover) =>
               \A c \in associated_clocks : clock[c] = [active |-> TRUE, time |-> last_msg]
          /\ (~ros_time_active /\ ~leftover) => \A c \in associated_clocks : ~clock[c].active
      BY <3>2 DEF ClockInv, ClocksFollow
    <3> QED
      BY <1>1, <3>1, <3>3 DEF ClocksFollow
  <2> QED
    BY <2>1, <2>2
<1> QED
  BY <1>1, <1>9, <1>10, <1>11 DEF ClockInv

LEMMA AttachDeclaresKeeps ==
  ASSUME Storing, ClockInv, ~undefined, AttachDeclares \/ AttachGets
  PROVE  ClockInv'
<1>1. /\ pc[User] \in {"declare", "get"} /\ UNCHANGED todo
      /\ UNCHANGED <<interfaces, clocks, clock_msgs, clock_subscription, last_msg>>
      /\ (\E value : UseSimTime(value)) \/ (Goto(User, "idle") /\ UNCHANGED flags)
  BY DEF AttachDeclares, AttachGets, queues
<1>2. UNCHANGED events \/ parameter_subscription
  BY StoreIsElsewhere DEF AttachDeclares, AttachGets, queues
<1> QED
  BY <1>1, <1>2, AttachReadsKeeps

LEMMA SubscribeKeeps ==
  ASSUME Storing, ClockInv, ~undefined, Subscribe
  PROVE  ClockInv'
<1>1. /\ pc[User] = "subscribe" /\ attached' = attached /\ parameter_subscription' = TRUE
      /\ leftover' = leftover /\ undefined' = undefined
      /\ parameter_state' = parameter_state /\ ros_time_active' = ros_time_active
      /\ associated_clocks' = associated_clocks /\ clock' = clock /\ skipped' = skipped
      /\ clock_msgs' = clock_msgs /\ clock_subscription' = clock_subscription
      /\ last_msg' = last_msg /\ events' = events /\ todo' = todo
      /\ pc' = [pc EXCEPT ![User] = "idle"]
  BY DEF Subscribe, Goto, flags, clocks, queues
<1>2. pc'[User] = "idle" /\ pc'[Executor] = pc[Executor]
  BY <1>1, UserGoesTo
<1>3. InCallback' = InCallback
  BY <1>2 DEF InCallback
<1>4. Excluding'
  BY <1>1, <1>2, <1>3 DEF ClockInv, Excluding, Early
<1>5. Switching'
  BY <1>1, <1>2 DEF ClockInv, Switching, Threads
<1>6. ClocksFollow'
  BY <1>1, <1>2 DEF ClockInv, ClocksFollow, Threads, Enabling
<1> QED
  BY <1>1, <1>4, <1>5, <1>6 DEF ClockInv

\* While a callback runs the user's thread is not in attachNode's first part.
LEMMA CallbackAlone ==
  ASSUME ClockInv, ~undefined, InCallback
  PROVE  attached /\ pc[User] \in {"idle", "set", "subscribe"}
  BY DEF ClockInv, Excluding

\* A callback that leaves the clocks alone and changes no flag.
LEMMA CallbackMoves ==
  ASSUME Storing, ClockInv, ~undefined, InCallback \/ attached,
         NEW step, pc'[Executor] = step, pc'[User] = pc[User], pc[Executor] \notin Enabling,
         step \notin Enabling, step = "clock_cache" /\ parameter_state' = "SET_TRUE" => ros_time_active,
         step \notin {"idle", "set", "serve"} => pc[User] \notin Early,
         UNCHANGED <<interfaces, clocks, last_msg>>, ros_time_active' <=> ros_time_active,
         events' = <<>> \/ parameter_subscription, clock_msgs' = <<>> \/ clock_subscription',
         clock_subscription' => clock_subscription \/ pc[User] \notin Early
  PROVE  ClockInv'
<1>1. /\ attached' = attached /\ parameter_subscription' = parameter_subscription
      /\ leftover' = leftover /\ undefined' = undefined
      /\ associated_clocks' = associated_clocks /\ clock' = clock /\ skipped' = skipped
      /\ last_msg' = last_msg
  BY DEF interfaces, clocks
<1>2. pc'[Executor] = step /\ pc'[User] = pc[User]
  OBVIOUS
<1>3. attached
  BY CallbackAlone
<1>4. Excluding'
  BY <1>1, <1>2, <1>3 DEF ClockInv, Excluding, InCallback
<1>5. Switching'
  BY <1>1, <1>2 DEF ClockInv, Switching, Threads, Enabling
<1>6. (\A t \in Threads : pc'[t] \notin Enabling) => \A t \in Threads : pc[t] \notin Enabling
  BY <1>2 DEF Threads
<1>7. ClocksFollow'
  BY <1>1, <1>6, ClocksStay DEF ClockInv
<1> QED
  BY <1>1, <1>4, <1>5, <1>7 DEF ClockInv

\* Whoever sets all clocks as ros_time_active_ says makes them follow.
LEMMA ClocksSet ==
  ASSUME ClockInv, NEW active \in BOOLEAN, NEW time, SetClocks(associated_clocks, active, time),
         UNCHANGED <<associated_clocks, ros_time_active, leftover>>, skipped' = FALSE,
         time = last_msg' \/ ~active, ros_time_active <=> active
  PROVE  ClocksFollow'
<1>1. \A c \in associated_clocks : clock'[c] = [active |-> active, time |-> time]
  BY DEF ClockInv, SetClocks
<1>2. ros_time_active' = ros_time_active /\ associated_clocks' = associated_clocks
  OBVIOUS
<1>3. CASE active
  <2>1. \A c \in associated_clocks' : clock'[c] = [active |-> TRUE, time |-> last_msg']
    BY <1>1, <1>2, <1>3
  <2>2. ros_time_active'
    BY <1>2, <1>3
  <2> QED
    BY <2>1, <2>2 DEF ClocksFollow
<1>4. CASE ~active
  <2>1. \A c \in associated_clocks' : ~clock'[c].active
    BY <1>1, <1>2, <1>4
  <2>2. ~ros_time_active'
    BY <1>2, <1>4
  <2> QED
    BY <2>1, <2>2 DEF ClocksFollow
<1> QED
  BY <1>3, <1>4

\* enable_ros_time and disable_ros_time.
LEMMA EnableClocksKeeps ==
  ASSUME Storing, ClockInv, ~undefined, NEW t \in Threads,
         EnableClocks(t) \/ (t = Executor /\ DisableClocks(t)) \/ (t = Executor /\ ClockEnable)
  PROVE  ClockInv'
<1> DEFINE active == ~DisableClocks(t)
<1>1. /\ attached' = attached /\ parameter_subscription' = parameter_subscription
      /\ leftover' = leftover /\ undefined' = undefined
      /\ parameter_state' = parameter_state /\ ros_time_active' = ros_time_active
      /\ skipped' = FALSE /\ todo' = todo
      /\ clock_msgs' = clock_msgs /\ clock_subscription' = clock_subscription
      /\ last_msg' = last_msg /\ events' = events /\ associated_clocks' = associated_clocks
  BY DEF EnableClocks, DisableClocks, ClockEnable, interfaces, flags, queues
<1>2. PICK step \in {"create_sub", "destroy_sub", "clock_cache"} :
        /\ pc' = [pc EXCEPT ![t] = step]
        /\ \/ pc[t] \in {"enable", "clock_enable"} /\ SetClocks(associated_clocks, TRUE, last_msg)
           \/ pc[t] = "disable" /\ SetClocks(associated_clocks, FALSE, 0)
        /\ step = "clock_cache" => pc[t] = "clock_enable" /\ t = Executor
        /\ pc[t] # "enable" => t = Executor
        /\ t = User => step = "create_sub"
  BY DEF EnableClocks, DisableClocks, ClockEnable, Goto, User, Executor
<1>3. ros_time_active <=> pc[t] # "disable"
  BY <1>2 DEF ClockInv, Switching
<1>4. ClocksFollow'
  <2>1. CASE pc[t] # "disable"
    <3>1. SetClocks(associated_clocks, TRUE, last_msg)
      BY <1>2, <2>1
    <3> QED
      BY <1>1, <1>3, <2>1, <3>1, ClocksSet
  <2>2. CASE pc[t] = "disable"
    <3>1. SetClocks(associated_clocks, FALSE, 0)
      BY <1>2, <2>2
    <3> QED
      BY <1>1, <1>3, <2>2, <3>1, ClocksSet
  <2> QED
    BY <2>1, <2>2
<1>5. t = Executor => InCallback
  BY <1>2 DEF InCallback
<1>6. \A u \in Threads : pc'[u] = IF u = t THEN step ELSE pc[u]
  BY <1>2 DEF Storing
<1>7. User \in Threads /\ Executor \in Threads /\ User # Executor
  BY DEF Threads, User, Executor
<1>8. InCallback' = InCallback
  BY <1>2, <1>5, <1>6, <1>7 DEF InCallback
<1>9. Excluding'
  <2>1. CASE t = User
    <3>1. pc'[User] = "create_sub" /\ pc[User] = "enable"
      BY <1>2, <1>6, <1>7, <2>1
    <3> QED
      BY <1>1, <1>8, <3>1 DEF ClockInv, Excluding, Early
  <2>2. CASE t = Executor
    <3>1. pc'[User] = pc[User]
      BY <1>6, <1>7, <2>2
    <3> QED
      BY <1>1, <1>8, <3>1 DEF ClockInv, Excluding
  <2> QED
    BY <2>1, <2>2 DEF Threads
<1>10. Switching'
  <2>1. \A u \in Threads : pc'[u] \in Enabling => pc'[u] = pc[u]
    BY <1>6 DEF Enabling
  <2>2. pc'[Executor] = "clock_set" => pc[Executor] = "clock_set"
    BY <1>6, <1>7
  <2>3. pc'[Executor] = "clock_cache" => pc[Executor] = "clock_cache" \/ ros_time_active
    BY <1>2, <1>3, <1>6, <1>7
  <2>4. Switching
    BY DEF ClockInv
  <2> QED
    BY <1>1, <1>7, <2>1, <2>2, <2>3, <2>4 DEF Switching, Enabling
<1> QED
  BY <1>1, <1>4, <1>9, <1>10 DEF ClockInv

\* A callback that is about to change the clocks: until it has, they may lag.
LEMMA CallbackBegins ==
  ASSUME ClockInv, ~undefined, InCallback,
         NEW step \in Enabling, pc'[Executor] = step, pc'[User] = pc[User],
         ros_time_active' <=> step # "disable",
         step = "clock_set" => last_msg' = Head(todo'[Executor]),
         UNCHANGED <<interfaces, associated_clocks, events, clock_msgs, clock_subscription>>
  PROVE  ClockInv'
<1>1. /\ attached' = attached /\ parameter_subscription' = parameter_subscription
      /\ undefined' = undefined /\ associated_clocks' = associated_clocks
      /\ events' = events /\ clock_msgs' = clock_msgs
      /\ clock_subscription' = clock_subscription
  BY DEF interfaces
<1>2. attached /\ pc[User] \in {"idle", "set", "subscribe"}
  BY CallbackAlone
<1>3. Excluding'
  BY <1>1, <1>2 DEF ClockInv, Excluding, Early
<1>4. Switching'
  BY <1>2 DEF Switching, Threads, Enabling
<1>5. ClocksFollow'
  BY DEF ClocksFollow, Threads
<1> QED
  BY <1>1, <1>3, <1>4, <1>5 DEF ClockInv

\* on_parameter_event, one value of use_sim_time after the other.
LEMMA TakeEventKeeps ==
  ASSUME Storing, ClockInv, ~undefined, TakeEvent
  PROVE  ClockInv'
<1>1. /\ pc[Executor] = "idle" /\ pc' = [pc EXCEPT ![Executor] = "event"] /\ events # <<>>
      /\ UNCHANGED <<interfaces, ros_time_active, clocks, last_msg, clock_msgs, clock_subscription>>
  BY DEF TakeEvent, Goto, flags
<1>2. parameter_subscription /\ attached /\ pc[User] \notin Early
  BY <1>1 DEF ClockInv, Excluding, Early
<1>3. clock_msgs = <<>> \/ clock_subscription
  BY DEF ClockInv, Excluding
<1>4. pc'[Executor] = "event" /\ pc'[User] = pc[User]
  BY <1>1, ExecutorGoesTo
<1> QED
  BY <1>1, <1>2, <1>3, <1>4, CallbackMoves DEF Enabling

LEMMA OnParameterEventKeeps ==
  ASSUME Storing, ClockInv, ~undefined, OnParameterEvent
  PROVE  ClockInv'
<1>1. PICK step \in {"match", "idle"} :
        /\ pc[Executor] = "event" /\ pc' = [pc EXCEPT ![Executor] = step]
        /\ UNCHANGED <<interfaces, ros_time_active, clocks, last_msg, events, clock_msgs,
                       clock_subscription>>
  BY DEF OnParameterEvent, Goto, flags, queues
<1>2. InCallback
  BY <1>1 DEF InCallback
<1>3. pc[User] \notin Early
  BY <1>2, CallbackAlone DEF Early
<1>4. /\ events = <<>> \/ parameter_subscription
      /\ clock_msgs = <<>> \/ clock_subscription
  BY DEF ClockInv, Excluding
<1>5. pc'[Executor] = step /\ pc'[User] = pc[User]
  BY <1>1, ExecutorGoesTo
<1> QED
  BY <1>1, <1>2, <1>3, <1>4, <1>5, CallbackMoves DEF Enabling

LEMMA NextMatchKeeps ==
  ASSUME Storing, ClockInv, ~undefined, NextMatch
  PROVE  ClockInv'
<1>1. /\ pc[Executor] = "match"
      /\ UNCHANGED <<interfaces, clocks, last_msg, events, clock_msgs, clock_subscription>>
      /\ \/ ros_time_active' = ros_time_active /\ UNCHANGED pc
         \/ ros_time_active' = ros_time_active /\ pc' = [pc EXCEPT ![Executor] = "idle"]
         \/ ros_time_active' = TRUE /\ ros_time_active /\ pc' = [pc EXCEPT ![Executor] = "create_sub"]
         \/ ros_time_active' = TRUE /\ pc' = [pc EXCEPT ![Executor] = "enable"]
         \/ ros_time_active' = FALSE /\ pc' = [pc EXCEPT ![Executor] = "disable"]
         \/ ros_time_active' = FALSE /\ ~ros_time_active /\ pc' = [pc EXCEPT ![Executor] = "destroy_sub"]
  BY DEF NextMatch, Apply, Goto, flags, queues
<1>2. InCallback
  BY <1>1 DEF InCallback
<1>3. pc[User] \notin Early
  BY <1>2, CallbackAlone DEF Early
<1>4. /\ events = <<>> \/ parameter_subscription
      /\ clock_msgs = <<>> \/ clock_subscription
  BY DEF ClockInv, Excluding
<1>5. PICK step \in {"match", "idle", "create_sub", "enable", "disable", "destroy_sub"} :
        /\ pc'[Executor] = step /\ pc'[User] = pc[User]
        /\ step = "enable" => ros_time_active'
        /\ step = "disable" => ~ros_time_active'
        /\ step \notin Enabling => (ros_time_active' <=> ros_time_active)
  <2>1. CASE UNCHANGED pc /\ ros_time_active' = ros_time_active
    BY <1>1, <2>1
  <2>2. CASE ros_time_active' = ros_time_active /\ pc' = [pc EXCEPT ![Executor] = "idle"]
    BY <2>2, ExecutorGoesTo
  <2>3. CASE /\ ros_time_active' = TRUE /\ ros_time_active
             /\ pc' = [pc EXCEPT ![Executor] = "create_sub"]
    BY <2>3, ExecutorGoesTo
  <2>4. CASE ros_time_active' = TRUE /\ pc' = [pc EXCEPT ![Executor] = "enable"]
    BY <2>4, ExecutorGoesTo DEF Enabling
  <2>5. CASE ros_time_active' = FALSE /\ pc' = [pc EXCEPT ![Executor] = "disable"]
    BY <2>5, ExecutorGoesTo DEF Enabling
  <2>6. CASE /\ ros_time_active' = FALSE /\ ~ros_time_active
             /\ pc' = [pc EXCEPT ![Executor] = "destroy_sub"]
    BY <2>6, ExecutorGoesTo
  <2> QED
    BY <1>1, <2>1, <2>2, <2>3, <2>4, <2>5, <2>6
<1>6. CASE step \in Enabling
  <2>1. UNCHANGED associated_clocks
    BY <1>1 DEF clocks
  <2>2. ros_time_active' <=> step # "disable"
    BY <1>5, <1>6 DEF Enabling
  <2>3. step # "clock_set"
    BY <1>5
  <2> QED
    BY <1>1, <1>2, <1>5, <1>6, <2>1, <2>2, <2>3, CallbackBegins
<1>7. CASE step \notin Enabling
  <2>1. ros_time_active' <=> ros_time_active
    BY <1>1, <1>5, <1>7
  <2> QED
    BY <1>1, <1>2, <1>3, <1>4, <1>5, <1>7, <2>1, CallbackMoves DEF Enabling
<1> QED
  BY <1>6, <1>7

\* The subscription to /clock.
LEMMA CreateClockSubKeeps ==
  ASSUME Storing, ClockInv, ~undefined, NEW t \in Threads, CreateClockSub(t)
  PROVE  ClockInv'
<1>1. /\ pc[t] = "create_sub" /\ clock_subscription' = TRUE
      /\ pc' = [pc EXCEPT ![t] = IF t = User THEN "subscribe" ELSE "match"]
      /\ UNCHANGED <<interfaces, flags, clocks, events, clock_msgs, last_msg, todo>>
  BY DEF CreateClockSub, Goto
<1>2. CASE t = User
  <2>1. pc'[User] = "subscribe" /\ pc'[Executor] = pc[Executor]
    BY <1>1, <1>2, UserGoesTo
  <2>2. /\ attached' = attached /\ parameter_subscription' = parameter_subscription
        /\ leftover' = leftover /\ undefined' = undefined
        /\ associated_clocks' = associated_clocks /\ clock' = clock /\ skipped' = skipped
        /\ last_msg' = last_msg /\ events' = events /\ clock_msgs' = clock_msgs
        /\ parameter_state' = parameter_state /\ ros_time_active' = ros_time_active
        /\ todo' = todo
    BY <1>1 DEF interfaces, flags, clocks
  <2>3. InCallback' = InCallback
    BY <2>1 DEF InCallback
  <2>4. pc[User] = "create_sub"
    BY <1>1, <1>2
  <2>5. Excluding'
    BY <1>1, <2>1, <2>2, <2>3, <2>4 DEF ClockInv, Excluding, Early
  <2>6. Switching'
    BY <2>1, <2>2 DEF ClockInv, Switching, Threads
  <2>7. (\A u \in Threads : pc'[u] \notin Enabling) => \A u \in Threads : pc[u] \notin Enabling
    BY <2>1, <2>4 DEF Threads, Enabling
  <2>8. ClocksFollow'
    BY <2>2, <2>7, ClocksStay DEF ClockInv
  <2> QED
    BY <2>2, <2>5, <2>6, <2>8 DEF ClockInv
<1>3. CASE t = Executor
  <2>1. pc' = [pc EXCEPT ![Executor] = "match"] /\ pc[Executor] = "create_sub"
    BY <1>1, <1>3 DEF User, Executor
  <2>2. InCallback
    BY <2>1 DEF InCallback
  <2>3. pc[User] \notin Early
    BY <2>2, CallbackAlone DEF Early
  <2>4. events = <<>> \/ parameter_subscription
    BY DEF ClockInv, Excluding
  <2>5. pc'[Executor] = "match" /\ pc'[User] = pc[User]
    BY <2>1, ExecutorGoesTo
  <2> QED
    BY <1>1, <2>1, <2>2, <2>3, <2>4, <2>5, CallbackMoves DEF Enabling, flags
<1> QED
  BY <1>2, <1>3 DEF Threads

LEMMA DestroyClockSubKeeps ==
  ASSUME Storing, ClockInv, ~undefined, DestroyClockSub(Executor)
  PROVE  ClockInv'
<1>1. /\ pc[Executor] = "destroy_sub" /\ clock_subscription' = FALSE /\ clock_msgs' = <<>>
      /\ pc' = [pc EXCEPT ![Executor] = "match"]
      /\ UNCHANGED <<interfaces, ros_time_active, clocks, events, last_msg>>
  BY DEF DestroyClockSub, Goto, flags
<1>2. InCallback
  BY <1>1 DEF InCallback
<1>3. pc[User] \notin Early
  BY <1>2, CallbackAlone DEF Early
<1>4. events = <<>> \/ parameter_subscription
  BY DEF ClockInv, Excluding
<1>5. pc'[Executor] = "match" /\ pc'[User] = pc[User]
  BY <1>1, ExecutorGoesTo
<1> QED
  BY <1>1, <1>2, <1>3, <1>4, <1>5, CallbackMoves DEF Enabling

\* A message on /clock, up to clock_cb's two writes.
LEMMA TickKeeps ==
  ASSUME ClockInv, ~undefined, Tick
  PROVE  ClockInv'
<1>1. /\ attached' = attached /\ parameter_subscription' = parameter_subscription
      /\ leftover' = leftover /\ undefined' = undefined
      /\ associated_clocks' = associated_clocks /\ clock' = clock /\ skipped' = skipped
      /\ last_msg' = last_msg /\ events' = events
      /\ parameter_state' = parameter_state /\ ros_time_active' = ros_time_active
      /\ todo' = todo /\ pc' = pc
      /\ clock_subscription /\ clock_subscription' = clock_subscription
  BY DEF Tick, interfaces, flags, clocks
<1>2. Excluding' /\ Switching'
  BY <1>1 DEF ClockInv, Excluding, InCallback, Switching
<1>3. ClocksFollow'
  BY <1>1, ClocksStay DEF ClockInv
<1> QED
  BY <1>1, <1>2, <1>3 DEF ClockInv

LEMMA TakeClockKeeps ==
  ASSUME Storing, ClockInv, ~undefined, TakeClock
  PROVE  ClockInv'
<1>1. /\ pc[Executor] = "idle" /\ pc' = [pc EXCEPT ![Executor] = "clock_cb"] /\ clock_msgs # <<>>
      /\ UNCHANGED <<interfaces, ros_time_active, clocks, last_msg, events, clock_subscription>>
  BY DEF TakeClock, Goto, flags
<1>2. clock_subscription /\ attached /\ pc[User] \notin Early
  BY <1>1 DEF ClockInv, Excluding
<1>3. events = <<>> \/ parameter_subscription
  BY DEF ClockInv, Excluding
<1>4. pc'[Executor] = "clock_cb" /\ pc'[User] = pc[User]
  BY <1>1, ExecutorGoesTo
<1> QED
  BY <1>1, <1>2, <1>3, <1>4, CallbackMoves DEF Enabling

LEMMA ClockCbKeeps ==
  ASSUME Storing, ClockInv, ~undefined, ClockCb
  PROVE  ClockInv'
<1>1. /\ pc[Executor] = "clock_cb" /\ parameter_state' = parameter_state
      /\ UNCHANGED <<interfaces, clocks, last_msg, events, clock_msgs, clock_subscription>>
  BY DEF ClockCb, queues
<1>2. InCallback
  BY <1>1 DEF InCallback
<1>3. pc[User] \notin Early
  BY <1>2, CallbackAlone DEF Early
<1>4. /\ events = <<>> \/ parameter_subscription
      /\ clock_msgs = <<>> \/ clock_subscription
  BY DEF ClockInv, Excluding
<1>5. CASE ~ros_time_active /\ parameter_state = "SET_TRUE"
  <2>1. ros_time_active' = TRUE /\ pc' = [pc EXCEPT ![Executor] = "clock_enable"]
    BY <1>5 DEF ClockCb, Goto
  <2>2. pc'[Executor] = "clock_enable" /\ pc'[User] = pc[User]
    BY <2>1, ExecutorGoesTo
  <2> QED
    BY <1>1, <1>2, <2>1, <2>2, CallbackBegins DEF Enabling, clocks
<1>6. CASE ~(~ros_time_active /\ parameter_state = "SET_TRUE")
  <2>1. ros_time_active' = ros_time_active /\ pc' = [pc EXCEPT ![Executor] = "clock_cache"]
    BY <1>6 DEF ClockCb, Goto
  <2>2. pc'[Executor] = "clock_cache" /\ pc'[User] = pc[User]
    BY <2>1, ExecutorGoesTo
  <2> QED
    BY <1>1, <1>2, <1>3, <1>4, <1>6, <2>1, <2>2, CallbackMoves DEF Enabling
<1> QED
  BY <1>5, <1>6

\* The message is cached, and set when the parameter is true.
LEMMA ClockCacheKeeps ==
  ASSUME Storing, ClockInv, ~undefined, ClockCache
  PROVE  ClockInv'
<1>1. /\ pc[Executor] = "clock_cache" /\ last_msg' = Head(todo[Executor])
      /\ UNCHANGED <<associated_clocks, clock, interfaces, flags, events, clock_msgs,
                     clock_subscription>>
  BY DEF ClockCache
<1>2. InCallback
  BY <1>1 DEF InCallback
<1>3. CASE parameter_state = "SET_TRUE"
  <2>1. pc' = [pc EXCEPT ![Executor] = "clock_set"] /\ todo' = todo
    BY <1>3 DEF ClockCache, Goto
  <2>2. pc'[Executor] = "clock_set" /\ pc'[User] = pc[User]
    BY <2>1, ExecutorGoesTo
  <2>3. ros_time_active'
    BY <1>1, <1>3 DEF ClockInv, Switching, flags
  <2> QED
    BY <1>1, <1>2, <2>1, <2>2, <2>3, CallbackBegins DEF Enabling
<1>4. CASE parameter_state # "SET_TRUE"
  <2>1. pc' = [pc EXCEPT ![Executor] = "idle"] /\ skipped' = TRUE
    BY <1>4 DEF ClockCache, Goto
  <2>2. pc'[Executor] = "idle" /\ pc'[User] = pc[User]
    BY <2>1, ExecutorGoesTo
  <2>3. /\ attached' = attached /\ parameter_subscription' = parameter_subscription
        /\ leftover' = leftover /\ undefined' = undefined
        /\ associated_clocks' = associated_clocks /\ clock' = clock
        /\ events' = events /\ clock_msgs' = clock_msgs
        /\ parameter_state' = parameter_state /\ ros_time_active' = ros_time_active
        /\ clock_subscription' = clock_subscription
    BY <1>1 DEF interfaces, flags
  <2>4. attached /\ pc[User] \in {"idle", "set", "subscribe"}
    BY <1>2, CallbackAlone
  <2>5. Excluding'
    BY <2>2, <2>3, <2>4 DEF ClockInv, Excluding, InCallback, Early
  <2>6. Switching'
    BY <2>2, <2>3, <2>4 DEF Switching, Threads
  <2>7. ~ros_time_active /\ ~leftover => \A c \in associated_clocks : ~clock[c].active
    BY <1>1, <2>4 DEF ClockInv, ClocksFollow, Threads, Enabling
  <2>8. ClocksFollow'
    BY <2>1, <2>3, <2>7 DEF ClocksFollow
  <2> QED
    BY <2>3, <2>5, <2>6, <2>8 DEF ClockInv
<1> QED
  BY <1>3, <1>4

LEMMA ClockSetKeeps ==
  ASSUME Storing, ClockInv, ~undefined, ClockSet
  PROVE  ClockInv'
<1>1. /\ pc[Executor] = "clock_set" /\ pc' = [pc EXCEPT ![Executor] = "idle"]
      /\ SetClocks(associated_clocks, TRUE, Head(todo[Executor])) /\ skipped' = FALSE
      /\ attached' = attached /\ parameter_subscription' = parameter_subscription
      /\ leftover' = leftover /\ undefined' = undefined
      /\ associated_clocks' = associated_clocks /\ last_msg' = last_msg
      /\ events' = events /\ clock_msgs' = clock_msgs
      /\ parameter_state' = parameter_state /\ ros_time_active' = ros_time_active
      /\ clock_subscription' = clock_subscription
  BY DEF ClockSet, Goto, interfaces, flags, queues
<1>2. pc'[Executor] = "idle" /\ pc'[User] = pc[User]
  BY <1>1, ExecutorGoesTo
<1>3. InCallback
  BY <1>1 DEF InCallback
<1>4. attached /\ pc[User] \in {"idle", "set", "subscribe"}
  BY <1>3, CallbackAlone
<1>5. Excluding'
  BY <1>1, <1>2, <1>4 DEF ClockInv, Excluding, InCallback, Early
<1>6. Switching'
  BY <1>1, <1>2, <1>4 DEF Switching, Threads
<1>7. ros_time_active /\ Head(todo[Executor]) = last_msg'
  BY <1>1 DEF ClockInv, Switching, Threads
<1>8. ClocksFollow'
  BY <1>1, <1>7, ClocksSet
<1> QED
  BY <1>1, <1>5, <1>6, <1>8 DEF ClockInv

LEMMA ClockInvHolds == Init => ClockInv
<1> SUFFICES ASSUME Init
             PROVE  ClockInv
  OBVIOUS
<1>1. /\ attached = FALSE /\ parameter_subscription = FALSE /\ clock_subscription = FALSE
      /\ events = <<>> /\ clock_msgs = <<>> /\ ros_time_active = FALSE
      /\ associated_clocks = {} /\ pc = [t \in Threads |-> "idle"]
  BY DEF Init, SourceInit
<1>2. \A t \in Threads : pc[t] = "idle"
  BY <1>1
<1>3. pc[User] = "idle" /\ pc[Executor] = "idle"
  BY <1>2 DEF Threads
<1>4. Excluding
  BY <1>1, <1>3 DEF Excluding, InCallback, Early
<1>5. Switching
  BY <1>2, <1>3 DEF Switching
<1>6. ClocksFollow
  BY <1>1 DEF ClocksFollow
<1> QED
  BY <1>1, <1>4, <1>5, <1>6 DEF ClockInv

LEMMA ClockInvKept == IInv /\ ClockInv /\ [Next]_vars => ClockInv'
<1> SUFFICES ASSUME IInv, ClockInv, [Next]_vars
             PROVE  ClockInv'
  OBVIOUS
<1>1. Storing
  BY DEF IInv
<1>2. CASE UNCHANGED vars
  BY <1>1, <1>2, StepsElsewhere, ElsewhereKeeps
<1>3. CASE Next
  <2>1. ~undefined
    BY <1>3 DEF Next
  <2>2. CASE CallTimeSource
    BY <2>1, <2>2, DetachNodeKeeps, AttachClockKeeps, DetachClockKeeps DEF CallTimeSource
  <2>3. CASE AttachNode
    BY <1>1, <2>1, <2>3, AttachNodeKeeps
  <2>4. CASE AttachDeclares \/ AttachGets
    BY <1>1, <2>1, <2>4, AttachDeclaresKeeps
  <2>5. CASE Subscribe
    BY <1>1, <2>1, <2>5, SubscribeKeeps
  <2>6. CASE SourceStep
    <3>1. \/ \E t \in Threads : EnableClocks(t) \/ CreateClockSub(t)
          \/ DisableClocks(Executor) \/ DestroyClockSub(Executor)
          \/ TakeEvent \/ OnParameterEvent \/ NextMatch
          \/ Tick \/ TakeClock \/ ClockCb \/ ClockEnable \/ ClockCache \/ ClockSet
      BY <2>6 DEF SourceStep, SourceSteps
    <3>2. Executor \in Threads
      BY DEF Threads
    <3> QED
      BY <1>1, <2>1, <3>1, <3>2, EnableClocksKeeps, CreateClockSubKeeps, DestroyClockSubKeeps,
         TakeEventKeeps, OnParameterEventKeeps, NextMatchKeeps, TickKeeps, TakeClockKeeps,
         ClockCbKeeps, ClockCacheKeeps, ClockSetKeeps
  <2>7. CASE \/ \E d \in Defaults : CallDeclare(d) \/ CallUndeclare(d.name)
             \/ \E ps \in ParamLists : CallSetAtomically(ps) \/ CallSetParameters(ps)
             \/ CallSetCallback \/ (\E t \in Threads : SetNext(t)) \/ SetReturns
             \/ TakeRequest \/ ServeSet \/ ServeAtomically \/ ServeQuery
             \/ (\E r \in Requests : SendRequest(r)) \/ StorePending \/ SpinReturns
             \/ HandleResponse \/ Complete
    BY <1>1, <2>7, StepsElsewhere, ElsewhereKeeps
  <2> QED
    BY <1>3, <2>2, <2>3, <2>4, <2>5, <2>6, <2>7 DEF Next
<1> QED
  BY <1>2, <1>3

\* Between callbacks and calls the attached clocks agree with the time source,
\* for any clocks, messages, calls and requests.
THEOREM ClocksFollowTime == Spec => []ClocksFollow
<1>1. ClockInv => ClocksFollow
  BY DEF ClockInv, ClocksFollow
<1> QED
  BY <1>1, IInvHolds, IInvKept, ClockInvHolds, ClockInvKept, PTL DEF Spec

------------------------------------------------------------------------------
(* The time source and use_sim_time. *)

\* What is left of an event for on_parameter_event to apply: values of
\* use_sim_time, and the mark at the end.
Matched ==
  [name: Names, value: [type: {"not_set", "bool", "integer", "double", "string", "end"}, v: Int]]
Applying == {"match", "enable", "create_sub", "disable", "destroy_sub"}

Handled ==
  /\ events \in Seq(ParameterEvents)
  /\ pc[Executor] = "event" => todo[Executor] \in Seq(ParameterEvents) /\ Len(todo[Executor]) = 1
  /\ pc[Executor] \in Applying =>
       /\ todo[Executor] \in Seq(Matched) /\ todo[Executor] # <<>>
       /\ \A i \in 1 .. Len(todo[Executor]) :
            todo[Executor][i].value.type = "end" <=> i = Len(todo[Executor])

\* An event may tell the time source of use_sim_time; its last value counts.
Tells(e) == e.named /\ SimTime \in NamesIn(e.new \o e.changed)
Told(e) == LastOf(e.new \o e.changed, SimTime)

\* The last value told and not applied yet is the current one: that of the last
\* event that tells one, or else the value at hand, or else the source has it.
Agrees(current, es, at_hand, value, active) ==
  /\ \A i \in DOMAIN es :
       Tells(es[i]) /\ (\A j \in DOMAIN es : j > i => ~Tells(es[j])) => Told(es[i]) = current
  /\ (\A i \in DOMAIN es : ~Tells(es[i])) =>
       IF at_hand THEN value = current ELSE active <=> current.v = 1

\* What the executor is still to apply of the event it handles.
InHand == \/ pc[Executor] = "event" /\ Tells(todo[Executor][1])
          \/ pc[Executor] \in Applying /\ Len(todo[Executor]) > 1
HandValue == IF pc[Executor] = "event" THEN Told(todo[Executor][1])
             ELSE todo[Executor][Len(todo[Executor]) - 1].value

\* attachNode has read the parameter, and its changes come by events or not at
\* all.
Informed == parameter_subscription \/ pc[User] \in {"enable", "create_sub", "subscribe"}
Current == ValueOf(parameters, SimTime)
Agreeing ==
  Informed /\ ~silent /\ Current.type = "bool" =>
    Agrees(Current, events, InHand, HandValue, ros_time_active)

\* The subscription to /clock follows ros_time_active_, a step behind.
Subscribing ==
  /\ ros_time_active \in BOOLEAN /\ clock_subscription \in BOOLEAN
  /\ ~(clock_subscription <=> ros_time_active) =>
       \/ pc[Executor] \in {"enable", "create_sub", "disable", "destroy_sub"}
       \/ pc[User] \in {"enable", "create_sub"}
  /\ \A t \in Threads : pc[t] \in {"enable", "create_sub"} => ros_time_active
  /\ pc[Executor] \in {"disable", "destroy_sub"} => ~ros_time_active
  /\ pc[Executor] \in {"clock_cb", "clock_cache", "clock_set"} => clock_subscription
  /\ pc[Executor] # "clock_enable"
  /\ ~attached \/ pc[User] \in {"get", "declare"} => ~ros_time_active

SimInv == ~undefined => Handled /\ Agreeing /\ Subscribing

\* An event is added to those that wait.
LEMMA EventAdded ==
  ASSUME NEW es \in Seq(ParameterEvents), NEW e, NEW current, NEW h, NEW v, NEW a
  PROVE  /\ ~Tells(e) /\ Agrees(current, es, h, v, a) => Agrees(current, Append(es, e), h, v, a)
         /\ Tells(e) /\ Told(e) = current => Agrees(current, Append(es, e), h, v, a)
<1> DEFINE more == Append(es, e)
           N == Len(es)
<1>1. /\ N \in Nat /\ DOMAIN es = 1 .. N /\ DOMAIN more = 1 .. N + 1
      /\ \A i \in 1 .. N : more[i] = es[i]
      /\ more[N + 1] = e
  BY LenProperties, AppendProperties
<1> HIDE DEF more, N
<1>2. ASSUME ~Tells(e), Agrees(current, es, h, v, a)
      PROVE  Agrees(current, more, h, v, a)
  <2>1. ASSUME NEW i \in DOMAIN more, Tells(more[i]),
               \A j \in DOMAIN more : j > i => ~Tells(more[j])
        PROVE  Told(more[i]) = current
    <3>1. i \in DOMAIN es /\ more[i] = es[i]
      BY <1>1, <1>2, <2>1
    <3>2. \A j \in DOMAIN es : j > i => ~Tells(es[j])
      BY <1>1, <2>1
    <3> QED
      BY <1>2, <2>1, <3>1, <3>2 DEF Agrees
  <2>2. ASSUME \A i \in DOMAIN more : ~Tells(more[i])
        PROVE  IF h THEN v = current ELSE a <=> current.v = 1
    <3>1. \A i \in DOMAIN es : ~Tells(es[i])
      BY <1>1, <2>2
    <3> QED
      BY <1>2, <3>1 DEF Agrees
  <2> QED
    BY <2>1, <2>2 DEF Agrees
<1>3. ASSUME Tells(e), Told(e) = current
      PROVE  Agrees(current, more, h, v, a)
  <2>1. N + 1 \in DOMAIN more /\ Tells(more[N + 1])
    BY <1>1, <1>3
  <2>2. ASSUME NEW i \in DOMAIN more, Tells(more[i]),
               \A j \in DOMAIN more : j > i => ~Tells(more[j])
        PROVE  Told(more[i]) = current
    <3>1. i = N + 1
      BY <1>1, <2>1, <2>2
    <3> QED
      BY <1>1, <1>3, <3>1
  <2> QED
    BY <2>1, <2>2 DEF Agrees
<1> QED
  BY <1>2, <1>3 DEF more

\* The first event is taken to be handled.
LEMMA EventTaken ==
  ASSUME NEW es \in Seq(ParameterEvents), es # <<>>, NEW current, NEW v, NEW a,
         Agrees(current, es, FALSE, v, a)
  PROVE  Agrees(current, Tail(es), Tells(Head(es)), Told(Head(es)), a)
<1> DEFINE N == Len(es)
           rest == Tail(es)
<1>1. /\ N \in Nat \ {0} /\ DOMAIN es = 1 .. N /\ Head(es) = es[1]
      /\ rest \in Seq(ParameterEvents) /\ Len(rest) = N - 1
      /\ \A i \in 1 .. N - 1 : rest[i] = es[i + 1]
  BY LenProperties, EmptySeq, HeadTailProperties
<1>2. DOMAIN rest = 1 .. N - 1
  BY <1>1, LenProperties
<1> HIDE DEF rest, N
<1>3. ASSUME NEW i \in DOMAIN rest, Tells(rest[i]), \A j \in DOMAIN rest : j > i => ~Tells(rest[j])
      PROVE  Told(rest[i]) = current
  <2>1. i + 1 \in DOMAIN es /\ es[i + 1] = rest[i]
    BY <1>1, <1>2
  <2>2. ASSUME NEW j \in DOMAIN es, j > i + 1
        PROVE  ~Tells(es[j])
    <3>1. j - 1 \in DOMAIN rest /\ j - 1 > i /\ es[(j - 1) + 1] = rest[j - 1] /\ (j - 1) + 1 = j
      BY <1>1, <1>2, <2>2
    <3> QED
      BY <1>3, <3>1
  <2> QED
    BY <1>3, <2>1, <2>2 DEF Agrees
<1>4. ASSUME \A i \in DOMAIN rest : ~Tells(rest[i])
      PROVE  IF Tells(Head(es)) THEN Told(Head(es)) = current ELSE a <=> current.v = 1
  <2>1. ASSUME NEW j \in DOMAIN es, j > 1
        PROVE  ~Tells(es[j])
    <3>1. j - 1 \in DOMAIN rest /\ es[(j - 1) + 1] = rest[j - 1] /\ (j - 1) + 1 = j
      BY <1>1, <1>2, <2>1
    <3> QED
      BY <1>4, <3>1
  <2>2. 1 \in DOMAIN es
    BY <1>1
  <2>3. CASE Tells(es[1])
    BY <1>1, <2>1, <2>2, <2>3 DEF Agrees
  <2>4. CASE ~Tells(es[1])
    <3>1. \A j \in DOMAIN es : ~Tells(es[j])
      BY <1>1, <2>1, <2>4
    <3> QED
      BY <1>1, <2>4, <3>1 DEF Agrees
  <2> QED
    BY <2>3, <2>4
<1> QED
  BY <1>3, <1>4 DEF Agrees, rest

LEMMA NothingTold ==
  ASSUME NEW current, NEW h, NEW v, NEW a, ~h, a <=> current.v = 1
  PROVE  Agrees(current, <<>>, h, v, a)
  BY DEF Agrees

\* What a step does to the store and the events: the time source is not told of
\* use_sim_time, and then the value is as it was or the source will not learn
\* of it, or it is told of the value that it has now.
Quiet ==
  /\ events' = events \/ \E e \in ParameterEvents : events' = Append(events, e) /\ ~Tells(e)
  /\ ~silent' /\ Current'.type = "bool" => ~silent /\ Current' = Current
Loud ==
  \E e \in ParameterEvents : events' = Append(events, e) /\ Tells(e) /\ Told(e) = Current'

LEMMA UnchangedIsQuiet ==
  ASSUME UNCHANGED <<parameters, silent, events>>
  PROVE  Quiet
  BY DEF Quiet, Current

LEMMA PerformTells ==
  ASSUME SimInv, ~undefined, NEW o, Perform(o),
         \/ o.published = <<>>
         \/ \E e \in ParameterEvents :
              o.published = <<e>> /\ (e.named => TellsOf(e, SimTime, parameters, o.map))
  PROVE  Quiet \/ Loud
<1>1. /\ events \in Seq(ParameterEvents) /\ Current' = ValueOf(o.map, SimTime)
      /\ events' = IF parameter_subscription THEN events \o o.published ELSE events
  BY DEF SimInv, Handled, Perform, Store, Current
<1> DEFINE told == o.published # <<>> /\ o.published[1].named /\ parameter_subscription
           changed == Current' # Current
<1>2. silent' = IF told /\ SimTime \in NamesIn(o.published[1].new \o o.published[1].changed)
                THEN FALSE ELSE silent \/ (changed /\ ~told)
  BY <1>1 DEF Perform, Current
<1>3. CASE ~told
  <2>1. ~silent' => ~silent /\ Current' = Current
    BY <1>2, <1>3
  <2>2. CASE o.published = <<>> \/ ~parameter_subscription
    BY <1>1, <2>1, <2>2 DEF Quiet
  <2>3. CASE o.published # <<>> /\ parameter_subscription
    <3>1. PICK e \in ParameterEvents : o.published = <<e>>
      BY <2>3
    <3>2. ~e.named
      BY <1>3, <2>3, <3>1
    <3>3. events' = Append(events, e)
      BY <1>1, <2>3, <3>1
    <3> QED
      BY <2>1, <3>2, <3>3 DEF Quiet, Tells
  <2> QED
    BY <2>2, <2>3
<1>4. CASE told
  <2>1. PICK e \in ParameterEvents :
          o.published = <<e>> /\ (e.named => TellsOf(e, SimTime, parameters, o.map))
    BY <1>4
  <2>2. e.named /\ events' = Append(events, e)
    BY <1>1, <1>4, <2>1
  <2>3. TellsOf(e, SimTime, parameters, o.map) /\ o.published[1] = e
    BY <2>1, <2>2
  <2>4. CASE Tells(e)
    <3>1. Told(e) = Current'
      BY <1>1, <2>3, <2>4 DEF Tells, Told, TellsOf
    <3> QED
      BY <2>2, <2>4, <3>1 DEF Loud
  <2>5. CASE ~Tells(e)
    <3>1. SimTime \notin NamesIn(e.new \o e.changed)
      BY <2>2, <2>5 DEF Tells
    <3>2. Current' \in {Current, NotSet}
      BY <1>1, <2>3, <3>1 DEF TellsOf, Current
    <3>3. ~silent' => ~silent
      BY <1>2, <1>4, <2>3, <3>1
    <3>4. NotSet.type # "bool"
      BY DEF NotSet
    <3> QED
      BY <2>2, <2>5, <3>2, <3>3, <3>4 DEF Quiet
  <2> QED
    BY <2>4, <2>5
<1> QED
  BY <1>3, <1>4

LEMMA AtomicTells ==
  ASSUME SimInv, ~undefined, Storing, NEW ps \in Seq(Params),
         Perform(SetAtomically(parameters, ps, callback))
  PROVE  Quiet \/ Loud
<1> DEFINE o == SetAtomically(parameters, ps, callback)
<1>1. SoundMap(parameters) /\ callback \in BOOLEAN
  BY DEF Storing
<1>2. o.result # "ok" => o.published = <<>>
  BY <1>1, FailureTells
<1>3. o.result = "ok" =>
        \E e \in ParameterEvents :
          o.published = <<e>> /\ (e.named => TellsOf(e, SimTime, parameters, o.map))
  BY <1>1, SuccessTells
<1> HIDE DEF o
<1>4. Perform(o)
  BY DEF o
<1> QED
  BY <1>2, <1>3, <1>4, PerformTells

LEMMA DeclareTells ==
  ASSUME SimInv, ~undefined, NEW d \in Defaults,
         \A m \in DOMAIN overrides : overrides[m] \in Values,
         Perform(Declare(parameters, d.name, d.value, d.descriptor, callback))
  PROVE  Quiet \/ Loud
<1> DEFINE o == Declare(parameters, d.name, d.value, d.descriptor, callback)
           declared == DeclareCommon(d.name, d.value, d.descriptor, parameters, callback, TRUE)
           value == IF d.name \in DOMAIN overrides THEN overrides[d.name] ELSE d.value
           e == Event(FALSE, declared.new, <<>>, {})
<1>1. o.published = <<>> \/ o.published = <<e>>
  BY DEF Declare, Outcome
<1>2. declared.new = <<[name |-> d.name, value |-> value]>>
  BY DEF DeclareCommon
<1>3. d.name \in Names /\ value \in Values
  BY DefaultsAssumption
<1>4. e \in ParameterEvents /\ ~e.named
  <2>1. declared.new \in Seq(Params)
    <3> HIDE DEF value, declared
    <3>1. [name |-> d.name, value |-> value] \in Params
      BY <1>3 DEF Params
    <3> QED
      BY <1>2, <3>1
  <2> HIDE DEF declared
  <2>2. <<>> \in Seq(Params)
    OBVIOUS
  <2> QED
    BY <2>1, <2>2 DEF Event, ParameterEvents
<1> HIDE DEF o, e
<1>5. Perform(o)
  BY DEF o
<1> QED
  BY <1>1, <1>4, <1>5, PerformTells

LEMMA StepsTell ==
  ASSUME IInv, SimInv, ~undefined,
         \/ \E d \in Defaults : CallDeclare(d) \/ CallUndeclare(d.name)
         \/ \E ps \in ParamLists : CallSetAtomically(ps) \/ CallSetParameters(ps)
         \/ CallSetCallback \/ (\E t \in Threads : SetNext(t)) \/ SetReturns
         \/ TakeRequest \/ ServeSet \/ ServeAtomically \/ ServeQuery
         \/ (\E r \in Requests : SendRequest(r)) \/ StorePending \/ SpinReturns
         \/ HandleResponse \/ Complete \/ UNCHANGED vars
  PROVE  Quiet \/ Loud
<1>0. Storing
  BY DEF IInv
<1>1. ASSUME NEW d \in Defaults, CallDeclare(d)
      PROVE  Quiet \/ Loud
  BY <1>0, <1>1, DeclareTells DEF CallDeclare, Storing
<1>2. ASSUME NEW d \in Defaults, CallUndeclare(d.name)
      PROVE  Quiet \/ Loud
  <2>1. Undeclare(parameters, d.name).published = <<>>
    BY DEF Undeclare, Outcome
  <2> QED
    BY <1>2, <2>1, PerformTells DEF CallUndeclare
<1>3. ASSUME NEW ps \in ParamLists, CallSetAtomically(ps)
      PROVE  Quiet \/ Loud
  BY <1>0, <1>3, ListsAssumption, AtomicTells DEF CallSetAtomically
<1>4. ASSUME NEW t \in Threads, SetNext(t)
      PROVE  Quiet \/ Loud
  <2>1. /\ pc[t] = "set" /\ todo[t] # <<>>
        /\ Perform(SetAtomically(parameters, <<Head(todo[t])>>, callback))
    BY <1>4 DEF SetNext
  <2>2. <<Head(todo[t])>> \in Seq(Params)
    BY <1>0, <2>1, HeadOfList DEF Storing
  <2> QED
    BY <1>0, <2>1, <2>2, AtomicTells
<1>5. CASE ServeAtomically
  <2>1. /\ pc[Executor] = "serve"
        /\ Perform(SetAtomically(parameters, request[serving].list, callback))
    BY <1>5 DEF ServeAtomically
  <2>2. request[serving].list \in Seq(Params)
    BY <2>1, ServedFits DEF IInv, Serves, ServingSteps
  <2> QED
    BY <1>0, <2>1, <2>2, AtomicTells
<1>6. ASSUME NEW ps \in ParamLists, CallSetParameters(ps)
      PROVE  Quiet \/ Loud
  BY <1>6, UnchangedIsQuiet DEF CallSetParameters, storeVars, queues
<1>7. CASE CallSetCallback \/ SetReturns \/ TakeRequest \/ ServeSet \/ ServeQuery
  BY <1>7, UnchangedIsQuiet
     DEF CallSetCallback, SetReturns, TakeRequest, ServeSet, ServeQuery, storeVars, queues
<1>8. ASSUME UNCHANGED <<sourceVars, storeVars>>
      PROVE  Quiet
  BY <1>8, UnchangedIsQuiet DEF sourceVars, storeVars
<1>9. ASSUME NEW r \in Requests, SendRequest(r)
      PROVE  Quiet
  BY <1>8, <1>9 DEF SendRequest
<1>10. CASE StorePending \/ SpinReturns \/ HandleResponse \/ UNCHANGED vars
  BY <1>8, <1>10 DEF StorePending, SpinReturns, HandleResponse, vars
<1>11. CASE Complete
  BY <1>11, UnchangedIsQuiet DEF Complete, sourceVars
<1> QED
  BY <1>1, <1>2, <1>3, <1>4, <1>5, <1>6, <1>7, <1>9, <1>10, <1>11

\* A step that touches neither the source nor its callbacks.
LEMMA ElsewhereTells ==
  ASSUME SimInv, ~undefined, Elsewhere, Quiet \/ Loud
  PROVE  SimInv'
<1>1. /\ attached' = attached /\ parameter_subscription' = parameter_subscription
      /\ ros_time_active' = ros_time_active /\ clock_subscription' = clock_subscription
  BY DEF Elsewhere, interfaces, flags
<1>2. /\ pc'[User] = pc[User] \/ {pc[User], pc'[User]} \subseteq {"idle", "set"}
      /\ \/ pc'[Executor] = pc[Executor] /\ todo'[Executor] = todo[Executor]
         \/ {pc[Executor], pc'[Executor]} \subseteq {"idle", "set", "serve"}
  BY DEF Elsewhere
<1>3. Handled /\ Agreeing /\ Subscribing
  BY DEF SimInv
<1>4. Handled'
  <2>1. events' \in Seq(ParameterEvents)
    BY <1>3, AppendProperties DEF Handled, Quiet, Loud
  <2>2. CASE pc'[Executor] = pc[Executor] /\ todo'[Executor] = todo[Executor]
    BY <1>3, <2>1, <2>2 DEF Handled
  <2>3. CASE {pc[Executor], pc'[Executor]} \subseteq {"idle", "set", "serve"}
    BY <2>1, <2>3 DEF Handled, Applying
  <2> QED
    BY <1>2, <2>2, <2>3
<1>5. /\ Informed' <=> Informed
      /\ InHand' <=> InHand
      /\ InHand => HandValue' = HandValue
  <2>1. Informed' <=> Informed
    BY <1>1, <1>2 DEF Informed
  <2>2. CASE pc'[Executor] = pc[Executor] /\ todo'[Executor] = todo[Executor]
    BY <2>1, <2>2 DEF InHand, HandValue
  <2>3. CASE {pc[Executor], pc'[Executor]} \subseteq {"idle", "set", "serve"}
    BY <2>1, <2>3 DEF InHand, Applying
  <2> QED
    BY <1>2, <2>2, <2>3
<1>6. Agreeing'
  <2> SUFFICES ASSUME Informed', ~silent', Current'.type = "bool"
               PROVE  Agrees(Current', events', InHand', HandValue', ros_time_active')
    BY DEF Agreeing
  <2>1. events \in Seq(ParameterEvents)
    BY <1>3 DEF Handled
  <2>2. CASE Loud
    BY <2>1, <2>2, EventAdded DEF Loud
  <2>3. CASE Quiet
    <3>1. Agrees(Current, events, InHand, HandValue, ros_time_active) /\ Current' = Current
      BY <1>3, <1>5, <2>3 DEF Agreeing, Quiet
    <3>2. Agrees(Current, events, InHand', HandValue', ros_time_active')
      BY <1>1, <1>5, <3>1 DEF Agrees
    <3> QED
      BY <2>1, <2>3, <3>1, <3>2, EventAdded DEF Quiet
  <2> QED
    BY <2>2, <2>3
<1>7. Subscribing'
  BY <1>1, <1>2, <1>3 DEF Subscribing, Threads
<1> QED
  BY <1>4, <1>6, <1>7 DEF SimInv

\* A step that changes neither the store nor the events, and leaves what the
\* executor has at hand as it is.
LEMMA AgreeingKept ==
  ASSUME Agreeing, UNCHANGED <<parameters, silent, events>>, Informed' => Informed,
         ros_time_active' = ros_time_active, InHand' <=> InHand, InHand => HandValue' = HandValue
  PROVE  Agreeing'
<1> SUFFICES ASSUME Informed', ~silent', Current'.type = "bool"
             PROVE  Agrees(Current', events', InHand', HandValue', ros_time_active')
  BY DEF Agreeing
<1>1. Current' = Current
  BY DEF Current
<1>2. Agrees(Current, events, InHand, HandValue, ros_time_active)
  BY <1>1 DEF Agreeing
<1> QED
  BY <1>1, <1>2 DEF Agrees

LEMMA NothingInHand ==
  ASSUME pc[Executor] \notin Applying \cup {"event"}
  PROVE  ~InHand
  BY DEF InHand

LEMMA TimeSourceTells ==
  ASSUME SimInv, ClockInv, ~undefined, CallTimeSource
  PROVE  SimInv'
<1>1. Handled /\ Agreeing /\ Subscribing
  BY DEF SimInv
<1>2. pc' = pc /\ todo' = todo /\ parameters' = parameters /\ silent' = silent
  BY DEF CallTimeSource, DetachNode, AttachClock, DetachClock, storeVars
<1>3. CASE DetachNode
  <2>1. /\ pc[User] = "idle" /\ parameter_subscription' = FALSE /\ clock_subscription' = FALSE
        /\ events' = <<>> /\ ros_time_active' = FALSE /\ undefined' = (undefined \/ InCallback)
    BY <1>3 DEF DetachNode
  <2> SUFFICES ASSUME ~undefined'
               PROVE  Handled' /\ Agreeing' /\ Subscribing'
    BY DEF SimInv
  <2>2. pc[Executor] \in {"idle", "set", "serve"}
    BY <2>1 DEF InCallback
  <2>3. Handled'
    BY <1>2, <2>1, <2>2 DEF Handled, Applying
  <2>4. Agreeing'
    BY <1>2, <2>1 DEF Agreeing, Informed
  <2>5. Subscribing'
    BY <1>2, <2>1, <2>2 DEF Subscribing, Threads
  <2> QED
    BY <2>3, <2>4, <2>5
<1>4. ASSUME NEW c \in Clocks, AttachClock(c) \/ DetachClock(c)
      PROVE  SimInv'
  <2>1. /\ attached' = attached /\ parameter_subscription' = parameter_subscription
        /\ ros_time_active' = ros_time_active /\ clock_subscription' = clock_subscription
        /\ events' = events
    BY <1>4 DEF AttachClock, DetachClock, interfaces, flags, queues
  <2>2. Handled' /\ Subscribing'
    BY <1>1, <1>2, <2>1 DEF Handled, Subscribing
  <2>3. Informed' = Informed /\ InHand' = InHand /\ HandValue' = HandValue
    BY <1>2, <2>1 DEF Informed, InHand, HandValue
  <2>4. Agreeing'
    BY <1>1, <1>2, <2>1, <2>3, AgreeingKept
  <2> QED
    BY <2>2, <2>4 DEF SimInv
<1> QED
  BY <1>3, <1>4 DEF CallTimeSource

LEMMA AttachNodeTells ==
  ASSUME Storing, SimInv, ClockInv, ~undefined, AttachNode
  PROVE  SimInv'
<1>1. Handled /\ Agreeing /\ Subscribing
  BY DEF SimInv
<1>2. /\ pc[User] = "idle" /\ ~attached /\ parameter_subscription' = parameter_subscription
      /\ ros_time_active' = ros_time_active /\ clock_subscription' = clock_subscription
      /\ events' = events /\ todo' = todo
      /\ pc' = [pc EXCEPT ![User] = "get"] \/ pc' = [pc EXCEPT ![User] = "declare"]
  BY DEF AttachNode, Call, Goto, flags, queues
<1>3. pc'[User] \in {"get", "declare"} /\ pc'[Executor] = pc[Executor]
  BY <1>2, UserGoesTo
<1>4. ~parameter_subscription /\ ~ros_time_active
  BY <1>1, <1>2 DEF ClockInv, Excluding, Subscribing
<1>5. Handled'
  BY <1>1, <1>2, <1>3 DEF Handled
<1>6. Agreeing'
  BY <1>2, <1>3, <1>4 DEF Agreeing, Informed
<1>7. Subscribing'
  BY <1>1, <1>2, <1>3, <1>4 DEF Subscribing, Threads
<1> QED
  BY <1>5, <1>6, <1>7 DEF SimInv

\* attachNode takes the value of use_sim_time that it has declared or found.
LEMMA AttachReadsTells ==
  ASSUME Storing, SimInv, ClockInv, ~undefined, pc[User] \in {"declare", "get"},
         UNCHANGED <<interfaces, events, todo, clock_subscription>>, SoundMap(parameters'),
         UseSimTime(Current') \/ (Goto(User, "idle") /\ UNCHANGED flags)
  PROVE  SimInv'
<1>1. Handled /\ Agreeing /\ Subscribing
  BY DEF SimInv
<1>2. /\ attached' = attached /\ parameter_subscription' = parameter_subscription
      /\ events' = events /\ todo' = todo /\ clock_subscription' = clock_subscription
  BY DEF interfaces
<1>3. /\ pc[Executor] \in {"idle", "set", "serve"} /\ ~clock_subscription /\ attached
      /\ ~parameter_subscription /\ events = <<>> /\ ~ros_time_active
  BY <1>1 DEF ClockInv, Excluding, Early, InCallback, Subscribing
<1>4. ros_time_active = FALSE /\ clock_subscription = FALSE
  BY <1>1, <1>3 DEF Subscribing
<1>5. \/ /\ Current' = [type |-> "bool", v |-> 1] /\ ros_time_active' = TRUE
         /\ pc' = [pc EXCEPT ![User] = "enable"]
      \/ /\ Current' # [type |-> "bool", v |-> 1] /\ ros_time_active' = FALSE
         /\ pc' = [pc EXCEPT ![User] = "subscribe"]
      \/ ros_time_active' = FALSE /\ pc' = [pc EXCEPT ![User] = "idle"]
  BY <1>4 DEF UseSimTime, Apply, Goto, flags
<1>6. pc'[Executor] = pc[Executor]
  BY <1>2, <1>5, UserGoesTo
<1>7. \/ Current' = [type |-> "bool", v |-> 1] /\ ros_time_active' = TRUE /\ pc'[User] = "enable"
      \/ Current' # [type |-> "bool", v |-> 1] /\ ros_time_active' = FALSE /\ pc'[User] = "subscribe"
      \/ ros_time_active' = FALSE /\ pc'[User] = "idle"
  BY <1>2, <1>5, UserGoesTo
<1>8. Handled'
  BY <1>1, <1>2, <1>3, <1>6 DEF Handled, Applying
<1>9. Current' \in Values
  <2>1. NotSet \in Values
    BY DEF NotSet, Values
  <2> QED
    BY <2>1 DEF Current, ValueOf, SoundMap, Sound
<1>10. Agreeing'
  <2> SUFFICES ASSUME Informed', Current'.type = "bool"
               PROVE  Agrees(Current', events', InHand', HandValue', ros_time_active')
    BY DEF Agreeing
  <2>1. pc'[User] # "idle"
    BY <1>2, <1>3 DEF Informed
  <2>2. Current' = [type |-> "bool", v |-> 1] <=> Current'.v = 1
    BY <1>9 DEF Values
  <2>3. ros_time_active' <=> Current'.v = 1
    BY <1>7, <2>1, <2>2
  <2>4. ~InHand'
    BY <1>3, <1>6 DEF InHand, Applying
  <2> QED
    BY <1>2, <1>3, <2>3, <2>4, NothingTold
<1>11. Subscribing'
  BY <1>2, <1>3, <1>4, <1>6, <1>7 DEF Subscribing, Threads
<1> QED
  BY <1>8, <1>10, <1>11 DEF SimInv

LEMMA AttachDeclaresTells ==
  ASSUME Storing, SimInv, ClockInv, ~undefined, AttachDeclares
  PROVE  SimInv'
<1> DEFINE o == Declare(parameters, SimTime, [type |-> "bool", v |-> 0], DefaultDescriptor, callback)
<1>1. /\ pc[User] = "declare" /\ Store(o)
      /\ IF o.result = "ok" THEN UseSimTime(o.map[SimTime].value)
         ELSE Goto(User, "idle") /\ UNCHANGED flags
      /\ UNCHANGED <<interfaces, clock_subscription, todo>>
  BY DEF AttachDeclares
<1>2. SoundMap(o.map) /\ (o.result = "ok" => SimTime \in DOMAIN o.map)
  <2>1. SimTime \in Names
    BY DEF SimTime, Names
  <2>2. [type |-> "bool", v |-> 0] \in Values
    BY DEF Values
  <2>3. DefaultDescriptor \in Descriptors /\ RangeOK(DefaultDescriptor.range)
    BY NoInfoIsSound DEF Sound, NoInfo
  <2> QED
    BY <2>1, <2>2, <2>3, DeclareOutcome DEF Storing
<1> HIDE DEF o
<1>3. events' = events /\ parameters' = o.map
  BY <1>1 DEF Store, ClockInv, Excluding, Early
<1>4. UseSimTime(Current') \/ (Goto(User, "idle") /\ UNCHANGED flags)
  <2>1. o.result = "ok" => Current' = o.map[SimTime].value
    BY <1>2, <1>3 DEF Current, ValueOf
  <2> QED
    BY <1>1, <2>1
<1> QED
  BY <1>1, <1>2, <1>3, <1>4, AttachReadsTells

LEMMA AttachGetsTells ==
  ASSUME Storing, SimInv, ClockInv, ~undefined, AttachGets
  PROVE  SimInv'
<1>1. /\ pc[User] = "get" /\ UNCHANGED <<interfaces, events, todo, clock_subscription, parameters>>
      /\ UseSimTime(Current) \/ (Goto(User, "idle") /\ UNCHANGED flags)
  BY DEF AttachGets, queues, Current
<1>2. Current' = Current /\ SoundMap(parameters')
  BY <1>1 DEF Current, Storing
<1> QED
  BY <1>1, <1>2, AttachReadsTells

LEMMA SubscribeTells ==
  ASSUME Storing, SimInv, ~undefined, Subscribe
  PROVE  SimInv'
<1>1. Handled /\ Agreeing /\ Subscribing
  BY DEF SimInv
<1>2. /\ pc[User] = "subscribe" /\ pc' = [pc EXCEPT ![User] = "idle"] /\ todo' = todo
      /\ attached' = attached /\ parameters' = parameters /\ silent' = silent
      /\ ros_time_active' = ros_time_active /\ clock_subscription' = clock_subscription
      /\ events' = events
  BY DEF Subscribe, Goto, storeVars, flags, queues
<1>3. pc'[User] = "idle" /\ pc'[Executor] = pc[Executor]
  BY <1>2, UserGoesTo
<1>4. Handled' /\ Subscribing'
  BY <1>1, <1>2, <1>3 DEF Handled, Subscribing, Threads
<1>5. Informed /\ InHand' = InHand /\ HandValue' = HandValue
  BY <1>2, <1>3 DEF Informed, InHand, HandValue
<1>6. Agreeing'
  BY <1>1, <1>2, <1>5, AgreeingKept
<1> QED
  BY <1>4, <1>6 DEF SimInv

\* A step of a thread that leaves the events, and what is at hand of one.
LEMMA StepTells ==
  ASSUME SimInv, ~undefined,
         UNCHANGED <<parameters, silent, events, attached, parameter_subscription>>,
         ros_time_active' = ros_time_active, Subscribing',
         \/ pc'[Executor] = pc[Executor] /\ todo'[Executor] = todo[Executor]
         \/ {pc[Executor], pc'[Executor]} \subseteq Applying /\ todo'[Executor] = todo[Executor]
         \/ {pc[Executor], pc'[Executor]} \cap (Applying \cup {"event"}) = {},
         \/ pc'[User] = pc[User]
         \/ pc[User] \in {"enable", "create_sub", "subscribe"}
  PROVE  SimInv'
<1>1. Handled /\ Agreeing
  BY DEF SimInv
<1>2. Handled'
  BY <1>1 DEF Handled, Applying
<1>3. Informed' => Informed
  BY DEF Informed
<1>4. (InHand' <=> InHand) /\ (InHand => HandValue' = HandValue)
  BY DEF InHand, HandValue, Applying
<1>5. Agreeing'
  BY <1>1, <1>3, <1>4, AgreeingKept
<1> QED
  BY <1>2, <1>5 DEF SimInv

LEMMA EnableClocksTells ==
  ASSUME Storing, SimInv, ~undefined, UNCHANGED <<parameters, silent>>,
         \/ (\E t \in Threads : EnableClocks(t) \/ CreateClockSub(t))
         \/ DisableClocks(Executor) \/ DestroyClockSub(Executor)
  PROVE  SimInv'
<1>1. Subscribing
  BY DEF SimInv
<1>2. ASSUME NEW t \in Threads, EnableClocks(t)
      PROVE  SimInv'
  <2>1. /\ pc[t] = "enable" /\ pc' = [pc EXCEPT ![t] = "create_sub"] /\ todo' = todo
        /\ UNCHANGED <<events, attached, parameter_subscription, ros_time_active, clock_subscription>>
    BY <1>2 DEF EnableClocks, Goto, interfaces, flags, queues
  <2>2. CASE t = User
    <3>1. pc'[User] = "create_sub" /\ pc'[Executor] = pc[Executor]
      BY <2>1, <2>2, UserGoesTo
    <3>2. Subscribing'
      BY <1>1, <2>1, <2>2, <3>1 DEF Subscribing, Threads
    <3> QED
      BY <2>1, <2>2, <3>1, <3>2, StepTells
  <2>3. CASE t = Executor
    <3>1. pc'[Executor] = "create_sub" /\ pc'[User] = pc[User]
      BY <2>1, <2>3, ExecutorGoesTo
    <3>2. Subscribing'
      BY <1>1, <2>1, <2>3, <3>1 DEF Subscribing, Threads
    <3> QED
      BY <2>1, <2>3, <3>1, <3>2, StepTells DEF Applying
  <2> QED
    BY <2>2, <2>3 DEF Threads
<1>3. ASSUME NEW t \in Threads, CreateClockSub(t)
      PROVE  SimInv'
  <2>1. /\ pc[t] = "create_sub" /\ todo' = todo /\ clock_subscription' = TRUE
        /\ pc' = [pc EXCEPT ![t] = IF t = User THEN "subscribe" ELSE "match"]
        /\ UNCHANGED <<events, attached, parameter_subscription, ros_time_active>>
    BY <1>3 DEF CreateClockSub, Goto, interfaces, flags
  <2>2. CASE t = User
    <3>1. pc'[User] = "subscribe" /\ pc'[Executor] = pc[Executor]
      BY <2>1, <2>2, UserGoesTo
    <3>2. Subscribing'
      BY <1>1, <2>1, <2>2, <3>1 DEF Subscribing, Threads
    <3> QED
      BY <2>1, <2>2, <3>1, <3>2, StepTells
  <2>3. CASE t = Executor
    <3>1. pc'[Executor] = "match" /\ pc'[User] = pc[User]
      BY <2>1, <2>3, ExecutorGoesTo DEF User, Executor
    <3>2. Subscribing'
      BY <1>1, <2>1, <2>3, <3>1 DEF Subscribing, Threads
    <3> QED
      BY <2>1, <2>3, <3>1, <3>2, StepTells DEF Applying
  <2> QED
    BY <2>2, <2>3 DEF Threads
<1>4. CASE DisableClocks(Executor)
  <2>1. /\ pc[Executor] = "disable" /\ pc' = [pc EXCEPT ![Executor] = "destroy_sub"] /\ todo' = todo
        /\ UNCHANGED <<events, attached, parameter_subscription, ros_time_active, clock_subscription>>
    BY <1>4 DEF DisableClocks, Goto, interfaces, flags, queues
  <2>2. pc'[Executor] = "destroy_sub" /\ pc'[User] = pc[User]
    BY <2>1, ExecutorGoesTo
  <2>3. Subscribing'
    BY <1>1, <2>1, <2>2 DEF Subscribing, Threads
  <2> QED
    BY <2>1, <2>2, <2>3, StepTells DEF Applying
<1>5. CASE DestroyClockSub(Executor)
  <2>1. /\ pc[Executor] = "destroy_sub" /\ pc' = [pc EXCEPT ![Executor] = "match"] /\ todo' = todo
        /\ clock_subscription' = FALSE
        /\ UNCHANGED <<events, attached, parameter_subscription, ros_time_active>>
    BY <1>5 DEF DestroyClockSub, Goto, interfaces, flags
  <2>2. pc'[Executor] = "match" /\ pc'[User] = pc[User]
    BY <2>1, ExecutorGoesTo
  <2>3. Subscribing'
    BY <1>1, <2>1, <2>2 DEF Subscribing, Threads
  <2> QED
    BY <2>1, <2>2, <2>3, StepTells DEF Applying
<1> QED
  BY <1>2, <1>3, <1>4, <1>5

\* clock_cb finds its subscription, which ros_time_active_ agrees with: its own
\* call of enable_ros_time is never reached.
LEMMA ClockTells ==
  ASSUME Storing, ClockInv, SimInv, ~undefined, UNCHANGED <<parameters, silent>>,
         Tick \/ TakeClock \/ ClockCb \/ ClockEnable \/ ClockCache \/ ClockSet
  PROVE  SimInv'
<1>1. Subscribing
  BY DEF SimInv
<1>2. UNCHANGED <<events, attached, parameter_subscription, clock_subscription>>
  BY DEF Tick, TakeClock, ClockCb, ClockEnable, ClockCache, ClockSet, interfaces, queues
<1>3. CASE Tick
  <2>1. UNCHANGED <<pc, todo, ros_time_active>>
    BY <1>3 DEF Tick, flags
  <2>2. Subscribing'
    BY <1>1, <1>2, <2>1 DEF Subscribing
  <2> QED
    BY <1>2, <2>1, <2>2, StepTells
<1>4. CASE TakeClock
  <2>1. /\ pc[Executor] = "idle" /\ clock_msgs # <<>> /\ pc' = [pc EXCEPT ![Executor] = "clock_cb"]
        /\ ros_time_active' = ros_time_active
    BY <1>4 DEF TakeClock, Goto, flags
  <2>2. pc'[Executor] = "clock_cb" /\ pc'[User] = pc[User]
    BY <2>1, ExecutorGoesTo
  <2>3. clock_subscription
    BY <2>1 DEF ClockInv, Excluding
  <2>4. Subscribing'
    BY <1>1, <1>2, <2>1, <2>2, <2>3 DEF Subscribing, Threads
  <2> QED
    BY <1>2, <2>1, <2>2, <2>4, StepTells DEF Applying
<1>5. CASE ClockCb
  <2>1. pc[Executor] = "clock_cb"
    BY <1>5 DEF ClockCb
  <2>2. pc[User] \in {"idle", "set", "subscribe"}
    BY <2>1, CallbackAlone DEF InCallback
  <2>3. ros_time_active
    BY <1>1, <2>1, <2>2 DEF Subscribing
  <2>4. pc' = [pc EXCEPT ![Executor] = "clock_cache"] /\ ros_time_active' = ros_time_active
    BY <1>5, <2>3 DEF ClockCb, Goto
  <2>5. pc'[Executor] = "clock_cache" /\ pc'[User] = pc[User]
    BY <2>4, ExecutorGoesTo
  <2>6. Subscribing'
    BY <1>1, <1>2, <2>1, <2>4, <2>5 DEF Subscribing, Threads
  <2> QED
    BY <1>2, <2>1, <2>4, <2>5, <2>6, StepTells DEF Applying
<1>6. CASE ClockEnable
  BY <1>1, <1>6 DEF ClockEnable, Subscribing
<1>7. CASE ClockCache \/ ClockSet
  <2>1. /\ pc[Executor] \in {"clock_cache", "clock_set"} /\ ros_time_active' = ros_time_active
        /\ pc' = [pc EXCEPT ![Executor] = "clock_set"] \/ pc' = [pc EXCEPT ![Executor] = "idle"]
    BY <1>7 DEF ClockCache, ClockSet, Goto, flags
  <2>2. pc'[Executor] \in {"clock_set", "idle"} /\ pc'[User] = pc[User]
    BY <2>1, ExecutorGoesTo
  <2>3. Subscribing'
    BY <1>1, <1>2, <2>1, <2>2 DEF Subscribing, Threads
  <2> QED
    BY <1>2, <2>1, <2>2, <2>3, StepTells DEF Applying
<1> QED
  BY <1>3, <1>4, <1>5, <1>6, <1>7

LEMMA TakeEventTells ==
  ASSUME Storing, SimInv, ~undefined, UNCHANGED <<parameters, silent>>, TakeEvent
  PROVE  SimInv'
<1>1. Handled /\ Agreeing /\ Subscribing
  BY DEF SimInv
<1>2. /\ pc[Executor] = "idle" /\ events # <<>> /\ events' = Tail(events)
      /\ todo' = [todo EXCEPT ![Executor] = <<Head(events)>>]
      /\ pc' = [pc EXCEPT ![Executor] = "event"]
      /\ UNCHANGED <<attached, parameter_subscription, ros_time_active, clock_subscription>>
  BY DEF TakeEvent, Goto, interfaces, flags
<1>3. /\ pc'[Executor] = "event" /\ pc'[User] = pc[User]
      /\ todo'[Executor] = <<Head(events)>>
  BY <1>2, ExecutorGoesTo DEF Storing, Threads
<1>4. Head(events) \in ParameterEvents /\ Tail(events) \in Seq(ParameterEvents)
  BY <1>1, <1>2, HeadTailProperties DEF Handled
<1>5. Handled'
  <2>1. <<Head(events)>> \in Seq(ParameterEvents) /\ Len(<<Head(events)>>) = 1
    BY <1>4
  <2> QED
    BY <1>2, <1>3, <1>4, <2>1 DEF Handled, Applying
<1>6. Agreeing'
  <2> SUFFICES ASSUME Informed', ~silent', Current'.type = "bool"
               PROVE  Agrees(Current', events', InHand', HandValue', ros_time_active')
    BY DEF Agreeing
  <2>1. Current' = Current /\ Informed
    BY <1>2, <1>3 DEF Current, Informed
  <2>2. Agrees(Current, events, FALSE, HandValue, ros_time_active)
    <3>1. ~InHand
      BY <1>2 DEF InHand, Applying
    <3>2. Agrees(Current, events, InHand, HandValue, ros_time_active)
      BY <1>1, <2>1 DEF Agreeing
    <3> QED
      BY <3>1, <3>2 DEF Agrees
  <2>3. Agrees(Current, Tail(events), Tells(Head(events)), Told(Head(events)), ros_time_active)
    BY <1>1, <1>2, <2>2, EventTaken DEF Handled
  <2>4. (InHand' <=> Tells(Head(events))) /\ HandValue' = Told(Head(events))
    BY <1>3 DEF InHand, HandValue, Applying
  <2> QED
    BY <1>2, <2>1, <2>3, <2>4 DEF Agrees
<1>7. Subscribing'
  BY <1>1, <1>2, <1>3 DEF Subscribing, Threads
<1> QED
  BY <1>5, <1>6, <1>7 DEF SimInv

\* What on_parameter_event finds in an event: the values it tells, the last one
\* at the end, and the mark.
LEMMA FoundInEvent ==
  ASSUME NEW e \in ParameterEvents, NEW mark \in Matched, mark.value.type = "end"
  PROVE  LET list == Append(Matches(e), mark)
         IN /\ list \in Seq(Matched) /\ list # <<>>
            /\ \A i \in 1 .. Len(list) : list[i].value.type = "end" <=> i = Len(list)
            /\ SimTime \in NamesIn(e.new \o e.changed) <=> Len(list) > 1
            /\ Len(list) > 1 => list[Len(list) - 1].value = Told(e)
<1> DEFINE both == e.new \o e.changed
           ms == WithNames(both, {SimTime})
           list == Append(ms, mark)
<1>1. both \in Seq(Params)
  BY LastOfBoth DEF ParameterEvents
<1> HIDE DEF both
<1>2. /\ ms \in Seq(Params) /\ NamesIn(ms) = NamesIn(both) \cap {SimTime}
      /\ \A n \in NamesIn(ms) : LastOf(ms, n) = LastOf(both, n)
  BY <1>1, ListWithNames
<1> HIDE DEF ms
<1>3. /\ Len(ms) \in Nat /\ DOMAIN ms = 1 .. Len(ms)
      /\ \A i \in DOMAIN ms : ms[i] \in Params /\ ms[i].name = SimTime
  BY <1>2, ListElements DEF NamesIn
<1>4. \A p \in Params : p \in Matched /\ p.value.type # "end"
  BY DEF Params, Matched, Values
<1>5. ms \in Seq(Matched)
  BY <1>2, <1>4, SeqDef, <1>3
<1>6. /\ list \in Seq(Matched) /\ Len(list) = Len(ms) + 1
      /\ \A i \in 1 .. Len(ms) : list[i] = ms[i]
      /\ list[Len(ms) + 1] = mark
  BY <1>5, AppendProperties
<1> HIDE DEF list
<1>7. list # <<>>
  BY <1>3, <1>6
<1>8. ASSUME NEW i \in 1 .. Len(list)
      PROVE  list[i].value.type = "end" <=> i = Len(list)
  BY <1>3, <1>4, <1>6
<1>9. SimTime \in NamesIn(both) <=> Len(list) > 1
  <2>1. SimTime \in NamesIn(both) <=> NamesIn(ms) # {}
    BY <1>2
  <2>2. NamesIn(ms) # {} <=> Len(ms) > 0
    <3>1. CASE Len(ms) > 0
      <4>1. 1 \in DOMAIN ms
        BY <1>3, <3>1
      <4> QED
        BY <3>1, <4>1 DEF NamesIn
    <3>2. CASE Len(ms) = 0
      <4>1. DOMAIN ms = {}
        BY <1>3, <3>2
      <4> QED
        BY <3>2, <4>1 DEF NamesIn
    <3> QED
      BY <1>3, <3>1, <3>2
  <2> QED
    BY <1>3, <1>6, <2>1, <2>2
<1>10. ASSUME Len(list) > 1
       PROVE  list[Len(list) - 1].value = LastOf(both, SimTime)
  <2>1. Len(ms) \in 1 .. Len(ms) /\ Len(list) - 1 = Len(ms)
    BY <1>3, <1>6, <1>10
  <2>2. list[Len(list) - 1] = ms[Len(ms)] /\ ms[Len(ms)].name = SimTime
    BY <1>3, <1>6, <2>1
  <2>3. LastOf(ms, ms[Len(ms)].name) = ms[Len(ms)].value
    BY <1>2, <1>3, <2>1, LastUnique
  <2>4. SimTime \in NamesIn(ms)
    BY <1>3, <2>1, <2>2 DEF NamesIn
  <2> QED
    BY <1>2, <2>2, <2>3, <2>4
<1> QED
  BY <1>6, <1>7, <1>8, <1>9, <1>10 DEF Matches, Told, both, ms, list

LEMMA OnParameterEventTells ==
  ASSUME Storing, SimInv, ~undefined, UNCHANGED <<parameters, silent>>, OnParameterEvent
  PROVE  SimInv'
<1>1. Handled /\ Agreeing /\ Subscribing
  BY DEF SimInv
<1> DEFINE e == todo[Executor][1]
           mark == [name |-> SimTime,
                    value |-> [type |-> "end", v |-> IF SimTime \in e.deleted THEN 1 ELSE 0]]
           list == IF e.named THEN Append(Matches(e), mark) ELSE <<>>
<1>2. /\ pc[Executor] = "event" /\ todo' = [todo EXCEPT ![Executor] = list]
      /\ pc' = [pc EXCEPT ![Executor] = IF e.named THEN "match" ELSE "idle"]
      /\ UNCHANGED <<events, attached, parameter_subscription, ros_time_active, clock_subscription>>
  BY DEF OnParameterEvent, Goto, interfaces, flags, queues
<1>3. e \in ParameterEvents
  BY <1>1, <1>2, ElementOfSeq DEF Handled
<1>4. mark \in Matched /\ mark.value.type = "end"
  BY DEF Matched, SimTime, Names
<1> HIDE DEF list, mark
<1>5. pc'[User] = pc[User] /\ todo'[Executor] = list
  BY <1>2, ExecutorGoesTo DEF Storing, Threads
<1>6. pc'[Executor] = IF e.named THEN "match" ELSE "idle"
  BY <1>2, ExecutorGoesTo
<1>7. Subscribing'
  BY <1>1, <1>2, <1>5, <1>6 DEF Subscribing, Threads
<1>8. Informed' => Informed
  BY <1>2, <1>5 DEF Informed
<1>9. CASE ~e.named
  <2>1. pc'[Executor] = "idle"
    BY <1>6, <1>9
  <2>2. Handled'
    BY <1>1, <1>2, <2>1 DEF Handled, Applying
  <2>3. ~InHand /\ ~InHand'
    BY <1>2, <1>9, <2>1 DEF InHand, Applying, Tells
  <2>4. Agreeing'
    BY <1>1, <1>2, <1>8, <2>3, AgreeingKept
  <2> QED
    BY <1>7, <2>2, <2>4 DEF SimInv
<1>10. CASE e.named
  <2>1. pc'[Executor] = "match"
    BY <1>6, <1>10
  <2>2. list = Append(Matches(e), mark)
    BY <1>10 DEF list
  <2>3. /\ list \in Seq(Matched) /\ list # <<>>
        /\ \A i \in 1 .. Len(list) : list[i].value.type = "end" <=> i = Len(list)
        /\ SimTime \in NamesIn(e.new \o e.changed) <=> Len(list) > 1
        /\ Len(list) > 1 => list[Len(list) - 1].value = Told(e)
    <3> HIDE DEF e
    <3> QED
      BY <1>3, <1>4, <2>2, FoundInEvent
  <2>4. Handled'
    BY <1>1, <1>2, <1>5, <2>1, <2>3 DEF Handled
  <2>5. (InHand <=> Len(list) > 1) /\ (InHand' <=> Len(list) > 1)
    BY <1>2, <1>5, <1>10, <2>1, <2>3 DEF InHand, Applying, Tells
  <2>6. HandValue = Told(e) /\ HandValue' = list[Len(list) - 1].value
    BY <1>2, <1>5, <2>1 DEF HandValue
  <2>7. Agreeing'
    BY <1>1, <1>2, <1>8, <2>3, <2>5, <2>6, AgreeingKept
  <2> QED
    BY <1>7, <2>4, <2>7 DEF SimInv
<1> QED
  BY <1>9, <1>10

LEMMA NextMatchTells ==
  ASSUME Storing, ClockInv, SimInv, ~undefined, UNCHANGED <<parameters, silent>>, NextMatch
  PROVE  SimInv'
<1>1. Handled /\ Agreeing /\ Subscribing
  BY DEF SimInv
<1> DEFINE list == todo[Executor]
           value == Head(list).value
<1>2. /\ pc[Executor] = "match" /\ todo' = [todo EXCEPT ![Executor] = Tail(list)]
      /\ UNCHANGED <<events, attached, parameter_subscription, clock_subscription>>
      /\ \/ value.type = "bool" /\ Apply(Executor, value.v = 1)
         \/ value.type \notin {"bool", "end"} /\ UNCHANGED <<ros_time_active, pc>>
         \/ value.type = "end" /\ pc' = [pc EXCEPT ![Executor] = "idle"] /\ UNCHANGED ros_time_active
  BY DEF NextMatch, Goto, interfaces, flags, queues
<1>3. /\ list \in Seq(Matched) /\ list # <<>>
      /\ \A i \in 1 .. Len(list) : list[i].value.type = "end" <=> i = Len(list)
  BY <1>1, <1>2 DEF Handled, Applying
<1>4. pc[User] \in {"idle", "set", "subscribe"}
  BY <1>2, CallbackAlone DEF InCallback
<1>5. todo'[Executor] = Tail(list)
  BY <1>2 DEF Storing, Threads
<1> HIDE DEF list
<1>6. /\ Len(list) \in Nat \ {0} /\ Tail(list) \in Seq(Matched) /\ Len(Tail(list)) = Len(list) - 1
      /\ Head(list) = list[1] /\ \A i \in 1 .. Len(list) - 1 : Tail(list)[i] = list[i + 1]
  BY <1>3, HeadTailProperties, LenProperties, EmptySeq
<1>7. /\ value = list[1].value /\ (value.type = "end" <=> Len(list) = 1)
  <2>1. 1 \in 1 .. Len(list)
    BY <1>6
  <2>2. list[1].value.type = "end" <=> 1 = Len(list)
    BY <1>3, <2>1
  <2> QED
    BY <1>6, <2>2
<1>8. (Len(list) > 1 <=> InHand) /\ HandValue = list[Len(list) - 1].value
  BY <1>2 DEF InHand, HandValue, Applying, list
<1>9. CASE value.type = "end"
  <2>1. pc' = [pc EXCEPT ![Executor] = "idle"] /\ ros_time_active' = ros_time_active
    BY <1>2, <1>9
  <2>2. pc'[Executor] = "idle" /\ pc'[User] = pc[User]
    BY <2>1, ExecutorGoesTo
  <2>3. ~InHand /\ ~InHand'
    BY <1>6, <1>7, <1>8, <1>9, <2>2 DEF InHand, Applying
  <2>4. Informed' => Informed
    BY <1>2, <2>2 DEF Informed
  <2>5. Agreeing'
    BY <1>1, <1>2, <2>1, <2>3, <2>4, AgreeingKept
  <2>6. Handled'
    BY <1>1, <1>2, <2>2 DEF Handled, Applying
  <2>7. Subscribing'
    BY <1>1, <1>2, <2>1, <2>2 DEF Subscribing, Threads
  <2> QED
    BY <2>5, <2>6, <2>7 DEF SimInv
<1>10. CASE value.type # "end"
  <2>1. Len(list) > 1 /\ Tail(list) # <<>>
    BY <1>6, <1>7, <1>10, EmptySeq
  <2>2. \A i \in 1 .. Len(Tail(list)) : Tail(list)[i].value.type = "end" <=> i = Len(Tail(list))
    <3> SUFFICES ASSUME NEW i \in 1 .. Len(list) - 1
                 PROVE  Tail(list)[i].value.type = "end" <=> i = Len(list) - 1
      BY <1>6
    <3>1. i + 1 \in 1 .. Len(list) /\ Tail(list)[i] = list[i + 1]
      BY <1>6
    <3>2. list[i + 1].value.type = "end" <=> i + 1 = Len(list)
      BY <1>3, <3>1
    <3>3. i + 1 = Len(list) <=> i = Len(list) - 1
      BY <1>6
    <3> QED
      BY <3>1, <3>2, <3>3
  <2>3. /\ pc'[Executor] \in Applying /\ pc'[User] = pc[User]
        /\ \/ value.type = "bool" /\ ros_time_active' = (value.v = 1)
           \/ value.type # "bool" /\ ros_time_active' = ros_time_active
    <3>1. CASE value.type = "bool"
      <4>1. PICK step \in {"enable", "create_sub", "disable", "destroy_sub"} :
              pc' = [pc EXCEPT ![Executor] = step] /\ ros_time_active' = (value.v = 1)
        BY <1>2, <3>1 DEF Apply, Goto
      <4> QED
        BY <3>1, <4>1, ExecutorGoesTo DEF Applying
    <3>2. CASE value.type # "bool"
      BY <1>2, <1>10, <3>2 DEF Applying
    <3> QED
      BY <3>1, <3>2
  <2>4. Handled'
    BY <1>1, <1>2, <1>5, <1>6, <2>1, <2>2, <2>3 DEF Handled, Applying
  <2>5. (InHand' <=> Len(list) > 2) /\ (InHand' => HandValue' = list[Len(list) - 1].value)
    <3>1. InHand' <=> Len(Tail(list)) > 1
      BY <1>5, <2>3 DEF InHand, Applying
    <3>2. HandValue' = Tail(list)[Len(Tail(list)) - 1].value
      BY <1>5, <2>3 DEF HandValue, Applying
    <3>3. ASSUME Len(list) > 2
          PROVE  Tail(list)[Len(Tail(list)) - 1] = list[Len(list) - 1]
      <4>1. /\ Len(list) - 2 \in 1 .. Len(list) - 1 /\ Len(Tail(list)) - 1 = Len(list) - 2
            /\ (Len(list) - 2) + 1 = Len(list) - 1
        BY <1>6, <3>3
      <4> QED
        BY <1>6, <4>1
    <3> QED
      BY <1>6, <3>1, <3>2, <3>3
  <2>6. Agreeing'
    <3> SUFFICES ASSUME Informed', ~silent', Current'.type = "bool"
                 PROVE  Agrees(Current', events', InHand', HandValue', ros_time_active')
      BY DEF Agreeing
    <3>1. Current' = Current /\ Informed /\ ~silent
      BY <1>2, <2>3 DEF Current, Informed
    <3>2. Agrees(Current, events, InHand, HandValue, ros_time_active)
      BY <1>1, <3>1 DEF Agreeing
    <3>3. ASSUME \A i \in DOMAIN events : ~Tells(events[i])
          PROVE  list[Len(list) - 1].value = Current
      BY <1>8, <2>1, <3>2, <3>3 DEF Agrees
    <3>4. ASSUME \A i \in DOMAIN events : ~Tells(events[i]), ~InHand'
          PROVE  ros_time_active' <=> Current.v = 1
      <4>1. Len(list) = 2
        BY <1>6, <2>1, <2>5, <3>4
      <4>2. value = Current
        BY <1>7, <3>3, <3>4, <4>1
      <4> QED
        BY <2>3, <3>1, <4>2
    <3> QED
      BY <1>2, <2>5, <3>1, <3>2, <3>3, <3>4 DEF Agrees
  <2>7. Subscribing'
    <3>1. CASE value.type = "bool"
      <4>1. \/ /\ ros_time_active' = TRUE
               /\ pc' = [pc EXCEPT ![Executor] = "enable"] \/ pc' = [pc EXCEPT ![Executor] = "create_sub"]
            \/ /\ ros_time_active' = FALSE
               /\ pc' = [pc EXCEPT ![Executor] = "disable"] \/ pc' = [pc EXCEPT ![Executor] = "destroy_sub"]
        BY <1>2, <3>1 DEF Apply, Goto
      <4>2. \/ ros_time_active' = TRUE /\ pc'[Executor] \in {"enable", "create_sub"}
            \/ ros_time_active' = FALSE /\ pc'[Executor] \in {"disable", "destroy_sub"}
        BY <4>1, ExecutorGoesTo
      <4>3. attached
        BY <1>2, CallbackAlone DEF InCallback
      <4> QED
        BY <1>1, <1>2, <1>4, <2>3, <4>2, <4>3 DEF Subscribing, Threads
    <3>2. CASE value.type # "bool"
      BY <1>1, <1>2, <1>10, <3>2 DEF Subscribing
    <3> QED
      BY <3>1, <3>2
  <2> QED
    BY <2>4, <2>6, <2>7 DEF SimInv
<1> QED
  BY <1>9, <1>10

LEMMA SimInvHolds == Init => SimInv
<1> SUFFICES ASSUME Init
             PROVE  SimInv
  OBVIOUS
<1>1. /\ attached = FALSE /\ parameter_subscription = FALSE /\ clock_subscription = FALSE
      /\ events = <<>> /\ ros_time_active = FALSE /\ pc = [t \in Threads |-> "idle"]
  BY DEF Init, SourceInit
<1>2. pc[User] = "idle" /\ pc[Executor] = "idle"
  BY <1>1 DEF Threads
<1>3. Handled
  BY <1>1, <1>2 DEF Handled, Applying
<1>4. Agreeing
  BY <1>1, <1>2 DEF Agreeing, Informed
<1>5. Subscribing
  BY <1>1, <1>2 DEF Subscribing, Threads
<1> QED
  BY <1>3, <1>4, <1>5 DEF SimInv

LEMMA SimInvKept == IInv /\ ClockInv /\ SimInv /\ [Next]_vars => SimInv'
<1> SUFFICES ASSUME IInv, ClockInv, SimInv, [Next]_vars
             PROVE  SimInv'
  OBVIOUS
<1>1. Storing
  BY DEF IInv
<1>2. CASE UNCHANGED vars
  <2>1. undefined' = undefined
    BY <1>2 DEF vars, sourceVars
  <2>2. CASE undefined
    BY <2>1, <2>2 DEF SimInv
  <2>3. CASE ~undefined
    BY <1>1, <1>2, <2>3, StepsElsewhere, StepsTell, ElsewhereTells
  <2> QED
    BY <2>2, <2>3
<1>3. CASE Next
  <2>1. ~undefined
    BY <1>3 DEF Next
  <2>2. CASE CallTimeSource
    BY <2>1, <2>2, TimeSourceTells
  <2>3. CASE AttachNode
    BY <1>1, <2>1, <2>3, AttachNodeTells
  <2>4. CASE AttachDeclares
    BY <1>1, <2>1, <2>4, AttachDeclaresTells
  <2>5. CASE AttachGets
    BY <1>1, <2>1, <2>5, AttachGetsTells
  <2>6. CASE Subscribe
    BY <1>1, <2>1, <2>6, SubscribeTells
  <2>7. CASE SourceStep
    <3>1. \/ \E t \in Threads : EnableClocks(t) \/ CreateClockSub(t)
          \/ DisableClocks(Executor) \/ DestroyClockSub(Executor)
          \/ TakeEvent \/ OnParameterEvent \/ NextMatch
          \/ Tick \/ TakeClock \/ ClockCb \/ ClockEnable \/ ClockCache \/ ClockSet
      BY <2>7 DEF SourceStep, SourceSteps
    <3>2. UNCHANGED <<parameters, silent>>
      BY <2>7 DEF SourceStep, storeVars
    <3> QED
      BY <1>1, <2>1, <3>1, <3>2, EnableClocksTells, TakeEventTells, OnParameterEventTells,
         NextMatchTells, ClockTells
  <2>8. CASE \/ \E d \in Defaults : CallDeclare(d) \/ CallUndeclare(d.name)
             \/ \E ps \in ParamLists : CallSetAtomically(ps) \/ CallSetParameters(ps)
             \/ CallSetCallback \/ (\E t \in Threads : SetNext(t)) \/ SetReturns
             \/ TakeRequest \/ ServeSet \/ ServeAtomically \/ ServeQuery
             \/ (\E r \in Requests : SendRequest(r)) \/ StorePending \/ SpinReturns
             \/ HandleResponse \/ Complete
    BY <1>1, <2>1, <2>8, StepsElsewhere, StepsTell, ElsewhereTells
  <2> QED
    BY <1>3, <2>2, <2>3, <2>4, <2>5, <2>6, <2>7, <2>8 DEF Next
<1> QED
  BY <1>2, <1>3

LEMMA AgreeingFollows == ClockInv /\ SimInv => SimTimeFollows
<1> SUFFICES ASSUME ClockInv, SimInv, parameter_subscription, ~silent, ~undefined, events = <<>>,
                    ~InCallback, pc[User] \notin Attaching, Current.type = "bool"
             PROVE  ros_time_active = (Current.v = 1) /\ clock_subscription = (Current.v = 1)
  BY DEF SimTimeFollows, Current
<1>1. pc[Executor] \in {"idle", "set", "serve"}
  BY DEF InCallback
<1>2. Agrees(Current, <<>>, InHand, HandValue, ros_time_active) /\ ~InHand
  BY <1>1 DEF SimInv, Agreeing, Informed, InHand, Applying
<1>3. ros_time_active <=> Current.v = 1
  BY <1>2 DEF Agrees
<1>4. /\ ros_time_active \in BOOLEAN /\ clock_subscription \in BOOLEAN
      /\ clock_subscription <=> ros_time_active
  BY <1>1 DEF SimInv, Subscribing, Attaching
<1> QED
  BY <1>3, <1>4

\* Once every event is handled the time source and its subscription to /clock
\* are as use_sim_time says, whatever was declared, set, attached and detached.
THEOREM SimTimeFollowed == Spec => []SimTimeFollows
  BY IInvHolds, IInvKept, ClockInvHolds, ClockInvKept, SimInvHolds, SimInvKept,
     AgreeingFollows, PTL DEF Spec

\* The time source does what use_sim_time and /clock say.
THEOREM TimeSourceFollows == Spec => []TimeFollows
<1>1. ClocksFollow /\ SimTimeFollows => TimeFollows
  BY DEF TimeFollows
<1> QED
  BY <1>1, ClocksFollowTime, SimTimeFollowed, PTL

------------------------------------------------------------------------------
(* The arithmetic of times and durations. *)

\* The four tests of utilities.hpp say exactly when a sum or a difference leaves 64 bits.
LEMMA SumTests ==
  ASSUME NEW x \in Int64, NEW y \in Int64
  PROVE  (add_will_overflow(x, y) \/ add_will_underflow(x, y)) <=> x + y \notin Int64
<1>1. x \in Int /\ y \in Int /\ Max64 \in Int
  BY WidthAssumption DEF Int64, Min64
<1> QED
  BY <1>1 DEF Int64, Min64, add_will_overflow, add_will_underflow

LEMMA DifferenceTests ==
  ASSUME NEW x \in Int64, NEW y \in Int64
  PROVE  (sub_will_overflow(x, y) \/ sub_will_underflow(x, y)) <=> x - y \notin Int64
<1>1. x \in Int /\ y \in Int /\ Max64 \in Int
  BY WidthAssumption DEF Int64, Min64
<1> QED
  BY <1>1 DEF Int64, Min64, sub_will_overflow, sub_will_underflow

\* An operation with a Time throws exactly when its result does not fit.
THEOREM TimeArithmeticCorrect == OperandsOK => TimeArithmeticExact
<1> SUFFICES ASSUME left \in Int64, right \in Int64
             PROVE  TimeArithmeticExact
  BY DEF OperandsOK
<1>1. left + right = right + left
  BY WidthAssumption DEF Int64, Min64
<1>2. Exact(TimePlusDuration(left, right), left + right)
  BY <1>1, SumTests DEF TimePlusDuration, Exact, Checked
<1>3. Exact(DurationPlusTime(right, left), left + right)
  BY <1>1, SumTests DEF DurationPlusTime, Exact, Checked
<1>4. Exact(TimeMinusDuration(left, right), left - right)
  BY DifferenceTests DEF TimeMinusDuration, Exact, Checked
<1>5. Exact(TimeMinusTime(left, right, TRUE), left - right)
  BY DifferenceTests DEF TimeMinusTime, Exact, Checked
<1> QED
  BY <1>2, <1>3, <1>4, <1>5 DEF TimeArithmeticExact

\* The absolute values of two durations other than INT64_MIN add up without wrapping.
LEMMA AbsoluteValuesFit ==
  ASSUME NEW l \in Int64, NEW r \in Int64, ~ Lowest(l), ~ Lowest(r)
  PROVE  /\ l \in Int /\ r \in Int /\ Max64 \in Nat
         /\ l <= Max64 /\ -Max64 <= l /\ r <= Max64 /\ -Max64 <= r
         /\ Abs(l) \in 0 .. Max64 /\ Abs(r) \in 0 .. Max64
         /\ AddU64(Abs(l), Abs(r)) = Abs(l) + Abs(r)
<1>1. /\ l \in Int /\ r \in Int /\ Max64 \in Nat
      /\ l <= Max64 /\ -Max64 <= l /\ r <= Max64 /\ -Max64 <= r
  BY WidthAssumption DEF Int64, Min64, Lowest
<1>2. Abs(l) \in 0 .. Max64 /\ Abs(r) \in 0 .. Max64
  BY <1>1 DEF Abs
<1>3. AddU64(Abs(l), Abs(r)) = Abs(l) + Abs(r)
  BY <1>1, <1>2 DEF AddU64
<1> QED
  BY <1>1, <1>2, <1>3

\* Sums and differences of durations are in range or refused, and refused only out of range.
THEOREM DurationArithmeticCorrect == OperandsOK => DurationArithmeticSafe
<1> SUFFICES ASSUME NEW l \in Int64, NEW r \in Int64, ~ Lowest(l), ~ Lowest(r)
             PROVE  /\ \/ DurationPlus(l, r) = Value(l + r) /\ l + r \in Int64
                       \/ DurationPlus(l, r) = Threw /\ Abs(l + r) > Max64
                    /\ \/ DurationMinus(l, r) = Value(l - r) /\ l - r \in Int64
                       \/ DurationMinus(l, r) = Threw /\ Abs(l - r) > Max64
  BY DEF OperandsOK, DurationArithmeticSafe
<1>1. /\ l \in Int /\ r \in Int /\ Max64 \in Nat
      /\ l <= Max64 /\ -Max64 <= l /\ r <= Max64 /\ -Max64 <= r
      /\ AddU64(Abs(l), Abs(r)) = Abs(l) + Abs(r)
  BY AbsoluteValuesFit
<1>2. IF bounds_check_duration_sum(l, r) THEN Abs(l + r) > Max64 ELSE l + r \in Int64
  BY <1>1 DEF bounds_check_duration_sum, Abs, Int64, Min64
<1>3. IF bounds_check_duration_difference(l, r) THEN Abs(l - r) > Max64 ELSE l - r \in Int64
  BY <1>1 DEF bounds_check_duration_difference, Abs, Int64, Min64
<1>4. \/ DurationPlus(l, r) = Value(l + r) /\ l + r \in Int64
      \/ DurationPlus(l, r) = Threw /\ Abs(l + r) > Max64
  BY <1>2 DEF DurationPlus, Checked
<1>5. \/ DurationMinus(l, r) = Value(l - r) /\ l - r \in Int64
      \/ DurationMinus(l, r) = Threw /\ Abs(l - r) > Max64
  BY <1>3 DEF DurationMinus, Checked
<1> QED
  BY <1>4, <1>5

\* A quotient whose remainder is in range is the floor of the division.
LEMMA FloorUnique ==
  ASSUME NEW n \in Int, NEW d \in Nat \ {0}, NEW a \in Int, n - a * d \in 0 .. d - 1
  PROVE  a = n \div d
<1> DEFINE b == n \div d
<1>1. b \in Int /\ n - b * d \in 0 .. d - 1
  OBVIOUS
<1>2. a * d < (b + 1) * d /\ b * d < (a + 1) * d
  BY <1>1
<1>3. a < b + 1 /\ b < a + 1
  BY <1>1, <1>2
<1> QED
  BY <1>1, <1>3

\* std::div, corrected for a negative remainder, is the floor.
LEMMA MessageParts ==
  ASSUME NEW ns \in Int64
  PROVE  ToMsg(ns) = [sec |-> Int32Of(ns \div Second), nanosec |-> ns - (ns \div Second) * Second]
<1>1. ns \in Int /\ Second \in Nat \ {0}
  BY WidthAssumption DEF Int64, Min64
<1> DEFINE quot == Quot(ns, Second)
           rem  == ns - quot * Second
<1>2. CASE ns >= 0
  <2>1. quot = ns \div Second
    BY <1>1, <1>2 DEF Quot
  <2>2. rem >= 0
    BY <1>1, <2>1
  <2> QED
    BY <2>1, <2>2 DEF ToMsg
<1>3. CASE ns < 0
  <2> DEFINE m == (-ns) \div Second
  <2>1. m \in Int /\ (-ns) - m * Second \in 0 .. Second - 1
    BY <1>1
  <2>2. quot = -m
    BY <1>3 DEF Quot
  <2>3. quot * Second = -(m * Second)
    BY <1>1, <2>1, <2>2
  <2>4. CASE rem >= 0
    <3>1. rem \in 0 .. Second - 1
      BY <1>1, <2>1, <2>2, <2>3, <2>4
    <3>2. quot = ns \div Second
      BY <1>1, <2>1, <2>2, <3>1, FloorUnique
    <3> QED
      BY <2>4, <3>2 DEF ToMsg
  <2>5. CASE ~ (rem >= 0)
    <3>1. (quot - 1) * Second = quot * Second - Second
      BY <1>1, <2>1, <2>2
    <3>2. ns - (quot - 1) * Second \in 0 .. Second - 1
      BY <1>1, <2>1, <2>2, <2>3, <2>5, <3>1
    <3>3. quot - 1 = ns \div Second
      <4> DEFINE a == quot - 1
      <4>1. a \in Int
        BY <2>1, <2>2
      <4>2. ns - a * Second \in 0 .. Second - 1
        BY <3>2
      <4> HIDE DEF a
      <4>3. a = ns \div Second
        BY <1>1, <4>1, <4>2, FloorUnique
      <4> QED
        BY <4>3 DEF a
    <3>4. Second + rem = ns - (ns \div Second) * Second
      BY <1>1, <2>1, <2>2, <2>3, <3>1, <3>3
    <3> QED
      BY <2>5, <3>3, <3>4 DEF ToMsg
  <2> QED
    BY <2>4, <2>5
<1> QED
  BY <1>1, <1>2, <1>3

\* The cast to 32 bits keeps a number of 32 bits.
LEMMA Int32Kept ==
  ASSUME NEW n \in Int32
  PROVE  Int32Of(n) = n
<1>1. n \in Int /\ Max32 \in Nat /\ n + Max32 + 1 \in 0 .. 2 * Max32 + 1
  BY WidthAssumption DEF Int32
<1>2. (n + Max32 + 1) % (2 * Max32 + 2) = n + Max32 + 1
  BY <1>1
<1> QED
  BY <1>1, <1>2 DEF Int32Of

\* What a message can hold comes back from it.
THEOREM ConversionsCorrect == OperandsOK => ConversionsKeepValue
<1> SUFFICES ASSUME NEW ns \in Int64, (ns \div Second) \in Int32
             PROVE  /\ ToMsg(ns).nanosec \in 0 .. Second - 1
                    /\ DurationOf(ToMsg(ns).sec, ToMsg(ns).nanosec) = ns
                    /\ ns >= 0 => /\ to_rmw_time(ns) = Value(ns)
                                  /\ TimeOf(ToMsg(ns).sec, ToMsg(ns).nanosec) = Value(ns)
  BY DEF OperandsOK, ConversionsKeepValue
<1>1. ns \in Int /\ Second \in Nat \ {0}
  BY WidthAssumption DEF Int64, Min64
<1> DEFINE q == ns \div Second
<1>2. q \in Int /\ ns - q * Second \in 0 .. Second - 1
  BY <1>1
<1>3. ToMsg(ns).sec = q /\ ToMsg(ns).nanosec = ns - q * Second
  BY MessageParts, Int32Kept
<1>4. ToMsg(ns).nanosec \in 0 .. Second - 1
  BY <1>2, <1>3
<1>5. q * Second + (ns - q * Second) = ns
  BY <1>1, <1>2
<1>6. DurationOf(ToMsg(ns).sec, ToMsg(ns).nanosec) = ns
  BY <1>3, <1>5 DEF DurationOf
<1>7. ASSUME ns >= 0
      PROVE  to_rmw_time(ns) = Value(ns) /\ TimeOf(ToMsg(ns).sec, ToMsg(ns).nanosec) = Value(ns)
  <2>1. q >= 0
    BY <1>1, <1>7
  <2>2. to_rmw_time(ns) = Value(ns)
    BY <1>1, <1>6, <1>7 DEF to_rmw_time, Checked
  <2>3. TimeOf(ToMsg(ns).sec, ToMsg(ns).nanosec) = Value(ns)
    BY <1>2, <1>3, <1>5, <2>1 DEF TimeOf, Checked
  <2> QED
    BY <2>2, <2>3
<1> QED
  BY <1>4, <1>6, <1>7

\* A rate never sleeps longer than its period, and stays on its grid while the work fits.
THEOREM RateIsKept == OperandsOK => RateKept
<1> SUFFICES ASSUME NEW last \in Int64, NEW now \in Int64, NEW period \in 1 .. Second
             PROVE  LET sleep == RateSleep(last, period, now)
                    IN  /\ sleep.slept \in 0 .. period
                        /\ now \in last .. last + period =>
                             /\ now + sleep.slept = last + period
                             /\ sleep.last = last + period
  BY DEF OperandsOK, RateKept
<1>1. last \in Int /\ now \in Int /\ period \in Int /\ period > 0
  BY WidthAssumption DEF Int64, Min64
<1> DEFINE sleep == RateSleep(last, period, now)
           next  == NextInterval(last, period, now)
<1>2. /\ next \in Int
      /\ next - now <= period
      /\ now \in last .. last + period => next = last + period
  BY <1>1 DEF NextInterval
<1>3. /\ sleep.slept = IF next - now <= 0 THEN 0 ELSE next - now
      /\ sleep.last = IF next - now <= 0 /\ now > next + period THEN now + period ELSE last + period
  BY DEF RateSleep
<1>4. sleep.slept \in 0 .. period
  BY <1>1, <1>2, <1>3
<1>5. ASSUME now \in last .. last + period
      PROVE  now + sleep.slept = last + period /\ sleep.last = last + period
  BY <1>1, <1>2, <1>3, <1>5
<1> QED
  BY <1>4, <1>5

-------------------------------------------------------------------------------
(* Scales *)

\* Being above a quotient that is rounded down is being above the quotient.
LEMMA AboveQuotient ==
  ASSUME NEW a \in Nat, NEW b \in Nat \ {0}, NEW x \in Nat
  PROVE  x > a \div b <=> x * b > a
<1> DEFINE k == a \div b
<1>1. k \in Nat /\ b * k <= a /\ a < b * k + b
  BY Z3
<1> HIDE DEF k
<1>2. x > k => x * b >= (k + 1) * b
  BY <1>1
<1>3. x <= k => x * b <= k * b
  BY <1>1
<1>4. (k + 1) * b = b * k + b /\ k * b = b * k /\ x * b \in Nat /\ b * k \in Nat
  BY <1>1
<1>5. x > k <=> x * b > a
  BY <1>1, <1>2, <1>3, <1>4
<1> QED
  BY <1>5 DEF k

\* The absolute value of a product.
LEMMA AbsOfProduct ==
  ASSUME NEW x \in Int, NEW y \in Int
  PROVE  Abs(x * y) = Abs(x) * Abs(y) /\ Abs(x) \in Nat /\ Abs(x * y) \in Nat
  BY DEF Abs

\* A truncated quotient is bounded as its numerator is.
LEMMA QuotBounded ==
  ASSUME NEW n \in Int, NEW d \in Nat \ {0}, NEW m \in Nat, Abs(n) <= m * d
  PROVE  Quot(n, d) \in -m .. m
<1> DEFINE k == Abs(n) \div d
<1>1. Abs(n) \in Nat
  BY DEF Abs
<1>2. m + 1 \in Nat /\ (m + 1) * d = m * d + d /\ m * d \in Nat
  OBVIOUS
<1>3. (m + 1) * d > Abs(n)
  BY <1>1, <1>2
<1>4. m + 1 > k
  BY <1>1, <1>2, <1>3, AboveQuotient
<1>5. k \in Nat
  BY <1>1, Z3
<1>6. Quot(n, d) = k \/ Quot(n, d) = -k
  BY DEF Quot, Abs
<1> QED
  BY <1>4, <1>5, <1>6

\* A scaled duration is refused exactly if it is beyond +-INT64_MAX, INT64_MIN excepted: for
\* every scale that is a fraction, the check before the product is neither too weak nor too strong.
THEOREM ScaleCorrect == OperandsOK => ScaleIsSafe
<1> SUFFICES ASSUME OperandsOK, ~ Lowest(left),
                    NEW p \in -Scale .. Scale, NEW q \in 1 .. Scale
             PROVE  LET times == DurationTimes(left, p, q)
                    IN  /\ times.threw <=> Abs(left * p) > Max64 * q
                        /\ times.value \in -Max64 .. Max64
  BY DEF ScaleIsSafe
<1>1. left \in Int /\ p \in Int /\ q \in Nat \ {0} /\ Max64 \in Nat /\ Abs(left) <= Max64
  BY WidthAssumption DEF OperandsOK, Lowest, Int64, Min64, Abs
<1>2. Abs(left * p) = Abs(left) * Abs(p) /\ Abs(left) \in Nat /\ Abs(p) \in Nat
  BY <1>1, AbsOfProduct
<1>3. Max64 * q \in Nat
  BY <1>1
<1>4. bounds_check_duration_scale(left, p, q) <=> Abs(left * p) > Max64 * q
  <2>1. CASE Abs(p) > q
    <3>1. Abs(left) > (Max64 * q) \div Abs(p) <=> Abs(left) * Abs(p) > Max64 * q
      BY <1>1, <1>2, <1>3, <2>1, AboveQuotient
    <3> QED
      BY <1>2, <2>1, <3>1 DEF bounds_check_duration_scale
  <2>2. CASE Abs(p) <= q
    <3>1. Abs(left) * Abs(p) <= Max64 * q
      <4>1. Abs(left) * Abs(p) <= Max64 * Abs(p)
        BY <1>1, <1>2
      <4>2. Max64 * Abs(p) <= Max64 * q
        BY <1>1, <1>2, <2>2
      <4> QED
        BY <1>1, <1>2, <4>1, <4>2
    <3> QED
      BY <1>1, <1>2, <1>3, <2>2, <3>1 DEF bounds_check_duration_scale
  <2> QED
    BY <1>1, <1>2, <2>1, <2>2
<1>5. DurationTimes(left, p, q).threw <=> Abs(left * p) > Max64 * q
  BY <1>4 DEF DurationTimes, Checked, Value, Threw
<1>6. Abs(left * p) <= Max64 * q => Quot(left * p, q) \in -Max64 .. Max64
  BY <1>1, QuotBounded
<1>7. DurationTimes(left, p, q).value \in -Max64 .. Max64
  <2>1. DurationTimes(left, p, q).value =
          IF Abs(left * p) > Max64 * q THEN 0 ELSE Quot(left * p, q)
    BY <1>4 DEF DurationTimes, Checked, Value, Threw
  <2>2. Abs(left * p) \in Int
    BY <1>1, AbsOfProduct
  <2> QED
    BY <1>1, <1>3, <1>6, <2>1, <2>2
<1> QED
  BY <1>5, <1>7

\* The five claims together: what the checks are for holds for any two operands.
THEOREM ArithmeticIsCorrect == OperandsOK => ArithmeticCorrect
  BY TimeArithmeticCorrect, DurationArithmeticCorrect, ScaleCorrect, ConversionsCorrect,
     RateIsKept
  DEF ArithmeticCorrect
==============================================================================
