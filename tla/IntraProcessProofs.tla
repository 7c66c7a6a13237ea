------------------------- MODULE IntraProcessProofs -------------------------
(***************************************************************************)
(* Proofs about IntraProcess, for any publishers, subscriptions, messages, *)
(* takers and depth of the rings.                                          *)
(*                                                                         *)
(* None of the properties is inductive.  They rest on three facts about a  *)
(* number q of a publisher p: at most one message and one element of the   *)
(* ring have it (Numbering, Ringing), the targets of q shrink by the       *)
(* subscription that is about to fetch and never grow once the message can *)
(* be fetched (Fetched, Having), and one taker fetches at a time, because  *)
(* take_mutex_ is held from the choice of the target to the fetch          *)
(* (Locking).                                                              *)
(***************************************************************************)
EXTENDS IntraProcess, TLAPS

Active == {"push", "targets", "notify", "inter"}

\* What an element holds, and the elements of publisher p that hold something.
Val(e) == IF e.unique_value # None THEN e.unique_value ELSE e.shared_value
Used(p) == {i \in 0 .. Size - 1 : elements_[p][i].in_use}

\* The message that p stored with number q is still in its ring.
Stored(p, q) == \E i \in Used(p) : elements_[p][i].key = q

\* A taker has been told to fetch message q of p for subscription s.
Fetching(t) == taker[t].pc = "fetch"
Fetches(t, s, p, q) ==
  Fetching(t) /\ taker[t].sub = s /\ taker[t].note.pub = p /\ taker[t].note.seq = q

NobodyGone == \A s \in Subs : sub[s] # "gone"

Ways == {"moved", "shared", "copy", "inter"}
Notes == [pub: Pubs, seq: Nat]
Slot == [key: Nat, unique_value: Messages \cup {None},
         shared_value: Messages \cup {None}, in_use: BOOLEAN]

Types ==
  /\ pub \in [Pubs -> {"none", "alive", "expired", "gone"}]
  /\ sub \in [Subs -> {"none", "added", "ready", "gone"}]
  /\ sequence_number \in [Pubs -> Nat] /\ elements_ \in [Pubs -> [0 .. Size - 1 -> Slot]]
  /\ head_ \in [Pubs -> 0 .. Size - 1]
  /\ DOMAIN targets = Pubs /\ \A p \in Pubs : DOMAIN targets[p] \subseteq Nat
  /\ pc \in [Messages -> {"new", "seq", "push", "targets", "notify", "inter", "done"}]
  /\ seq \in [Messages -> Nat]
  /\ inbox \in [Subs -> SUBSET Notes] /\ copies \in [Subs -> SUBSET Messages]
  /\ taker \in [Takers -> [pc: {"idle", "take", "fetch"}, sub: Subs \cup {None},
                           note: Notes \cup {None}, last: BOOLEAN]]
  /\ \A t \in Takers : taker[t].pc # "idle" => taker[t].sub \in Subs /\ taker[t].note \in Notes
  /\ got \in [Subs -> [Messages -> Seq(Ways)]]

\* take_mutex_ is kept from the choice of the target to the fetch.
Locking ==
  \A t \in Takers :
    /\ Fetching(t) => take_mutex_ = t
    /\ runtime_mutex_ = t => take_mutex_ = t /\ taker[t].pc = "take"

\* The numbers of a publisher's messages: below its counter and all different,
\* with targets once the message is stored.
Numbering ==
  /\ \A m \in Messages :
       /\ pc[m] \in Active => seq[m] < sequence_number[PubOf[m]]
       /\ pc[m] \in {"push", "targets"} => seq[m] \notin DOMAIN targets[PubOf[m]]
       /\ pc[m] # "new" => pub[PubOf[m]] # "none"
       /\ \A s \in Subs : m \in copies[s] => pc[m] = "done"
  /\ \A m, n \in Messages :
       PubOf[m] = PubOf[n] /\ pc[m] \in Active /\ pc[n] \in Active /\ seq[m] = seq[n] => m = n
  /\ \A p \in Pubs : \A q \in DOMAIN targets[p] : q < sequence_number[p]

\* The ring of a publisher: an element in use holds one of its messages, in one
\* way, under the number it was given; no message and no number is there twice.
Ringing ==
  \A p \in Pubs :
    /\ \A i \in 0 .. Size - 1 :
         IF elements_[p][i].in_use
         THEN (elements_[p][i].unique_value = None) # (elements_[p][i].shared_value = None)
         ELSE elements_[p][i].unique_value = None /\ elements_[p][i].shared_value = None
    /\ \A i \in Used(p) :
         /\ PubOf[Val(elements_[p][i])] = p /\ elements_[p][i].key < sequence_number[p]
         /\ pc[Val(elements_[p][i])] \notin {"new", "seq", "push"}
         /\ pc[Val(elements_[p][i])] \in Active =>
              elements_[p][i].key = seq[Val(elements_[p][i])]
         /\ \A m \in Messages :
              PubOf[m] = p /\ pc[m] \in Active /\ elements_[p][i].key = seq[m] =>
                Val(elements_[p][i]) = m
    /\ \A i, j \in Used(p) :
         \/ elements_[p][i].key = elements_[p][j].key
         \/ Val(elements_[p][i]) = Val(elements_[p][j])
         => i = j

\* Who was given a message: nobody before its targets were stored, and while
\* its publisher lives only a subscription that is no longer its target.
Having ==
  /\ \A s \in Subs, m \in Messages :
       got[s][m] # <<>> => pc[m] \notin {"new", "seq", "push", "targets"}
  /\ \A p \in Pubs : pub[p] = "alive" =>
       \A i \in Used(p), s \in Subs : got[s][Val(elements_[p][i])] # <<>> =>
         /\ elements_[p][i].key \in DOMAIN targets[p]
         /\ s \notin targets[p][elements_[p][i].key]
         /\ \A t \in Takers : ~Fetches(t, s, p, elements_[p][i].key)

\* Who owns a message: what is in the ring was given to nobody, and what is
\* there as a unique pointer is shared with nobody.
Owning ==
  /\ \A p \in Pubs : \A i \in Used(p), s \in Subs :
       LET e == elements_[p][i] IN
       /\ "moved" \notin ToSet(got[s][Val(e)])
       /\ e.unique_value # None => "shared" \notin ToSet(got[s][Val(e)])
  /\ \A s, u \in Subs, m \in Messages :
       "moved" \in ToSet(got[s][m]) /\ u # s => ToSet(got[u][m]) \cap {"moved", "shared"} = {}

\* A subscription that has taken its name off the targets fetches; the last one
\* knows that it is.
Fetched ==
  \A t \in Takers : Fetching(t) =>
    LET p == taker[t].note.pub  q == taker[t].note.seq IN
    /\ q \in DOMAIN targets[p] /\ taker[t].sub \notin targets[p][q]
    /\ taker[t].last => targets[p][q] = {}
    /\ ~taker[t].last /\ NobodyGone => targets[p][q] # {}

\* What somebody has still to fetch is in the ring, or was displaced.
Keeping ==
  /\ \A p \in Pubs : \A q \in DOMAIN targets[p] :
       targets[p][q] # {} => Stored(p, q) \/ [pub |-> p, seq |-> q] \in displaced
  /\ \A m \in Messages : pc[m] = "targets" =>
       Stored(PubOf[m], seq[m]) \/ [pub |-> PubOf[m], seq |-> seq[m]] \in displaced
  /\ \A t \in Takers : Fetching(t) =>
       Stored(taker[t].note.pub, taker[t].note.seq) \/ taker[t].note \in displaced
  /\ \A s \in Subs, n \in Notes : <<s, n, FALSE>> \in took => n \in displaced

\* What everybody has fetched is not in the ring.
Freeing ==
  \A n \in Notes, s \in Subs, b \in BOOLEAN : <<s, n, b>> \in took =>
    /\ n.seq \in DOMAIN targets[n.pub]
    /\ targets[n.pub][n.seq] = {} /\ NobodyGone
       /\ (\A t \in Takers : Fetching(t) => taker[t].note # n)
       => ~Stored(n.pub, n.seq)


IInv ==
  /\ Types /\ Locking /\ Numbering /\ Ringing /\ Having /\ AtMostOnce /\ Owning /\ Fetched
  /\ Keeping /\ Freeing

USE IntraAssumption

------------------------------------------------------------------------------
(* Types.                                                                   *)

\* What a sequence contains once something is appended to it.
LEMMA ToSetAppend ==
  ASSUME NEW S, NEW q \in Seq(S), NEW x \in S
  PROVE  /\ Append(q, x) \in Seq(S) /\ Append(q, x) # <<>> /\ Len(Append(q, x)) = Len(q) + 1
         /\ ToSet(Append(q, x)) = ToSet(q) \cup {x}
<1>1. Append(q, x) \in Seq(S) /\ Len(Append(q, x)) = Len(q) + 1 /\ Len(q) \in Nat
  OBVIOUS
<1>2. \A i \in 1 .. Len(q) : Append(q, x)[i] = q[i]
  OBVIOUS
<1>3. Append(q, x)[Len(q) + 1] = x
  OBVIOUS
<1>4. DOMAIN q = 1 .. Len(q) /\ DOMAIN Append(q, x) = 1 .. Len(q) + 1
  BY <1>1
<1>5. ToSet(Append(q, x)) = ToSet(q) \cup {x}
  BY <1>1, <1>2, <1>3, <1>4 DEF ToSet
<1> QED BY <1>1, <1>5

LEMMA ToSetEmpty == ToSet(<<>>) = {} /\ Len(<<>>) = 0
  BY DEF ToSet

LEMMA InitTypes == Init => Types
<1> SUFFICES ASSUME Init PROVE Types
  OBVIOUS
<1>1. Empty \in Slot
  BY DEF Empty, Slot
<1>2. Idle \in [pc: {"idle", "take", "fetch"}, sub: Subs \cup {None},
                note: Notes \cup {None}, last: BOOLEAN]
  BY DEF Idle
<1>3. elements_ \in [Pubs -> [0 .. Size - 1 -> Slot]]
  BY <1>1 DEF Init
<1>4. taker \in [Takers -> [pc: {"idle", "take", "fetch"}, sub: Subs \cup {None},
                           note: Notes \cup {None}, last: BOOLEAN]]
  BY <1>2 DEF Init
<1>5. \A t \in Takers : taker[t].pc # "idle" => taker[t].sub \in Subs /\ taker[t].note \in Notes
  BY DEF Init, Idle
<1>6. got \in [Subs -> [Messages -> Seq(Ways)]]
  BY DEF Init
<1>7. DOMAIN targets = Pubs /\ \A p \in Pubs : DOMAIN targets[p] \subseteq Nat
  BY DEF Init
<1>8. head_ \in [Pubs -> 0 .. Size - 1]
  BY DEF Init
<1> QED BY <1>3, <1>4, <1>5, <1>6, <1>7, <1>8 DEF Init, Types

\* Several fields of an element written one after the other.
LEMMA SetShared ==
  ASSUME NEW ring \in [0 .. Size - 1 -> Slot], NEW i \in 0 .. Size - 1, NEW v, NEW u,
         u = IF ring[i].shared_value # None THEN ring[i].unique_value ELSE None
  PROVE  [ring EXCEPT ![i].unique_value = IF ring[i].shared_value # None THEN @ ELSE None,
                      ![i].shared_value = v]
         = [ring EXCEPT ![i] = [ring[i] EXCEPT !.unique_value = u, !.shared_value = v]]
<1> DEFINE r1 == [ring EXCEPT ![i].unique_value = IF ring[i].shared_value # None THEN @ ELSE None]
<1>1. r1 = [ring EXCEPT ![i] = [ring[i] EXCEPT !.unique_value = u]]
  OBVIOUS
<1>2. r1[i] = [ring[i] EXCEPT !.unique_value = u]
  BY <1>1
<1>3. [r1 EXCEPT ![i].shared_value = v] = [r1 EXCEPT ![i] = [r1[i] EXCEPT !.shared_value = v]]
  OBVIOUS
<1>4. [r1 EXCEPT ![i].shared_value = v]
      = [r1 EXCEPT ![i] = [ring[i] EXCEPT !.unique_value = u, !.shared_value = v]]
  BY <1>2, <1>3
<1> HIDE DEF r1
<1>5. \A w : [r1 EXCEPT ![i] = w] = [ring EXCEPT ![i] = w]
  BY <1>1
<1> QED BY <1>4, <1>5 DEF r1

LEMMA SetVacant ==
  ASSUME NEW ring \in [0 .. Size - 1 -> Slot], NEW i \in 0 .. Size - 1
  PROVE  [ring EXCEPT ![i].unique_value = None, ![i].shared_value = None, ![i].in_use = FALSE]
         = [ring EXCEPT ![i] = [ring[i] EXCEPT !.unique_value = None, !.shared_value = None,
                                               !.in_use = FALSE]]
<1> DEFINE r1 == [ring EXCEPT ![i].unique_value = None]
           r2 == [r1 EXCEPT ![i].shared_value = None]
<1>1. r1 = [ring EXCEPT ![i] = [ring[i] EXCEPT !.unique_value = None]]
  OBVIOUS
<1>2. r1[i] = [ring[i] EXCEPT !.unique_value = None]
  BY <1>1
<1>3. r2 = [r1 EXCEPT ![i] = [r1[i] EXCEPT !.shared_value = None]]
  OBVIOUS
<1> HIDE DEF r1
<1>4. \A w : [r1 EXCEPT ![i] = w] = [ring EXCEPT ![i] = w]
  BY <1>1
<1>5. r2 = [ring EXCEPT ![i] = [ring[i] EXCEPT !.unique_value = None, !.shared_value = None]]
  BY <1>2, <1>3, <1>4
<1> HIDE DEF r2
<1>6. r2[i] = [ring[i] EXCEPT !.unique_value = None, !.shared_value = None]
  BY <1>5
<1>7. \A w : [r2 EXCEPT ![i] = w] = [ring EXCEPT ![i] = w]
  BY <1>5
<1>8. [r2 EXCEPT ![i].in_use = FALSE] = [r2 EXCEPT ![i] = [r2[i] EXCEPT !.in_use = FALSE]]
  OBVIOUS
<1>9. [r2 EXCEPT ![i].in_use = FALSE]
      = [ring EXCEPT ![i] = [ring[i] EXCEPT !.unique_value = None, !.shared_value = None,
                                            !.in_use = FALSE]]
  BY <1>6, <1>7, <1>8
<1> QED BY <1>9 DEF r1, r2

\* Taker t is given the message of element i one way, and leaves e in its place.
FetchesFrom(t, i, how, e) ==
  LET s == taker[t].sub  p == taker[t].note.pub  q == taker[t].note.seq
      x == elements_[p][i]
      v == Val(x)
  IN
  /\ x.key = q /\ v \in Messages
  /\ elements_' = [elements_ EXCEPT ![p] = [@ EXCEPT ![i] = e]]
  /\ got' = [got EXCEPT ![s][v] = Append(@, how)]
  /\ how \in {"moved", "shared", "copy"}
  /\ taker[t].last => ~e.in_use /\ e.unique_value = None /\ e.shared_value = None
  /\ ~taker[t].last =>
       /\ e.in_use /\ how # "moved" /\ e.key = q /\ Val(e) = v
       /\ (e.unique_value = None) # (e.shared_value = None)
       /\ e.unique_value # None => how = "copy" /\ x.unique_value # None
  /\ how = "moved" => x.unique_value # None

\* What Fetch does to the ring and to who was given what, element by element.
LEMMA FetchEffect ==
  ASSUME IInv, NEW t \in Takers, Fetch(t)
  PROVE  LET s == taker[t].sub  p == taker[t].note.pub  q == taker[t].note.seq IN
         /\ s \in Subs /\ p \in Pubs /\ q \in Nat /\ taker[t].note \in Notes
         /\ taker' = [taker EXCEPT ![t] = Idle] /\ took' = took \cup {<<s, taker[t].note, Stored(p, q)>>}
         /\ take_mutex_ = t /\ take_mutex_' = None
         /\ ~Stored(p, q) => elements_' = elements_ /\ got' = got
         /\ Stored(p, q) => \E i \in Used(p), how \in Ways, e \in Slot : FetchesFrom(t, i, how, e)
<1> DEFINE s == taker[t].sub
           p == taker[t].note.pub
           q == taker[t].note.seq
           F == Found(elements_[p], q)
           j == CHOOSE k \in F : TRUE
<1>1. s \in Subs /\ p \in Pubs /\ q \in Nat /\ taker[t].note \in Notes
  BY DEF IInv, Types, Fetch, Notes
<1>2. F = {k \in Used(p) : elements_[p][k].key = q}
  BY <1>1 DEF IInv, Types, Found, Used
<1>3. (F # {}) <=> Stored(p, q)
  BY <1>2 DEF Stored
<1>4. take_mutex_ = t /\ take_mutex_' = None /\ taker' = [taker EXCEPT ![t] = Idle]
      /\ took' = took \cup {<<s, taker[t].note, Stored(p, q)>>}
  <2>1. took' = took \cup {<<s, taker[t].note, F # {}>>}
    BY DEF Fetch
  <2>2. (F # {}) = Stored(p, q)
    BY <1>3 DEF Stored
  <2> QED BY <2>1, <2>2 DEF IInv, Locking, Fetching, Fetch
<1>5. ~Stored(p, q) => elements_' = elements_ /\ got' = got
  BY <1>3 DEF Fetch
<1>6. ASSUME Stored(p, q)
      PROVE  \E i \in Used(p), how \in Ways, e \in Slot : FetchesFrom(t, i, how, e)
  <2> DEFINE r == IF UseTakeShared(s)
                  THEN IF taker[t].last THEN PopShared(elements_[p], j) ELSE GetShared(elements_[p], j)
                  ELSE IF taker[t].last THEN PopUnique(elements_[p], j) ELSE GetUnique(elements_[p], j)
             x == elements_[p][j]
             v == Val(x)
  <2>1. F # {} /\ j \in F
    BY <1>3, <1>6
  <2>2. j \in Used(p) /\ x.key = q /\ j \in 0 .. Size - 1
    BY <1>2, <2>1 DEF Used
  <2>3. elements_[p] \in [0 .. Size - 1 -> Slot] /\ x \in Slot
    <3>1. elements_ \in [Pubs -> [0 .. Size - 1 -> Slot]]
      BY DEF IInv, Types
    <3>2. elements_[p] \in [0 .. Size - 1 -> Slot]
      BY <1>1, <3>1
    <3> QED BY <2>2, <3>2
  <2>4. x.in_use /\ (x.unique_value = None) # (x.shared_value = None)
    <3>1. x.in_use
      BY <2>2 DEF Used
    <3>2. \A i \in 0 .. Size - 1 :
            elements_[p][i].in_use =>
              (elements_[p][i].unique_value = None) # (elements_[p][i].shared_value = None)
      BY <1>1 DEF IInv, Ringing
    <3> QED BY <2>2, <3>1, <3>2
  <2>5. v \in Messages /\ (x.unique_value = None <=> x.shared_value = v)
        /\ (x.shared_value = None <=> x.unique_value = v)
    <3>1. x.unique_value \in Messages \cup {None} /\ x.shared_value \in Messages \cup {None}
      BY <2>3 DEF Slot
    <3>2. None \notin Messages
      OBVIOUS
    <3>3. v = IF x.unique_value # None THEN x.unique_value ELSE x.shared_value
      BY DEF Val
    <3> HIDE DEF x, v
    <3> QED BY <2>4, <3>1, <3>2, <3>3
  <2>6. elements_' = [elements_ EXCEPT ![p] = r.ring]
        /\ got' = [got EXCEPT ![s][r.value] = Append(@, Dispatch(s, UseTakeShared(s), r.how))]
    BY <2>1 DEF Fetch
  <2>7. Dispatch(s, UseTakeShared(s), r.how) = r.how
    BY DEF Dispatch, UseTakeShared
  <2> DEFINE vacant == [x EXCEPT !.unique_value = None, !.shared_value = None, !.in_use = FALSE]
             shared == [x EXCEPT !.unique_value = None, !.shared_value = v]
  <2>8. vacant \in Slot /\ shared \in Slot
        /\ ~vacant.in_use /\ vacant.unique_value = None /\ vacant.shared_value = None
        /\ shared.in_use /\ shared.key = q /\ shared.unique_value = None /\ shared.shared_value = v
    BY <2>2, <2>3, <2>4, <2>5 DEF Slot
  <2>9. Val(shared) = v /\ v # None
    BY <2>5, <2>8 DEF Val
  <2>10. Vacant(elements_[p], j) = [elements_[p] EXCEPT ![j] = vacant]
    <3> HIDE DEF j
    <3>1. \A ring \in [0 .. Size - 1 -> Slot] :
            Vacant(ring, j)
            = [ring EXCEPT ![j] = [ring[j] EXCEPT !.unique_value = None, !.shared_value = None,
                                                  !.in_use = FALSE]]
      BY <2>2, SetVacant DEF Vacant
    <3> QED BY <2>3, <3>1
  <2>11. PopShared(elements_[p], j).ring = [elements_[p] EXCEPT ![j] = vacant]
         /\ PopShared(elements_[p], j).value = v
         /\ PopShared(elements_[p], j).how = IF x.shared_value # None THEN "shared" ELSE "moved"
    BY <2>4, <2>5, <2>10 DEF PopShared
  <2>12. PopUnique(elements_[p], j).ring = [elements_[p] EXCEPT ![j] = vacant]
         /\ PopUnique(elements_[p], j).value = v
         /\ PopUnique(elements_[p], j).how = IF x.unique_value # None THEN "moved" ELSE "copy"
    BY <2>4, <2>5, <2>10 DEF PopUnique
  <2>13. GetUnique(elements_[p], j).ring = [elements_[p] EXCEPT ![j] = x]
         /\ GetUnique(elements_[p], j).value = v /\ GetUnique(elements_[p], j).how = "copy"
    BY <2>2, <2>3, <2>4, <2>5 DEF GetUnique
  <2>14. GetShared(elements_[p], j).ring = [elements_[p] EXCEPT ![j] = shared]
         /\ GetShared(elements_[p], j).value = v /\ GetShared(elements_[p], j).how = "shared"
    <3>1. (IF x.shared_value # None THEN x.shared_value ELSE x.unique_value) = v
      BY <2>4, <2>5
    <3>2. (IF x.shared_value # None THEN x.unique_value ELSE None) = None
      BY <2>4
    <3>3. GetShared(elements_[p], j).ring
          = [elements_[p] EXCEPT
               ![j].unique_value = IF x.shared_value # None THEN @ ELSE None,
               ![j].shared_value = v]
      BY <3>1 DEF GetShared
    <3>4. GetShared(elements_[p], j).ring = [elements_[p] EXCEPT ![j] = shared]
      <4> HIDE DEF v, j
      <4>1. [elements_[p] EXCEPT
               ![j].unique_value = IF elements_[p][j].shared_value # None THEN @ ELSE None,
               ![j].shared_value = v]
            = [elements_[p] EXCEPT ![j] = [elements_[p][j] EXCEPT !.unique_value = None,
                                                                  !.shared_value = v]]
        <5> DEFINE ring == elements_[p]
        <5> SUFFICES [ring EXCEPT ![j].unique_value = IF ring[j].shared_value # None THEN @ ELSE None,
                                  ![j].shared_value = v]
                     = [ring EXCEPT ![j] = [ring[j] EXCEPT !.unique_value = None,
                                                           !.shared_value = v]]
          OBVIOUS
        <5>1. ring \in [0 .. Size - 1 -> Slot] /\ j \in 0 .. Size - 1
              /\ None = IF ring[j].shared_value # None THEN ring[j].unique_value ELSE None
          BY <3>2, <2>2, <2>3
        <5> HIDE DEF ring
        <5> QED BY <5>1, SetShared
      <4> QED BY <4>1, <3>3
    <3> QED BY <3>1, <3>4 DEF GetShared
  <2> HIDE DEF x, v, vacant, shared, j, F
  <2>15. CASE taker[t].last
    <3>1. r.ring = [elements_[p] EXCEPT ![j] = vacant] /\ r.value = v
          /\ r.how \in {"moved", "shared", "copy"} /\ (r.how = "moved" => x.unique_value # None)
      BY <2>15, <2>11, <2>12, <2>4
    <3>2. elements_' = [elements_ EXCEPT ![p] = [@ EXCEPT ![j] = vacant]]
          /\ got' = [got EXCEPT ![s][v] = Append(@, r.how)]
      BY <2>6, <2>7, <3>1
    <3>3. r.how \in Ways
      BY <3>1 DEF Ways
    <3> QED
      BY <2>15, <2>2, <2>5, <2>8, <3>1, <3>2, <3>3 DEF x, v, FetchesFrom
  <2>16. CASE ~taker[t].last
    <3> DEFINE e == IF UseTakeShared(s) THEN shared ELSE x
    <3>1. r.ring = [elements_[p] EXCEPT ![j] = e] /\ r.value = v
          /\ r.how = IF UseTakeShared(s) THEN "shared" ELSE "copy"
      BY <2>16, <2>13, <2>14
    <3>2. elements_' = [elements_ EXCEPT ![p] = [@ EXCEPT ![j] = e]]
          /\ got' = [got EXCEPT ![s][v] = Append(@, r.how)]
      BY <2>6, <2>7, <3>1
    <3>3. r.how \in Ways /\ r.how \in {"moved", "shared", "copy"} /\ r.how # "moved"
      BY <3>1 DEF Ways
    <3>4. e \in Slot /\ e.in_use /\ e.key = q /\ Val(e) = v
          /\ (e.unique_value = None) # (e.shared_value = None)
          /\ (e.unique_value # None => r.how = "copy" /\ x.unique_value # None)
      BY <2>2, <2>3, <2>4, <2>8, <2>9, <3>1 DEF v
    <3> HIDE DEF e
    <3> QED
      BY <2>16, <2>2, <2>5, <3>2, <3>3, <3>4 DEF x, v, FetchesFrom
  <2> QED BY <2>15, <2>16
<1> QED BY <1>1, <1>4, <1>5, <1>6

LEMMA TypesStep ==
  ASSUME IInv, [Next]_vars
  PROVE  Types'
<1> USE DEF IInv, infoVars, pubVars, mwVars, histVars
<1> DEFINE TakerType == [pc: {"idle", "take", "fetch"}, sub: Subs \cup {None},
                         note: Notes \cup {None}, last: BOOLEAN]
<1>1. Idle \in TakerType /\ Idle.pc = "idle"
  BY DEF Idle
<1>2. ASSUME NEW s \in Subs, AddSubscription(s) \/ SetupIntraProcess(s)
      PROVE  Types'
  BY <1>2 DEF Types, AddSubscription, SetupIntraProcess
<1>3. ASSUME NEW s \in Subs, RemoveSubscription(s)
      PROVE  Types'
  <2>1. DOMAIN targets' = Pubs /\ \A p \in Pubs : DOMAIN targets'[p] = DOMAIN targets[p]
    BY <1>3 DEF RemoveSubscription
  <2>2. sub' \in [Subs -> {"none", "added", "ready", "gone"}]
        /\ inbox' \in [Subs -> SUBSET Notes] /\ copies' \in [Subs -> SUBSET Messages]
    BY <1>3 DEF Types, RemoveSubscription
  <2> QED BY <1>3, <2>1, <2>2 DEF Types, RemoveSubscription
<1>4. ASSUME NEW s \in Subs, Lose(s)
      PROVE  Types'
  BY <1>4 DEF Types, Lose
<1>5. ASSUME NEW s \in Subs, HandleMessage(s)
      PROVE  Types'
  <2> PICK m \in copies[s] : /\ copies' = [copies EXCEPT ![s] = @ \ {m}]
                             /\ got' = IF Matches(PubOf[m]) THEN got
                                       ELSE [got EXCEPT ![s][m] = Append(@, "inter")]
                             /\ UNCHANGED <<pub, sub, infoVars, runtime_mutex_, take_mutex_,
                                            pubVars, inbox, taker, took, displaced, undefined>>
    BY <1>5 DEF HandleMessage
  <2>1. m \in Messages /\ got[s][m] \in Seq(Ways) /\ got[s] \in [Messages -> Seq(Ways)]
    BY DEF Types
  <2>2. Append(got[s][m], "inter") \in Seq(Ways)
    BY <2>1, ToSetAppend DEF Ways
  <2>3. got' \in [Subs -> [Messages -> Seq(Ways)]]
    BY <2>1, <2>2 DEF Types
  <2>4. copies' \in [Subs -> SUBSET Messages]
    BY DEF Types
  <2> QED BY <2>3, <2>4 DEF Types
<1>6. ASSUME NEW p \in Pubs, CreatePublisher(p) \/ PublisherExpires(p) \/ RemovePublisher(p)
      PROVE  Types'
  BY <1>6 DEF Types, CreatePublisher, PublisherExpires, RemovePublisher
<1>7. ASSUME NEW m \in Messages, Publish(m)
      PROVE  Types'
  BY <1>7 DEF Types, Publish
<1>8. ASSUME NEW m \in Messages, GetPublisherInfo(m)
      PROVE  Types'
  <2>1. seq' \in [Messages -> Nat] /\ sequence_number' \in [Pubs -> Nat]
    BY <1>8 DEF Types, GetPublisherInfo
  <2> QED BY <1>8, <2>1 DEF Types, GetPublisherInfo
<1>9. ASSUME NEW m \in Messages, Push(m)
      PROVE  Types'
  <2> DEFINE p == PubOf[m]
             e == [key |-> seq[m], unique_value |-> IF needed[m] THEN None ELSE m,
                   shared_value |-> IF needed[m] THEN m ELSE None, in_use |-> TRUE]
  <2>1. e \in Slot /\ head_[p] \in 0 .. Size - 1 /\ p \in Pubs
    BY DEF Types, Slot
  <2>2. elements_' = [elements_ EXCEPT ![p] = [@ EXCEPT ![head_[p]] = e]]
    BY <1>9 DEF Push, PushAndReplace
  <2>3. elements_' \in [Pubs -> [0 .. Size - 1 -> Slot]]
    <3> HIDE DEF e
    <3> QED BY <2>1, <2>2 DEF Types
  <2>4. (head_[p] + 1) % Size \in 0 .. Size - 1
    BY <2>1
  <2>5. head_' \in [Pubs -> 0 .. Size - 1]
    BY <1>9, <2>4 DEF Push, Types
  <2>6. pc' \in [Messages -> {"new", "seq", "push", "targets", "notify", "inter", "done"}]
    BY <1>9 DEF Push, Types
  <2>7. UNCHANGED <<pub, sub, sequence_number, targets, seq, inbox, copies, taker, got>>
    BY <1>9 DEF Push
  <2> QED BY <2>3, <2>5, <2>6, <2>7 DEF Types
<1>10. ASSUME NEW m \in Messages, StoreTargets(m)
       PROVE  Types'
  <2>1. DOMAIN targets' = Pubs
    BY <1>10 DEF StoreTargets, Types
  <2>2. \A p \in Pubs : DOMAIN targets'[p] \subseteq DOMAIN targets[p] \cup {seq[m]}
    BY <1>10 DEF StoreTargets, Types
  <2>3. \A p \in Pubs : DOMAIN targets'[p] \subseteq Nat
    BY <2>2 DEF Types
  <2> QED BY <1>10, <2>1, <2>3 DEF Types, StoreTargets
<1>11. ASSUME NEW m \in Messages, IntraProcessPublish(m)
       PROVE  Types'
  <2>1. [pub |-> PubOf[m], seq |-> seq[m]] \in Notes
    BY DEF Types, Notes
  <2>2. inbox' \in [Subs -> SUBSET Notes]
    BY <1>11, <2>1 DEF IntraProcessPublish, Types
  <2>3. pc' \in [Messages -> {"new", "seq", "push", "targets", "notify", "inter", "done"}]
        /\ seq' \in [Messages -> Nat]
    <3>1. CASE needed[m]
      BY <3>1, <1>11 DEF IntraProcessPublish, Types
    <3>2. CASE ~needed[m]
      <4>1. Return(m)
        BY <3>2, <1>11 DEF IntraProcessPublish
      <4> QED BY <4>1 DEF Return, Types
    <3> QED BY <3>1, <3>2
  <2> QED BY <1>11, <2>2, <2>3 DEF Types, IntraProcessPublish
<1>12. ASSUME NEW m \in Messages, InterProcessPublish(m)
       PROVE  Types'
  <2>2. copies' \in [Subs -> SUBSET Messages]
    BY <1>12 DEF InterProcessPublish, Types
  <2>3. pc' \in [Messages -> {"new", "seq", "push", "targets", "notify", "inter", "done"}]
        /\ seq' \in [Messages -> Nat]
    BY <1>12 DEF InterProcessPublish, Return, Types
  <2> QED BY <1>12, <2>2, <2>3 DEF Types, InterProcessPublish
<1>13. ASSUME NEW c \in Callers, Enter(c)
       PROVE  Types'
  BY <1>13 DEF Types, Enter
<1>14. ASSUME NEW t \in Takers, TakeTarget(t)
       PROVE  Types'
  <2>1. DOMAIN targets' = Pubs /\ \A p \in Pubs : DOMAIN targets'[p] = DOMAIN targets[p]
    <3> DEFINE p0 == taker[t].note.pub
               q0 == taker[t].note.seq
    <3>1. DOMAIN targets = Pubs
      BY DEF Types
    <3>2. targets' = targets \/ (q0 \in DOMAIN targets[p0]
                                /\ targets' = [targets EXCEPT ![p0][q0] = @ \ {taker[t].sub}])
      BY <1>14 DEF TakeTarget
    <3> QED BY <3>1, <3>2
  <2>2. taker' \in [Takers -> TakerType]
        /\ \A u \in Takers : taker'[u].pc # "idle" => taker'[u].sub \in Subs /\ taker'[u].note \in Notes
    <3>1. taker[t] \in TakerType /\ taker \in [Takers -> TakerType]
      BY DEF Types
    <3>2. CASE taker' = [taker EXCEPT ![t] = Idle]
      BY <3>1, <3>2, <1>1 DEF Types
    <3>3. ASSUME NEW b \in BOOLEAN, taker' = [taker EXCEPT ![t].pc = "fetch", ![t].last = b],
                 taker[t].sub \in Subs, taker[t].note \in Notes
          PROVE  <2>2!1 /\ <2>2!2
      <4>1. taker' = [taker EXCEPT ![t] = [@ EXCEPT !.pc = "fetch", !.last = b]]
        BY <3>1, <3>3
      <4>2. [taker[t] EXCEPT !.pc = "fetch", !.last = b] \in TakerType
            /\ [taker[t] EXCEPT !.pc = "fetch", !.last = b].sub = taker[t].sub
            /\ [taker[t] EXCEPT !.pc = "fetch", !.last = b].note = taker[t].note
        BY <3>1
      <4> QED BY <4>1, <4>2, <3>1, <3>3 DEF Types
    <3>4. taker[t].sub \in Subs /\ taker[t].note \in Notes
      BY <1>14 DEF TakeTarget, Types, Locking
    <3> QED BY <1>14, <3>2, <3>3, <3>4 DEF TakeTarget
  <2> QED BY <1>14, <2>1, <2>2 DEF Types, TakeTarget
<1>15. ASSUME NEW t \in Takers, Fetch(t)
       PROVE  Types'
  <2> DEFINE s == taker[t].sub
             p == taker[t].note.pub
             q == taker[t].note.seq
  <2>1. s \in Subs /\ p \in Pubs /\ taker' = [taker EXCEPT ![t] = Idle]
    BY <1>15, FetchEffect
  <2>2. elements_' \in [Pubs -> [0 .. Size - 1 -> Slot]] /\ got' \in [Subs -> [Messages -> Seq(Ways)]]
    <3>1. CASE ~Stored(p, q)
      BY <3>1, <1>15, FetchEffect DEF Types
    <3>2. CASE Stored(p, q)
      <4>1. PICK i \in Used(p), how \in Ways, e \in Slot : FetchesFrom(t, i, how, e)
        BY <3>2, <1>15, FetchEffect
      <4>5. /\ Val(elements_[p][i]) \in Messages
            /\ elements_' = [elements_ EXCEPT ![p] = [@ EXCEPT ![i] = e]]
            /\ got' = [got EXCEPT ![s][Val(elements_[p][i])] = Append(@, how)]
        BY <4>1 DEF FetchesFrom
      <4> DEFINE v == Val(elements_[p][i])
      <4>2. got[s][v] \in Seq(Ways) /\ got[s] \in [Messages -> Seq(Ways)]
        <5>1. got \in [Subs -> [Messages -> Seq(Ways)]] /\ s \in Subs /\ v \in Messages
          BY <2>1, <4>5 DEF Types
        <5> HIDE DEF s, v
        <5> QED BY <5>1
      <4>3. Append(got[s][v], how) \in Seq(Ways)
        BY <4>2, ToSetAppend
      <4> HIDE DEF v
      <4>4. got' \in [Subs -> [Messages -> Seq(Ways)]]
        BY <2>1, <4>5, <4>2, <4>3 DEF Types, v
      <4>6. elements_' \in [Pubs -> [0 .. Size - 1 -> Slot]]
        BY <2>1, <4>5 DEF Types
      <4> QED BY <4>4, <4>6
    <3> QED BY <3>1, <3>2
  <2>3. taker' \in [Takers -> TakerType]
        /\ \A u \in Takers : taker'[u].pc # "idle" => taker'[u].sub \in Subs /\ taker'[u].note \in Notes
    BY <2>1, <1>1 DEF Types
  <2> QED BY <1>15, <2>2, <2>3 DEF Types, Fetch
<1>16. ASSUME NEW t \in Takers, NEW s \in Subs, HandleIntraProcessMessage(t, s)
       PROVE  Types'
  <2> PICK n \in inbox[s] :
         /\ taker[t].pc = "idle"
         /\ inbox' = [inbox EXCEPT ![s] = @ \ {n}]
         /\ taker' = IF Matches(n.pub)
                     THEN [taker EXCEPT ![t] = [pc |-> "take", sub |-> s, note |-> n, last |-> FALSE]]
                     ELSE taker
         /\ UNCHANGED <<pub, sub, infoVars, runtime_mutex_, take_mutex_, pubVars, copies, histVars,
                        undefined>>
    BY <1>16 DEF HandleIntraProcessMessage
  <2>1. n \in Notes
    BY DEF Types
  <2>2. [pc |-> "take", sub |-> s, note |-> n, last |-> FALSE] \in TakerType
    BY <2>1
  <2>3. taker' \in [Takers -> TakerType]
        /\ \A u \in Takers : taker'[u].pc # "idle" => taker'[u].sub \in Subs /\ taker'[u].note \in Notes
    BY <2>1, <2>2 DEF Types
  <2>4. inbox' \in [Subs -> SUBSET Notes]
    BY DEF Types
  <2> QED BY <2>3, <2>4 DEF Types
<1>17. CASE UNCHANGED vars
  BY <1>17 DEF Types, vars
<1> QED
  BY <1>2, <1>3, <1>4, <1>5, <1>6, <1>7, <1>8, <1>9, <1>10, <1>11, <1>12, <1>13, <1>14, <1>15,
     <1>16, <1>17 DEF Next

------------------------------------------------------------------------------
(* Locking.                                                                 *)

LEMMA LockingStep ==
  ASSUME IInv, [Next]_vars
  PROVE  Locking'
<1> USE DEF Locking, Fetching, infoVars, pubVars, mwVars, histVars
<1>0. Locking /\ \A m \in Messages, t \in Takers : m # t /\ m # None /\ t # None
  BY DEF IInv
<1>1. CASE UNCHANGED <<take_mutex_, runtime_mutex_, taker>>
  BY <1>0, <1>1
<1>2. ASSUME NEW m \in Messages, GetPublisherInfo(m) \/ StoreTargets(m)
      PROVE  Locking'
  <2>1. runtime_mutex_' = None /\ UNCHANGED <<take_mutex_, taker>>
    BY <1>2 DEF GetPublisherInfo, StoreTargets
  <2> QED BY <1>0, <2>1
<1>3. ASSUME NEW c \in Callers, Enter(c)
      PROVE  Locking'
  <2>1. runtime_mutex_' = c /\ UNCHANGED taker
    BY <1>3 DEF Enter
  <2>2. CASE c \in Messages /\ UNCHANGED take_mutex_
    BY <1>0, <2>1, <2>2
  <2>3. CASE c \in Takers /\ taker[c].pc = "take" /\ take_mutex_ = None /\ take_mutex_' = c
    BY <1>0, <2>1, <2>3
  <2> QED BY <1>3, <2>2, <2>3 DEF Enter
<1>4. ASSUME NEW t \in Takers, TakeTarget(t)
      PROVE  Locking'
  <2>1. take_mutex_ = t /\ runtime_mutex_' = None /\ \A u \in Takers \ {t} : ~Fetching(u)
    BY <1>0, <1>4 DEF TakeTarget
  <2>2. \A u \in Takers \ {t} : taker'[u] = taker[u]
    BY <1>4 DEF TakeTarget, IInv, Types
  <2>3. take_mutex_' = t \/ taker'[t].pc # "fetch"
    BY <1>4, <2>1 DEF TakeTarget, IInv, Types, Idle
  <2> QED BY <1>0, <2>1, <2>2, <2>3
<1>5. ASSUME NEW t \in Takers, Fetch(t)
      PROVE  Locking'
  <2>1. take_mutex_ = t /\ taker' = [taker EXCEPT ![t] = Idle] /\ UNCHANGED runtime_mutex_
    BY <1>5, FetchEffect DEF Fetch
  <2>2. \A u \in Takers : runtime_mutex_ # u
    BY <1>0, <1>5, <2>1 DEF Fetch
  <2>3. \A u \in Takers : taker'[u].pc # "fetch"
    BY <1>0, <2>1 DEF IInv, Types, Idle
  <2> QED BY <2>1, <2>2, <2>3
<1>6. ASSUME NEW t \in Takers, NEW s \in Subs, HandleIntraProcessMessage(t, s)
      PROVE  Locking'
  <2>1. taker[t].pc = "idle" /\ UNCHANGED <<take_mutex_, runtime_mutex_>>
    BY <1>6 DEF HandleIntraProcessMessage
  <2>2. taker'[t].pc \in {"idle", "take"} /\ \A u \in Takers \ {t} : taker'[u] = taker[u]
    BY <1>6 DEF HandleIntraProcessMessage, IInv, Types
  <2> QED BY <1>0, <2>1, <2>2
<1>7. ASSUME NEW s \in Subs,
             AddSubscription(s) \/ SetupIntraProcess(s) \/ RemoveSubscription(s) \/ Lose(s)
             \/ HandleMessage(s)
      PROVE  Locking'
  <2>1. UNCHANGED <<take_mutex_, runtime_mutex_, taker>>
    BY <1>7 DEF AddSubscription, SetupIntraProcess, RemoveSubscription, Lose, HandleMessage
  <2> QED BY <1>1, <2>1
<1>8. ASSUME NEW p \in Pubs, CreatePublisher(p) \/ PublisherExpires(p) \/ RemovePublisher(p)
      PROVE  Locking'
  <2>1. UNCHANGED <<take_mutex_, runtime_mutex_, taker>>
    BY <1>8 DEF CreatePublisher, PublisherExpires, RemovePublisher
  <2> QED BY <1>1, <2>1
<1>9. ASSUME NEW m \in Messages,
             Publish(m) \/ Push(m) \/ IntraProcessPublish(m) \/ InterProcessPublish(m)
      PROVE  Locking'
  <2>1. UNCHANGED <<take_mutex_, runtime_mutex_, taker>>
    BY <1>9 DEF Publish, Push, IntraProcessPublish, InterProcessPublish
  <2> QED BY <1>1, <2>1
<1>10. CASE UNCHANGED vars
  BY <1>1, <1>10 DEF vars
<1> QED
  BY <1>2, <1>3, <1>4, <1>5, <1>6, <1>7, <1>8, <1>9, <1>10 DEF Next

------------------------------------------------------------------------------
(* Steps that move no message.                                              *)

\* The part of the invariant that such a step preserves, with Types and Locking
\* known to hold after every step.
Rest == Numbering /\ Ringing /\ Having /\ AtMostOnce /\ Owning /\ Fetched /\ Keeping /\ Freeing

\* The rings, the targets and what was given to whom stay as they are, publishers
\* and publishes only go forward, and no taker starts or ends to fetch.
Quiet ==
  /\ UNCHANGED <<sequence_number, elements_, targets, got, took, displaced>>
  /\ \A p \in Pubs :
       /\ pub'[p] = "none" => pub[p] = "none"
       /\ pub'[p] = "alive" => pub[p] \in {"none", "alive"}
  /\ \A m \in Messages :
       \/ pc'[m] = pc[m] /\ seq'[m] = seq[m]
       \/ pc[m] = "new" /\ pc'[m] = "seq" /\ pub[PubOf[m]] # "none"
       \/ pc[m] = "notify" /\ pc'[m] = "inter" /\ seq'[m] = seq[m]
       \/ pc[m] \in {"notify", "inter"} /\ pc'[m] = "done"
  /\ \A t \in Takers :
       /\ Fetching(t)' <=> Fetching(t)
       /\ Fetching(t) => taker'[t] = taker[t]
  /\ NobodyGone' => NobodyGone
  /\ \A s \in Subs, m \in Messages : m \in copies'[s] => m \in copies[s] \/ pc'[m] = "done"

LEMMA QuietStep ==
  ASSUME IInv, Quiet
  PROVE  Rest'
<1>1. /\ UNCHANGED <<elements_, targets, got, took, displaced, sequence_number>>
      /\ \A p : Used(p)' = Used(p) /\ \A q : Stored(p, q)' <=> Stored(p, q)
      /\ \A m \in Messages : pc'[m] \in Active => pc[m] \in Active /\ seq'[m] = seq[m]
      /\ \A m \in Messages : pc'[m] \in {"push", "targets"} => pc'[m] = pc[m] /\ seq'[m] = seq[m]
      /\ \A m \in Messages : pc'[m] \in {"new", "seq", "push", "targets"} =>
           pc'[m] = pc[m] \/ (pc[m] = "new" /\ pc'[m] = "seq")
      /\ \A m \in Messages : pc[m] = "done" => pc'[m] = "done"
      /\ \A m \in Messages : pc[m] \notin {"new", "seq", "push"} =>
           pc'[m] \notin {"new", "seq", "push"}
      /\ \A m \in Messages : pc[m] \notin {"new", "seq", "push", "targets"} =>
           pc'[m] \notin {"new", "seq", "push", "targets"}
  BY DEF Quiet, Used, Stored, Active
<1>2. \A p \in Pubs : \A i \in Used(p) :
        Val(elements_[p][i]) \in Messages /\ PubOf[Val(elements_[p][i])] = p
  <2> TAKE p \in Pubs
  <2> TAKE i \in Used(p)
  <2>1. i \in 0 .. Size - 1
    BY DEF Used
  <2>2. elements_[p][i] \in Slot
    BY <2>1 DEF IInv, Types
  <2>3. (elements_[p][i].unique_value = None) # (elements_[p][i].shared_value = None)
    BY <2>1 DEF IInv, Ringing, Used
  <2> QED BY <2>2, <2>3 DEF Slot, Val, IInv, Ringing
<1>3. Numbering'
  BY <1>1 DEF IInv, Numbering, Quiet
<1>4. Ringing'
  BY <1>1, <1>2 DEF IInv, Ringing
<1>5. \A p \in Pubs : \A i \in Used(p) : pub'[p] = "alive" => pub[p] = "alive"
  BY <1>2 DEF IInv, Numbering, Ringing, Quiet
<1>6. Having'
  <2>1. Having!1'
    BY <1>1 DEF IInv, Having
  <2>2. \A t \in Takers : \A s, p, q : Fetches(t, s, p, q)' <=> Fetches(t, s, p, q)
    BY DEF Quiet, Fetches, Fetching
  <2> QED BY <2>1, <2>2, <1>1, <1>5 DEF IInv, Having
<1>7. AtMostOnce'
  <2> SUFFICES ASSUME NEW s \in Subs, NEW m \in Messages, pub'[PubOf[m]] = "alive"
               PROVE  Len(got[s][m]) <= 1
    BY <1>1 DEF AtMostOnce
  <2>1. CASE got[s][m] = <<>>
    BY <2>1, ToSetEmpty
  <2>2. CASE got[s][m] # <<>>
    <3>1. pub[PubOf[m]] # "none"
      BY <2>2 DEF IInv, Having, Numbering
    <3>2. pub[PubOf[m]] = "alive"
      BY <3>1 DEF Quiet
    <3> QED BY <3>2 DEF IInv, AtMostOnce
  <2> QED BY <2>1, <2>2
<1>8. Owning'
  BY <1>1 DEF IInv, Owning
<1>9. Fetched'
  BY <1>1 DEF IInv, Fetched, Quiet
<1>10. Keeping'
  <2>1. \A t \in Takers : Fetching(t)' => Fetching(t) /\ taker'[t] = taker[t]
    BY DEF Quiet
  <2> QED BY <1>1, <2>1 DEF IInv, Keeping
<1>11. Freeing'
  <2>1. \A t \in Takers : Fetching(t) => Fetching(t)' /\ taker'[t] = taker[t]
    BY DEF Quiet
  <2>2. NobodyGone' => NobodyGone
    BY DEF Quiet
  <2> QED BY <1>1, <2>1, <2>2 DEF IInv, Freeing
<1> QED BY <1>3, <1>4, <1>6, <1>7, <1>8, <1>9, <1>10, <1>11 DEF Rest

LEMMA QuietSubscriptions ==
  ASSUME IInv, NEW s \in Subs, AddSubscription(s) \/ SetupIntraProcess(s) \/ Lose(s)
  PROVE  Quiet
<1>1. UNCHANGED <<pub, sequence_number, elements_, targets, got, took, displaced, pc, seq, taker>>
  BY DEF AddSubscription, SetupIntraProcess, Lose, infoVars, pubVars, histVars, mwVars
<1>2. UNCHANGED copies
  BY DEF AddSubscription, SetupIntraProcess, Lose, mwVars
<1>3. NobodyGone' => NobodyGone
  <2>1. \A u \in Subs : sub'[u] = sub[u] \/ sub[u] # "gone"
    BY DEF AddSubscription, SetupIntraProcess, Lose, IInv, Types
  <2> QED BY <2>1 DEF NobodyGone
<1> QED BY <1>1, <1>2, <1>3 DEF Quiet, Fetching

LEMMA QuietPublishers ==
  ASSUME IInv, NEW p \in Pubs, CreatePublisher(p) \/ PublisherExpires(p) \/ RemovePublisher(p)
  PROVE  Quiet
<1>1. UNCHANGED <<sub, sequence_number, elements_, targets, got, took, displaced, pc, seq, taker,
                  copies>>
  BY DEF CreatePublisher, PublisherExpires, RemovePublisher, infoVars, pubVars, histVars, mwVars
<1>2. \A o \in Pubs : /\ pub'[o] = "none" => pub[o] = "none"
                      /\ pub'[o] = "alive" => pub[o] \in {"none", "alive"}
  BY DEF CreatePublisher, PublisherExpires, RemovePublisher, IInv, Types
<1> QED BY <1>1, <1>2 DEF Quiet, Fetching, NobodyGone

LEMMA QuietPublish ==
  ASSUME IInv, NEW m \in Messages, Publish(m) \/ IntraProcessPublish(m) \/ InterProcessPublish(m)
  PROVE  Quiet
<1>1. UNCHANGED <<pub, sub, sequence_number, elements_, targets, got, took, displaced, taker>>
  BY DEF Publish, IntraProcessPublish, InterProcessPublish, infoVars, histVars
<1>2. \A n \in Messages \ {m} : pc'[n] = pc[n] /\ seq'[n] = seq[n]
  BY DEF Publish, IntraProcessPublish, InterProcessPublish, Return, IInv, Types
<1>3. \/ pc[m] = "new" /\ pc'[m] = "seq" /\ pub[PubOf[m]] # "none"
      \/ pc[m] = "notify" /\ pc'[m] = "inter" /\ seq'[m] = seq[m]
      \/ pc[m] \in {"notify", "inter"} /\ pc'[m] = "done"
  <2>1. CASE Publish(m)
    BY <2>1 DEF Publish, IInv, Types
  <2>2. CASE InterProcessPublish(m)
    BY <2>2 DEF InterProcessPublish, Return, IInv, Types
  <2>3. CASE IntraProcessPublish(m) /\ needed[m]
    BY <2>3 DEF IntraProcessPublish, IInv, Types
  <2>4. CASE IntraProcessPublish(m) /\ ~needed[m]
    <3>1. Return(m) /\ pc[m] = "notify"
      BY <2>4 DEF IntraProcessPublish
    <3> QED BY <3>1 DEF Return, IInv, Types
  <2> QED BY <2>1, <2>2, <2>3, <2>4
<1>4. \A s \in Subs, n \in Messages : n \in copies'[s] => n \in copies[s] \/ pc'[n] = "done"
  <2>1. CASE Publish(m) \/ IntraProcessPublish(m)
    BY <2>1 DEF Publish, IntraProcessPublish, mwVars
  <2>2. CASE InterProcessPublish(m)
    <3>1. \A s \in Subs : copies'[s] \subseteq copies[s] \cup {m}
      BY <2>2 DEF InterProcessPublish
    <3>2. pc'[m] = "done"
      BY <2>2 DEF InterProcessPublish, Return, IInv, Types
    <3> QED BY <3>1, <3>2
  <2> QED BY <2>1, <2>2
<1> QED
  <2>1. \A n \in Messages :
       \/ pc'[n] = pc[n] /\ seq'[n] = seq[n]
       \/ pc[n] = "new" /\ pc'[n] = "seq" /\ pub[PubOf[n]] # "none"
       \/ pc[n] = "notify" /\ pc'[n] = "inter" /\ seq'[n] = seq[n]
       \/ pc[n] \in {"notify", "inter"} /\ pc'[n] = "done"
    BY <1>2, <1>3
  <2> QED BY <1>1, <1>4, <2>1 DEF Quiet, Fetching, NobodyGone

LEMMA QuietReceiving ==
  ASSUME IInv, \/ \E c \in Callers : Enter(c)
               \/ \E t \in Takers, s \in Subs : HandleIntraProcessMessage(t, s)
               \/ UNCHANGED vars
  PROVE  Quiet
<1>1. UNCHANGED <<pub, sub, sequence_number, elements_, targets, got, took, displaced, pc, seq,
                  copies>>
  BY DEF Enter, HandleIntraProcessMessage, vars, infoVars, pubVars, histVars, mwVars
<1>2. \A t \in Takers : taker'[t] = taker[t] \/ (~Fetching(t) /\ ~Fetching(t)')
  <2>1. CASE UNCHANGED taker
    BY <2>1
  <2>2. ASSUME NEW t \in Takers, NEW s \in Subs, HandleIntraProcessMessage(t, s)
        PROVE  <1>2
    BY <2>2 DEF HandleIntraProcessMessage, Fetching, IInv, Types
  <2> QED BY <2>1, <2>2 DEF Enter, vars
<1> QED BY <1>1, <1>2 DEF Quiet, Fetching, NobodyGone

------------------------------------------------------------------------------
(* The steps that number and store a message.                               *)

\* The number of a message is new.
LEMMA GetPublisherInfoStep ==
  ASSUME IInv, NEW m \in Messages, GetPublisherInfo(m)
  PROVE  Rest'
<1> DEFINE p == PubOf[m]
<1>1. /\ UNCHANGED <<pub, sub, elements_, targets, got, took, displaced, taker, copies>>
      /\ pc[m] = "seq" /\ pc'[m] = "push" /\ seq'[m] = sequence_number[p] /\ p \in Pubs
      /\ sequence_number' = [sequence_number EXCEPT ![p] = @ + 1]
      /\ \A n \in Messages \ {m} : pc'[n] = pc[n] /\ seq'[n] = seq[n]
  BY DEF GetPublisherInfo, infoVars, pubVars, histVars, mwVars, IInv, Types
<1>2. /\ \A o : Used(o)' = Used(o) /\ \A q : Stored(o, q)' <=> Stored(o, q)
      /\ \A o \in Pubs : sequence_number[o] \in Nat /\ sequence_number'[o] \in Nat
                         /\ sequence_number[o] <= sequence_number'[o]
      /\ sequence_number[p] < sequence_number'[p]
      /\ \A n \in Messages : seq[n] \in Nat
  BY <1>1 DEF Used, Stored, IInv, Types
<1>3. Numbering'
  <2>1. \A n \in Messages : pc'[n] \in Active => seq'[n] < sequence_number'[PubOf[n]]
    <3> TAKE n \in Messages
    <3>1. CASE n = m
      BY <3>1, <1>1, <1>2
    <3>2. CASE n # m
      <4>1. pc[n] \in Active => seq[n] < sequence_number[PubOf[n]]
        BY DEF IInv, Numbering
      <4> QED BY <3>2, <4>1, <1>1, <1>2
    <3> QED BY <3>1, <3>2
  <2>2. \A n \in Messages : pc'[n] \in {"push", "targets"} => seq'[n] \notin DOMAIN targets'[PubOf[n]]
    <3>1. \A q \in DOMAIN targets[p] : q < sequence_number[p] /\ q \in Nat
      BY <1>1 DEF IInv, Numbering, Types
    <3>2. sequence_number[p] \notin DOMAIN targets[p]
      BY <3>1
    <3> QED BY <3>2, <1>1 DEF IInv, Numbering
  <2>3. \A n \in Messages : /\ pc'[n] # "new" => pub'[PubOf[n]] # "none"
                            /\ \A s \in Subs : n \in copies'[s] => pc'[n] = "done"
    BY <1>1 DEF IInv, Numbering
  <2>4. \A n, o \in Messages :
         PubOf[n] = PubOf[o] /\ pc'[n] \in Active /\ pc'[o] \in Active /\ seq'[n] = seq'[o] => n = o
    <3>1. \A n \in Messages \ {m} : PubOf[n] = p /\ pc[n] \in Active => seq[n] # sequence_number[p]
      BY <1>2 DEF IInv, Numbering
    <3>2. \A n, o \in Messages :
         PubOf[n] = PubOf[o] /\ pc[n] \in Active /\ pc[o] \in Active /\ seq[n] = seq[o] => n = o
      BY DEF IInv, Numbering
    <3> QED BY <3>1, <3>2, <1>1
  <2>5. \A o \in Pubs : \A q \in DOMAIN targets'[o] : q < sequence_number'[o]
    <3>1. \A o \in Pubs : \A q \in DOMAIN targets[o] : q < sequence_number[o] /\ q \in Nat
      BY DEF IInv, Numbering, Types
    <3> QED BY <3>1, <1>1, <1>2
  <2> QED BY <2>1, <2>2, <2>3, <2>4, <2>5 DEF Numbering
<1>4. Ringing'
  <2> SUFFICES ASSUME NEW o \in Pubs
               PROVE  Ringing!(o)'
    BY DEF Ringing
  <2>1. Ringing!(o)!1'
    BY <1>1 DEF IInv, Ringing
  <2>2. ASSUME NEW i \in Used(o)
        PROVE  /\ PubOf[Val(elements_[o][i])] = o /\ elements_[o][i].key < sequence_number'[o]
               /\ pc'[Val(elements_[o][i])] \notin {"new", "seq", "push"}
               /\ pc'[Val(elements_[o][i])] \in Active =>
                    elements_[o][i].key = seq'[Val(elements_[o][i])]
               /\ \A n \in Messages :
                    PubOf[n] = o /\ pc'[n] \in Active /\ elements_[o][i].key = seq'[n] =>
                      Val(elements_[o][i]) = n
    <3> DEFINE v == Val(elements_[o][i])
               k == elements_[o][i].key
    <3>1. /\ PubOf[v] = o /\ k < sequence_number[o] /\ pc[v] \notin {"new", "seq", "push"}
          /\ pc[v] \in Active => k = seq[v]
          /\ \A n \in Messages : PubOf[n] = o /\ pc[n] \in Active /\ k = seq[n] => v = n
      BY DEF IInv, Ringing
    <3>2. k \in Nat /\ v \in Messages
      <4>1. i \in 0 .. Size - 1
        BY DEF Used
      <4>2. elements_[o][i] \in Slot
        BY <4>1 DEF IInv, Types
      <4>3. (elements_[o][i].unique_value = None) # (elements_[o][i].shared_value = None)
        BY <4>1 DEF IInv, Ringing, Used
      <4> QED BY <4>2, <4>3 DEF Slot, Val
    <3>3. v # m /\ k < sequence_number'[o]
      BY <3>1, <3>2, <1>1, <1>2
    <3>4. \A n \in Messages : PubOf[n] = o /\ pc'[n] \in Active /\ k = seq'[n] => v = n
      <4>1. o = p => k # sequence_number[p]
        BY <3>1, <3>2, <1>2
      <4> HIDE DEF v, k
      <4> QED BY <4>1, <3>1, <1>1
    <3> QED BY <3>1, <3>2, <3>3, <3>4, <1>1
  <2>3. Ringing!(o)!3'
    BY <1>1, <1>2 DEF IInv, Ringing
  <2> QED BY <1>1, <1>2, <2>1, <2>2, <2>3
<1>5. /\ \A t \in Takers : (Fetching(t)' <=> Fetching(t)) /\ taker'[t] = taker[t]
      /\ \A t \in Takers : \A u, o, q : Fetches(t, u, o, q)' <=> Fetches(t, u, o, q)
      /\ NobodyGone' <=> NobodyGone
  BY <1>1 DEF Fetches, Fetching, NobodyGone
<1>6. Having'
  <2>1. Having!1'
    BY <1>1 DEF IInv, Having
  <2> QED BY <2>1, <1>1, <1>2, <1>5 DEF IInv, Having
<1>7. AtMostOnce' /\ Owning' /\ Fetched'
  BY <1>1, <1>2, <1>5 DEF IInv, AtMostOnce, Owning, Fetched
<1>8. Keeping'
  <2>1. Keeping!1' /\ Keeping!3' /\ Keeping!4'
    BY <1>1, <1>2, <1>5 DEF IInv, Keeping
  <2>2. \A n \in Messages : pc'[n] = "targets" => pc[n] = "targets" /\ seq'[n] = seq[n]
    BY <1>1
  <2>3. Keeping!2'
    BY <2>2, <1>1, <1>2 DEF IInv, Keeping
  <2> QED BY <2>1, <2>3 DEF Keeping
<1>9. Freeing'
  BY <1>1, <1>2, <1>5 DEF IInv, Freeing
<1> QED BY <1>3, <1>4, <1>6, <1>7, <1>8, <1>9 DEF Rest

\* An element in use holds a message of its publisher.
LEMMA InRing ==
  ASSUME IInv, NEW p \in Pubs, NEW i \in Used(p)
  PROVE  /\ i \in 0 .. Size - 1 /\ elements_[p][i] \in Slot /\ elements_[p][i].key \in Nat
         /\ Val(elements_[p][i]) \in Messages /\ PubOf[Val(elements_[p][i])] = p
<1>1. i \in 0 .. Size - 1
  BY DEF Used
<1>2. elements_[p][i] \in Slot
  BY <1>1 DEF IInv, Types
<1>3. (elements_[p][i].unique_value = None) # (elements_[p][i].shared_value = None)
  BY <1>1 DEF IInv, Ringing, Used
<1>4. Val(elements_[p][i]) \in Messages
  BY <1>2, <1>3 DEF Slot, Val
<1> QED BY <1>1, <1>2, <1>4 DEF Slot, IInv, Ringing

\* The message is in the ring, and what it displaces is known to be displaced.
LEMMA PushStep ==
  ASSUME IInv, NEW m \in Messages, Push(m)
  PROVE  Rest'
<1> DEFINE p == PubOf[m]
           h == head_[p]
           k == seq[m]
           e == [key |-> seq[m], unique_value |-> IF needed[m] THEN None ELSE m,
                 shared_value |-> IF needed[m] THEN m ELSE None, in_use |-> TRUE]
<1>1. /\ UNCHANGED <<pub, sub, sequence_number, targets, seq, copies, taker, got, took>>
      /\ pc[m] = "push" /\ pc'[m] = "targets" /\ \A n \in Messages \ {m} : pc'[n] = pc[n]
      /\ p \in Pubs /\ h \in 0 .. Size - 1 /\ k \in Nat
  BY DEF Push, mwVars, IInv, Types
<1>2. e \in Slot /\ e.key = k /\ e.in_use /\ (e.unique_value = None) # (e.shared_value = None)
      /\ Val(e) = m
  <2>1. m # None
    OBVIOUS
  <2> QED BY <1>1, <2>1 DEF Slot, Val
<1>3. elements_' = [elements_ EXCEPT ![p] = [@ EXCEPT ![h] = e]]
  BY DEF Push, PushAndReplace
<1>4. /\ displaced \subseteq displaced'
      /\ elements_[p][h].in_use => [pub |-> p, seq |-> elements_[p][h].key] \in displaced'
  BY DEF Push
<1> HIDE DEF e
<1>5. /\ elements_'[p][h] = e
      /\ \A i \in 0 .. Size - 1 : i # h => elements_'[p][i] = elements_[p][i]
      /\ \A o \in Pubs : o # p => elements_'[o] = elements_[o]
  <2>1. elements_ \in [Pubs -> [0 .. Size - 1 -> Slot]]
    BY DEF IInv, Types
  <2> QED BY <1>1, <1>3, <2>1
<1>6. /\ \A o \in Pubs : o # p => Used(o)' = Used(o)
      /\ Used(p)' = Used(p) \cup {h}
      /\ \A i \in Used(p) : i # h => elements_'[p][i] = elements_[p][i]
  BY <1>1, <1>2, <1>5 DEF Used
<1>7. \A i \in Used(p) : elements_[p][i].key # k /\ Val(elements_[p][i]) # m
  BY <1>1 DEF IInv, Ringing, Active
<1>8. Stored(p, k)'
  <2>1. h \in Used(p)' /\ elements_'[p][h].key = k /\ seq'[m] = k
    BY <1>1, <1>2, <1>5, <1>6
  <2> QED BY <2>1 DEF Stored
<1>9. \A o \in Pubs : \A q : Stored(o, q) => Stored(o, q)' \/ [pub |-> o, seq |-> q] \in displaced'
  <2> SUFFICES ASSUME NEW o \in Pubs, NEW q, NEW i \in Used(o), elements_[o][i].key = q
               PROVE  Stored(o, q)' \/ [pub |-> o, seq |-> q] \in displaced'
    BY DEF Stored
  <2>1. CASE o = p /\ i = h
    BY <2>1, <1>4 DEF Used
  <2>2. CASE ~(o = p /\ i = h)
    BY <2>2, <1>5, <1>6 DEF Stored
  <2> QED BY <2>1, <2>2
<1>10. \A o \in Pubs : \A q : Stored(o, q)' => Stored(o, q) \/ (o = p /\ q = k)
  <2> SUFFICES ASSUME NEW o \in Pubs, NEW q, NEW i \in Used(o)', elements_'[o][i].key = q
               PROVE  Stored(o, q) \/ (o = p /\ q = k)
    BY DEF Stored
  <2>1. CASE o = p /\ i = h
    BY <2>1, <1>2, <1>5
  <2>2. CASE ~(o = p /\ i = h)
    <3>1. i \in Used(o) /\ elements_'[o][i] = elements_[o][i]
      BY <2>2, <1>5, <1>6
    <3> QED BY <3>1 DEF Stored
  <2> QED BY <2>1, <2>2
<1>11. k \notin DOMAIN targets[p] /\ k < sequence_number[p]
  BY <1>1 DEF IInv, Numbering, Active
<1>12. \A s \in Subs : got[s][m] = <<>>
  BY <1>1 DEF IInv, Having
<1>13. \A n \in Messages : pc'[n] \in Active <=> pc[n] \in Active
  BY <1>1 DEF Active
<1> HIDE DEF p, h, k
<1>14. Numbering'
  <2>1. \A n \in Messages : /\ pc'[n] \in {"push", "targets"} => pc[n] \in {"push", "targets"}
                            /\ pc'[n] # "new" => pc[n] # "new"
                            /\ pc[n] = "done" => pc'[n] = "done"
    BY <1>1
  <2> QED BY <1>1, <1>13, <2>1 DEF IInv, Numbering
<1>15. Ringing'
  <2> SUFFICES ASSUME NEW o \in Pubs
               PROVE  Ringing!(o)'
    BY DEF Ringing
  <2>1. Ringing!(o)!1'
    <3>1. CASE o # p
      BY <3>1, <1>5 DEF IInv, Ringing
    <3>2. CASE o = p
      BY <3>2, <1>2, <1>5 DEF IInv, Ringing
    <3> QED BY <3>1, <3>2
  <2>2. ASSUME NEW i \in Used(o)'
        PROVE  /\ PubOf[Val(elements_'[o][i])] = o /\ elements_'[o][i].key < sequence_number[o]
               /\ pc'[Val(elements_'[o][i])] \notin {"new", "seq", "push"}
               /\ pc'[Val(elements_'[o][i])] \in Active =>
                    elements_'[o][i].key = seq[Val(elements_'[o][i])]
               /\ \A n \in Messages :
                    PubOf[n] = o /\ pc'[n] \in Active /\ elements_'[o][i].key = seq[n] =>
                      Val(elements_'[o][i]) = n
    <3>1. CASE o = p /\ i = h
      <4>1. elements_'[o][i] = e /\ Val(e) = m /\ e.key = k
        BY <3>1, <1>2, <1>5
      <4>2. \A n \in Messages : PubOf[n] = p /\ pc[n] \in Active /\ k = seq[n] => m = n
        BY <1>1 DEF IInv, Numbering, Active, p, k
      <4>3. PubOf[m] = p /\ k = seq[m]
        BY DEF p, k
      <4> QED BY <4>1, <4>2, <4>3, <3>1, <1>1, <1>11, <1>13
    <3>2. CASE ~(o = p /\ i = h)
      <4>1. i \in Used(o) /\ elements_'[o][i] = elements_[o][i]
        BY <3>2, <1>5, <1>6
      <4> DEFINE x == elements_[o][i]
      <4>2. /\ PubOf[Val(x)] = o /\ x.key < sequence_number[o]
            /\ pc[Val(x)] \notin {"new", "seq", "push"}
            /\ pc[Val(x)] \in Active => x.key = seq[Val(x)]
            /\ \A n \in Messages : PubOf[n] = o /\ pc[n] \in Active /\ x.key = seq[n] => Val(x) = n
        BY <4>1 DEF IInv, Ringing
      <4>3. Val(x) \in Messages
        BY <4>1, InRing
      <4>4. Val(x) # m
        BY <4>2, <1>1
      <4> HIDE DEF x
      <4>5. pc'[Val(x)] = pc[Val(x)]
        BY <4>3, <4>4, <1>1
      <4> QED BY <4>1, <4>2, <4>3, <4>5, <1>13 DEF x
    <3> QED BY <3>1, <3>2
  <2>3. ASSUME NEW i \in Used(o)', NEW j \in Used(o)',
               \/ elements_'[o][i].key = elements_'[o][j].key
               \/ Val(elements_'[o][i]) = Val(elements_'[o][j])
        PROVE  i = j
    <3>1. CASE o # p
      BY <3>1, <2>3, <1>5, <1>6 DEF IInv, Ringing
    <3>2. CASE o = p /\ i # h /\ j # h
      <4>1. /\ i \in Used(o) /\ j \in Used(o) /\ elements_'[o][i] = elements_[o][i]
            /\ elements_'[o][j] = elements_[o][j]
        BY <3>2, <1>6
      <4> QED BY <4>1, <2>3 DEF IInv, Ringing
    <3>3. CASE o = p /\ i # h /\ j = h
      BY <3>3, <2>3, <1>2, <1>5, <1>6, <1>7
    <3>4. CASE o = p /\ i = h /\ j # h
      BY <3>4, <2>3, <1>2, <1>5, <1>6, <1>7
    <3> QED BY <3>1, <3>2, <3>3, <3>4
  <2> QED BY <1>1, <2>1, <2>2, <2>3
<1>16. Having'
  <2>1. Having!1'
    BY <1>1, <1>12 DEF IInv, Having
  <2>2. ASSUME NEW o \in Pubs, pub[o] = "alive", NEW i \in Used(o)', NEW s \in Subs,
               got[s][Val(elements_'[o][i])] # <<>>
        PROVE  i \in Used(o) /\ elements_'[o][i] = elements_[o][i]
    <3>1. CASE o = p /\ i = h
      BY <3>1, <2>2, <1>2, <1>5, <1>12
    <3>2. CASE ~(o = p /\ i = h)
      BY <3>2, <1>5, <1>6
    <3> QED BY <3>1, <3>2
  <2>3. \A t \in Takers : \A s, o, q : Fetches(t, s, o, q)' <=> Fetches(t, s, o, q)
    BY <1>1 DEF Fetches, Fetching
  <2> QED BY <2>1, <2>2, <2>3, <1>1 DEF IInv, Having
<1>17. AtMostOnce' /\ Fetched'
  BY <1>1 DEF IInv, AtMostOnce, Fetched, Fetching, NobodyGone
<1>18. Owning'
  <2>1. ASSUME NEW o \in Pubs, NEW i \in Used(o)', NEW s \in Subs
        PROVE  /\ "moved" \notin ToSet(got[s][Val(elements_'[o][i])])
               /\ elements_'[o][i].unique_value # None =>
                    "shared" \notin ToSet(got[s][Val(elements_'[o][i])])
    <3>1. CASE o = p /\ i = h
      BY <3>1, <1>2, <1>5, <1>12, ToSetEmpty
    <3>2. CASE ~(o = p /\ i = h)
      <4>1. i \in Used(o) /\ elements_'[o][i] = elements_[o][i]
        BY <3>2, <1>5, <1>6
      <4> QED BY <4>1 DEF IInv, Owning
    <3> QED BY <3>1, <3>2
  <2> QED BY <2>1, <1>1 DEF IInv, Owning
<1>19. Keeping'
  <2>1. Keeping!1'
    BY <1>1, <1>4, <1>9 DEF IInv, Keeping
  <2>2. ASSUME NEW n \in Messages, pc'[n] = "targets"
        PROVE  Stored(PubOf[n], seq[n])' \/ [pub |-> PubOf[n], seq |-> seq[n]] \in displaced'
    <3>1. CASE n = m
      BY <3>1, <1>8, <1>1 DEF p, k
    <3>2. CASE n # m
      <4>1. Stored(PubOf[n], seq[n]) \/ [pub |-> PubOf[n], seq |-> seq[n]] \in displaced
        BY <3>2, <2>2, <1>1 DEF IInv, Keeping
      <4>2. PubOf[n] \in Pubs
        OBVIOUS
      <4> QED BY <4>1, <4>2, <1>1, <1>4, <1>9
    <3> QED BY <3>1, <3>2
  <2>3. ASSUME NEW t \in Takers, Fetching(t)
        PROVE  (Stored(taker[t].note.pub, taker[t].note.seq) \/ taker[t].note \in displaced)'
    <3>1. taker[t].note \in Notes
      BY <2>3 DEF IInv, Types, Fetching
    <3>3. Stored(taker[t].note.pub, taker[t].note.seq) \/ taker[t].note \in displaced
      BY <2>3 DEF IInv, Keeping
    <3> PICK o \in Pubs, q \in Nat : taker[t].note = [pub |-> o, seq |-> q]
      BY <3>1 DEF Notes
    <3>4. Stored(o, q) \/ taker[t].note \in displaced
      BY <3>3
    <3>5. Stored(o, q)' \/ taker[t].note \in displaced'
      BY <3>4, <1>4, <1>9
    <3>6. o = taker'[t].note.pub /\ q = taker'[t].note.seq
      BY <1>1
    <3> QED BY <3>5, <3>6, <1>1
  <2>4. \A t \in Takers : Fetching(t)' => Fetching(t) /\ taker'[t] = taker[t]
    BY <1>1 DEF Fetching
  <2>5. Keeping!4'
    BY <1>1, <1>4 DEF IInv, Keeping
  <2>6. Keeping!2'
    BY <2>2, <1>1
  <2>7. Keeping!3'
    BY <2>3, <2>4, <1>1
  <2> QED BY <2>1, <2>5, <2>6, <2>7 DEF Keeping
<1>20. Freeing'
  <2>1. /\ \A t \in Takers : Fetching(t) => Fetching(t)' /\ taker'[t] = taker[t]
        /\ NobodyGone' => NobodyGone
    BY <1>1 DEF Fetching, NobodyGone
  <2> SUFFICES ASSUME NEW n \in Notes, NEW s \in Subs, NEW b \in BOOLEAN, <<s, n, b>> \in took
               PROVE  /\ n.seq \in DOMAIN targets[n.pub]
                      /\ targets[n.pub][n.seq] = {} /\ NobodyGone'
                         /\ (\A t \in Takers : Fetching(t)' => taker'[t].note # n)
                         => ~Stored(n.pub, n.seq)'
    BY <1>1 DEF Freeing
  <2>2. n.seq \in DOMAIN targets[n.pub] /\ n.pub \in Pubs
    BY DEF IInv, Freeing, Notes
  <2>3. targets[n.pub][n.seq] = {} /\ NobodyGone
        /\ (\A t \in Takers : Fetching(t) => taker[t].note # n) => ~Stored(n.pub, n.seq)
    BY DEF IInv, Freeing
  <2>4. ~Stored(n.pub, n.seq) => ~Stored(n.pub, n.seq)'
    BY <2>2, <1>10, <1>11
  <2> QED BY <2>1, <2>2, <2>3, <2>4
<1> QED BY <1>14, <1>15, <1>16, <1>17, <1>18, <1>19, <1>20 DEF Rest

\* The registered subscriptions become the targets of a number that had none.
LEMMA StoreTargetsStep ==
  ASSUME IInv, NEW m \in Messages, StoreTargets(m)
  PROVE  Rest'
<1> DEFINE p == PubOf[m]
           k == seq[m]
<1>1. /\ UNCHANGED <<pub, sub, sequence_number, elements_, seq, copies, taker, got, took, displaced>>
      /\ pc[m] = "targets" /\ pc'[m] = "notify" /\ \A n \in Messages \ {m} : pc'[n] = pc[n]
      /\ p \in Pubs /\ k \in Nat
  BY DEF StoreTargets, mwVars, histVars, IInv, Types
<1>2. /\ \A o \in Pubs : o # p => targets'[o] = targets[o]
      /\ DOMAIN targets'[p] = DOMAIN targets[p] \cup {k}
      /\ \A q \in DOMAIN targets[p] : q # k => targets'[p][q] = targets[p][q]
  BY <1>1 DEF StoreTargets, IInv, Types
<1>3. k \notin DOMAIN targets[p] /\ k < sequence_number[p]
  BY <1>1 DEF IInv, Numbering, Active
<1>4. \A o \in Pubs : \A q \in DOMAIN targets[o] :
        q \in DOMAIN targets'[o] /\ targets'[o][q] = targets[o][q]
  BY <1>2, <1>3
<1>5. \A o \in Pubs : \A q \in DOMAIN targets'[o] : q \in DOMAIN targets[o] \/ (o = p /\ q = k)
  BY <1>2
<1>6. \A o : Used(o)' = Used(o) /\ \A q : Stored(o, q)' <=> Stored(o, q)
  BY <1>1 DEF Used, Stored
<1>7. /\ \A t \in Takers : (Fetching(t)' <=> Fetching(t)) /\ taker'[t] = taker[t]
      /\ \A t \in Takers : \A u, o, q : Fetches(t, u, o, q)' <=> Fetches(t, u, o, q)
      /\ NobodyGone' <=> NobodyGone
  BY <1>1 DEF Fetches, Fetching, NobodyGone
<1>8. \A n \in Messages : /\ pc'[n] \in Active <=> pc[n] \in Active
                          /\ pc'[n] \in {"push", "targets"} => pc[n] \in {"push", "targets"} /\ n # m
                          /\ pc'[n] # "new" => pc[n] # "new"
                          /\ pc[n] = "done" => pc'[n] = "done"
                          /\ pc[n] \notin {"new", "seq", "push"} => pc'[n] \notin {"new", "seq", "push"}
                          /\ pc[n] \notin {"new", "seq", "push", "targets"} =>
                               pc'[n] \notin {"new", "seq", "push", "targets"}
  BY <1>1 DEF Active
<1>9. \A n \in Messages : PubOf[n] = p /\ n # m /\ pc[n] \in Active => seq[n] # k
  BY <1>1 DEF IInv, Numbering, Active
<1> HIDE DEF p, k
<1>10. Numbering'
  <2>1. \A n \in Messages : pc'[n] \in {"push", "targets"} => seq[n] \notin DOMAIN targets'[PubOf[n]]
    <3> TAKE n \in Messages
    <3> HAVE pc'[n] \in {"push", "targets"}
    <3>1. pc[n] \in Active /\ n # m /\ seq[n] \notin DOMAIN targets[PubOf[n]] /\ PubOf[n] \in Pubs
      BY <1>8 DEF IInv, Numbering, Active
    <3> QED BY <3>1, <1>5, <1>9
  <2>2. \A o \in Pubs : \A q \in DOMAIN targets'[o] : q < sequence_number[o]
    BY <1>3, <1>5 DEF IInv, Numbering
  <2> QED BY <2>1, <2>2, <1>1, <1>8 DEF IInv, Numbering
<1>11. Ringing'
  <2>1. \A o \in Pubs : \A i \in Used(o) : Val(elements_[o][i]) \in Messages
    BY InRing
  <2> QED BY <2>1, <1>1, <1>6, <1>8 DEF IInv, Ringing
<1>12. Having'
  <2>1. Having!1'
    BY <1>1, <1>8 DEF IInv, Having
  <2> QED BY <2>1, <1>1, <1>4, <1>6, <1>7 DEF IInv, Having
<1>13. AtMostOnce' /\ Owning'
  BY <1>1, <1>6 DEF IInv, AtMostOnce, Owning
<1>14. Fetched'
  <2> SUFFICES ASSUME NEW t \in Takers, Fetching(t)
               PROVE  LET o == taker[t].note.pub  q == taker[t].note.seq IN
                      /\ q \in DOMAIN targets'[o] /\ taker[t].sub \notin targets'[o][q]
                      /\ taker[t].last => targets'[o][q] = {}
                      /\ ~taker[t].last /\ NobodyGone => targets'[o][q] # {}
    BY <1>7 DEF Fetched
  <2>1. taker[t].note.pub \in Pubs
    BY DEF IInv, Types, Fetching, Notes
  <2> QED BY <2>1, <1>4 DEF IInv, Fetched
<1>15. Keeping'
  <2>1. \A o \in Pubs : \A q \in DOMAIN targets'[o] :
          targets'[o][q] # {} => Stored(o, q) \/ [pub |-> o, seq |-> q] \in displaced
    <3>1. Stored(p, k) \/ [pub |-> p, seq |-> k] \in displaced
      BY <1>1 DEF IInv, Keeping, p, k
    <3> QED BY <3>1, <1>4, <1>5 DEF IInv, Keeping
  <2>2. Keeping!1'
    BY <2>1, <1>1, <1>6
  <2>3. Keeping!3' /\ Keeping!4'
    BY <1>1, <1>6, <1>7 DEF IInv, Keeping
  <2>4. \A n \in Messages : pc'[n] = "targets" => pc[n] = "targets" /\ seq'[n] = seq[n]
    BY <1>1
  <2>5. Keeping!2'
    BY <2>4, <1>1, <1>6 DEF IInv, Keeping
  <2> QED BY <2>2, <2>3, <2>5 DEF Keeping
<1>16. Freeing'
  <2> SUFFICES ASSUME NEW n \in Notes, NEW s \in Subs, NEW b \in BOOLEAN, <<s, n, b>> \in took
               PROVE  /\ n.seq \in DOMAIN targets'[n.pub]
                      /\ targets'[n.pub][n.seq] = {} /\ NobodyGone
                         /\ (\A t \in Takers : Fetching(t) => taker[t].note # n)
                         => ~Stored(n.pub, n.seq)
    BY <1>1, <1>6, <1>7 DEF Freeing
  <2>1. n.pub \in Pubs
    BY DEF Notes
  <2> QED BY <2>1, <1>4 DEF IInv, Freeing
<1> QED BY <1>10, <1>11, <1>12, <1>13, <1>14, <1>15, <1>16 DEF Rest

------------------------------------------------------------------------------
(* The steps that take a message.                                           *)

\* A step under take_mutex_ finds nobody else who fetches.
LEMMA Alone ==
  ASSUME IInv, NEW t \in Takers, take_mutex_ = t
  PROVE  \A u \in Takers : u # t => ~Fetching(u)
BY DEF IInv, Locking

\* A subscription takes its name off the targets, or is not among them.
LEMMA TakeTargetStep ==
  ASSUME IInv, NEW t \in Takers, TakeTarget(t)
  PROVE  Rest'
<1> DEFINE s == taker[t].sub
           n == taker[t].note
           p == n.pub
           k == n.seq
           mine == pub[p] # "gone" /\ k \in DOMAIN targets[p] /\ s \in targets[p][k]
<1>1. /\ UNCHANGED <<pub, sub, sequence_number, elements_, pc, seq, copies, got, took, displaced>>
      /\ runtime_mutex_ = t
  BY DEF TakeTarget, pubVars, mwVars, histVars
<1>2. take_mutex_ = t /\ taker[t].pc = "take" /\ \A u \in Takers : ~Fetching(u)
  <2>1. take_mutex_ = t /\ taker[t].pc = "take"
    BY <1>1 DEF IInv, Locking
  <2> QED BY <2>1, Alone DEF Fetching
<1>3. s \in Subs /\ n \in Notes /\ p \in Pubs /\ k \in Nat
  BY <1>2 DEF IInv, Types, Notes
<1>4. \A u \in Takers : u # t => taker'[u] = taker[u]
  BY DEF TakeTarget, IInv, Types
<1>5. CASE ~mine
  <2>1. taker' = [taker EXCEPT ![t] = Idle] /\ UNCHANGED targets
    BY <1>5 DEF TakeTarget
  <2>2. ~Fetching(t)'
    BY <2>1 DEF Fetching, Idle, IInv, Types
  <2>3. \A u \in Takers : ~Fetching(u)'
    BY <2>2, <1>2, <1>4 DEF Fetching
  <2>4. Quiet
    BY <1>1, <1>2, <2>1, <2>3 DEF Quiet, NobodyGone
  <2> QED BY <2>4, QuietStep
<1>6. CASE mine
  <2>1. targets' = [targets EXCEPT ![p][k] = @ \ {s}]
        /\ taker' = [taker EXCEPT ![t].pc = "fetch", ![t].last = (targets[p][k] = {s})]
    BY <1>6 DEF TakeTarget
  <2>2. /\ taker'[t].pc = "fetch" /\ taker'[t].sub = s /\ taker'[t].note = n
        /\ taker'[t].last = (targets[p][k] = {s})
    BY <2>1 DEF IInv, Types
  <2>3. \A u \in Takers : Fetching(u)' <=> u = t
    BY <2>2, <1>2, <1>4 DEF Fetching
  <2>4. DOMAIN targets = Pubs
    BY DEF IInv, Types
  <2>5. /\ DOMAIN targets' = Pubs /\ \A o \in Pubs : DOMAIN targets'[o] = DOMAIN targets[o]
        /\ targets'[p][k] = targets[p][k] \ {s}
        /\ \A o \in Pubs : \A q \in DOMAIN targets[o] :
             o # p \/ q # k => targets'[o][q] = targets[o][q]
    BY <1>3, <1>6, <2>1, <2>4
  <2>6. \A o \in Pubs : \A q \in DOMAIN targets[o] : targets'[o][q] \subseteq targets[o][q]
    BY <2>5
  <2>7. \A o : Used(o)' = Used(o) /\ \A q : Stored(o, q)' <=> Stored(o, q)
    BY <1>1 DEF Used, Stored
  <2>8. k \in DOMAIN targets[p] /\ s \in targets[p][k]
    BY <1>6
  <2>9. n = [pub |-> p, seq |-> k]
    BY <1>3 DEF Notes
  <2> HIDE DEF s, p, k, n
  <2>10. Numbering'
    BY <1>1, <2>5 DEF IInv, Numbering
  <2>11. Ringing'
    BY <1>1, <2>7 DEF IInv, Ringing
  <2>12. Having'
    <3>1. Having!1'
      BY <1>1 DEF IInv, Having
    <3>2. ASSUME NEW o \in Pubs, pub[o] = "alive", NEW i \in Used(o), NEW u \in Subs,
                 got[u][Val(elements_[o][i])] # <<>>
          PROVE  /\ elements_[o][i].key \in DOMAIN targets'[o]
                 /\ u \notin targets'[o][elements_[o][i].key]
                 /\ \A x \in Takers : ~Fetches(x, u, o, elements_[o][i].key)'
      <4>1. elements_[o][i].key \in DOMAIN targets[o] /\ u \notin targets[o][elements_[o][i].key]
        BY <3>2 DEF IInv, Having
      <4>2. ASSUME NEW x \in Takers, Fetches(x, u, o, elements_[o][i].key)'
            PROVE  FALSE
        <5>1. x = t
          BY <4>2, <2>3 DEF Fetches
        <5>2. u = s /\ o = p /\ elements_[o][i].key = k
          BY <4>2, <5>1, <2>2, <1>1 DEF Fetches, p, k
        <5> QED BY <5>2, <4>1, <2>8
      <4> QED BY <4>1, <4>2, <2>5, <2>6
    <3>3. Having!2'
      BY <3>2, <1>1, <2>7
    <3> QED BY <3>1, <3>3 DEF Having
  <2>13. AtMostOnce' /\ Owning'
    BY <1>1, <2>7 DEF IInv, AtMostOnce, Owning
  <2>14. Fetched'
    <3> SUFFICES ASSUME NEW u \in Takers, Fetching(u)'
                 PROVE  LET o == taker'[u].note.pub  q == taker'[u].note.seq IN
                        /\ q \in DOMAIN targets'[o] /\ taker'[u].sub \notin targets'[o][q]
                        /\ taker'[u].last => targets'[o][q] = {}
                        /\ ~taker'[u].last /\ NobodyGone' => targets'[o][q] # {}
      BY DEF Fetched
    <3>1. u = t
      BY <2>3
    <3>2. taker'[u].sub = s /\ taker'[u].note.pub = p /\ taker'[u].note.seq = k
          /\ (taker'[u].last <=> targets[p][k] = {s})
      BY <3>1, <2>2 DEF p, k
    <3> QED BY <3>2, <1>3, <2>5, <2>8
  <2>15. Keeping'
    <3>1. Keeping!1'
      BY <1>1, <2>5, <2>6, <2>7 DEF IInv, Keeping
    <3>2. \A m \in Messages : pc'[m] = "targets" => pc[m] = "targets" /\ seq'[m] = seq[m]
      BY <1>1
    <3>3. Keeping!2'
      BY <3>2, <1>1, <2>7 DEF IInv, Keeping
    <3>4. Stored(p, k) \/ n \in displaced
      BY <1>3, <2>8, <2>9 DEF IInv, Keeping
    <3>5. ASSUME NEW u \in Takers, Fetching(u)'
          PROVE  Stored(taker'[u].note.pub, taker'[u].note.seq) \/ taker'[u].note \in displaced
      <4>1. u = t
        BY <3>5, <2>3
      <4> QED BY <4>1, <3>4, <2>2 DEF p, k
    <3>6. Keeping!3'
      BY <3>5, <1>1 DEF Stored, Used
    <3>7. Keeping!4'
      BY <1>1 DEF IInv, Keeping
    <3> QED BY <3>1, <3>3, <3>6, <3>7 DEF Keeping
  <2>16. Freeing'
    <3> SUFFICES ASSUME NEW x \in Notes, NEW u \in Subs, NEW b \in BOOLEAN, <<u, x, b>> \in took
                 PROVE  /\ x.seq \in DOMAIN targets'[x.pub]
                        /\ targets'[x.pub][x.seq] = {} /\ NobodyGone
                           /\ (\A y \in Takers : Fetching(y)' => taker'[y].note # x)
                           => ~Stored(x.pub, x.seq)
      BY <1>1, <2>7 DEF Freeing, NobodyGone
    <3>1. x.seq \in DOMAIN targets[x.pub] /\ x.pub \in Pubs
      BY DEF IInv, Freeing, Notes
    <3>2. x.seq \in DOMAIN targets'[x.pub]
      BY <3>1, <2>5
    <3>3. ASSUME targets'[x.pub][x.seq] = {}, NobodyGone,
                 \A y \in Takers : Fetching(y)' => taker'[y].note # x
          PROVE  ~Stored(x.pub, x.seq)
      <4>1. x # n
        BY <3>3, <2>2, <2>3
      <4>2. x.pub # p \/ x.seq # k
        <5>1. x = [pub |-> x.pub, seq |-> x.seq]
          BY DEF Notes
        <5> QED BY <4>1, <5>1, <2>9
      <4>3. targets[x.pub][x.seq] = {}
        BY <4>2, <3>1, <3>3, <2>5
      <4> QED BY <4>3, <3>3, <1>2 DEF IInv, Freeing
    <3> QED BY <3>2, <3>3
  <2> QED BY <2>10, <2>11, <2>12, <2>13, <2>14, <2>15, <2>16 DEF Rest
<1> QED BY <1>5, <1>6

\* A destroyed subscription is nobody's target any more.
LEMMA RemoveSubscriptionStep ==
  ASSUME IInv, NEW s \in Subs, RemoveSubscription(s)
  PROVE  Rest'
<1>1. /\ UNCHANGED <<pub, sequence_number, elements_, pc, seq, taker, got, took, displaced>>
      /\ sub'[s] = "gone" /\ \A u \in Subs : copies'[u] \subseteq copies[u]
  BY DEF RemoveSubscription, pubVars, histVars, IInv, Types
<1>2. /\ \A o \in Pubs : DOMAIN targets'[o] = DOMAIN targets[o]
      /\ \A o \in Pubs : \A q \in DOMAIN targets[o] : targets'[o][q] \subseteq targets[o][q]
  BY DEF RemoveSubscription
<1>3. /\ \A o : Used(o)' = Used(o) /\ \A q : Stored(o, q)' <=> Stored(o, q)
      /\ \A t \in Takers : (Fetching(t)' <=> Fetching(t)) /\ taker'[t] = taker[t]
      /\ \A t \in Takers : \A u, o, q : Fetches(t, u, o, q)' <=> Fetches(t, u, o, q)
      /\ ~NobodyGone'
  BY <1>1 DEF Used, Stored, Fetches, Fetching, NobodyGone
<1>4. Numbering'
  BY <1>1, <1>2 DEF IInv, Numbering
<1>5. Ringing'
  BY <1>1, <1>3 DEF IInv, Ringing
<1>6. Having'
  <2>1. Having!1'
    BY <1>1 DEF IInv, Having
  <2> QED BY <2>1, <1>1, <1>2, <1>3 DEF IInv, Having
<1>7. AtMostOnce' /\ Owning'
  BY <1>1, <1>3 DEF IInv, AtMostOnce, Owning
<1>8. Fetched'
  <2> SUFFICES ASSUME NEW t \in Takers, Fetching(t)
               PROVE  LET o == taker[t].note.pub  q == taker[t].note.seq IN
                      /\ q \in DOMAIN targets'[o] /\ taker[t].sub \notin targets'[o][q]
                      /\ taker[t].last => targets'[o][q] = {}
    BY <1>3 DEF Fetched
  <2>1. taker[t].note.pub \in Pubs
    BY DEF IInv, Types, Fetching, Notes
  <2> QED BY <2>1, <1>2 DEF IInv, Fetched
<1>9. Keeping'
  <2>1. Keeping!1'
    BY <1>1, <1>2, <1>3 DEF IInv, Keeping
  <2>2. Keeping!2'
    BY <1>1, <1>3 DEF IInv, Keeping
  <2>3. Keeping!3' /\ Keeping!4'
    BY <1>1, <1>3 DEF IInv, Keeping
  <2> QED BY <2>1, <2>2, <2>3 DEF Keeping
<1>10. Freeing'
  BY <1>1, <1>2, <1>3 DEF IInv, Freeing, Notes
<1> QED BY <1>4, <1>5, <1>6, <1>7, <1>8, <1>9, <1>10 DEF Rest

\* A copy is given to a subscription only if its publisher is not alive.
LEMMA HandleMessageStep ==
  ASSUME IInv, NEW s \in Subs, HandleMessage(s)
  PROVE  Rest'
<1> PICK m \in copies[s] : /\ copies' = [copies EXCEPT ![s] = @ \ {m}]
                           /\ got' = IF Matches(PubOf[m]) THEN got
                                     ELSE [got EXCEPT ![s][m] = Append(@, "inter")]
                           /\ UNCHANGED <<pub, sub, infoVars, runtime_mutex_, take_mutex_,
                                          pubVars, inbox, taker, took, displaced, undefined>>
  BY DEF HandleMessage
<1>1. /\ UNCHANGED <<pub, sub, sequence_number, elements_, targets, pc, seq, taker, took, displaced>>
      /\ m \in Messages /\ \A u \in Subs : copies'[u] \subseteq copies[u]
  BY DEF infoVars, pubVars, IInv, Types
<1>2. CASE Matches(PubOf[m])
  <2>1. Quiet
    BY <1>1, <1>2 DEF Quiet, Fetching, NobodyGone
  <2> QED BY <2>1, QuietStep
<1>3. CASE ~Matches(PubOf[m])
  <2>1. /\ pub[PubOf[m]] # "alive" /\ pc[m] = "done"
        /\ got' = [got EXCEPT ![s][m] = Append(@, "inter")]
    BY <1>3, <1>1 DEF Matches, IInv, Numbering
  <2>2. got[s][m] \in Seq(Ways)
    BY <1>1 DEF IInv, Types
  <2>3. got'[s][m] = Append(got[s][m], "inter")
        /\ \A u \in Subs, n \in Messages : u # s \/ n # m => got'[u][n] = got[u][n]
    BY <1>1, <2>1 DEF IInv, Types
  <2>4. \A u \in Subs, n \in Messages : ToSet(got'[u][n]) \subseteq ToSet(got[u][n]) \cup {"inter"}
    <3>1. ToSet(got'[s][m]) = ToSet(got[s][m]) \cup {"inter"}
      BY <2>2, <2>3, ToSetAppend DEF Ways
    <3> QED BY <3>1, <2>3
  <2>5. /\ \A o : Used(o)' = Used(o) /\ \A q : Stored(o, q)' <=> Stored(o, q)
        /\ \A t \in Takers : (Fetching(t)' <=> Fetching(t)) /\ taker'[t] = taker[t]
        /\ \A t \in Takers : \A u, o, q : Fetches(t, u, o, q)' <=> Fetches(t, u, o, q)
        /\ NobodyGone' <=> NobodyGone
    BY <1>1 DEF Used, Stored, Fetches, Fetching, NobodyGone
  <2>6. \A p \in Pubs : \A i \in Used(p) : /\ Val(elements_[p][i]) \in Messages
                                           /\ PubOf[Val(elements_[p][i])] = p
    BY InRing
  <2>7. Numbering' /\ Ringing'
    BY <1>1, <2>5 DEF IInv, Numbering, Ringing
  <2>8. Having'
    <3>1. Having!1'
      BY <1>1, <2>1, <2>3 DEF IInv, Having
    <3>2. \A p \in Pubs : pub[p] = "alive" =>
            \A i \in Used(p), u \in Subs :
              got'[u][Val(elements_[p][i])] = got[u][Val(elements_[p][i])]
      BY <2>1, <2>3, <2>6
    <3>3. ASSUME NEW p \in Pubs, pub[p] = "alive", NEW i \in Used(p), NEW u \in Subs,
                 got'[u][Val(elements_[p][i])] # <<>>
          PROVE  /\ elements_[p][i].key \in DOMAIN targets[p]
                 /\ u \notin targets[p][elements_[p][i].key]
                 /\ \A t \in Takers : ~Fetches(t, u, p, elements_[p][i].key)
      <4>1. got[u][Val(elements_[p][i])] # <<>>
        BY <3>2, <3>3
      <4> QED BY <4>1, <3>3 DEF IInv, Having
    <3>4. Having!2'
      BY <3>3, <1>1, <2>5
    <3> QED BY <3>1, <3>4 DEF Having
  <2>9. AtMostOnce'
    BY <1>1, <2>1, <2>3 DEF IInv, AtMostOnce
  <2>10. Owning'
    <3>1. \A u \in Subs, n \in Messages : /\ "moved" \in ToSet(got'[u][n]) => "moved" \in ToSet(got[u][n])
                                          /\ "shared" \in ToSet(got'[u][n]) => "shared" \in ToSet(got[u][n])
      BY <2>4
    <3>2. Owning!1'
      BY <3>1, <1>1, <2>5, <2>6 DEF IInv, Owning
    <3>3. ASSUME NEW u \in Subs, NEW w \in Subs, NEW n \in Messages,
                 "moved" \in ToSet(got'[u][n]), w # u
          PROVE  ToSet(got'[w][n]) \cap {"moved", "shared"} = {}
      <4>1. ToSet(got[w][n]) \cap {"moved", "shared"} = {}
        BY <3>1, <3>3 DEF IInv, Owning
      <4> QED BY <4>1, <3>1
    <3> QED BY <3>2, <3>3 DEF Owning
  <2>11. Fetched'
    BY <1>1, <2>5 DEF IInv, Fetched
  <2>12. Keeping'
    <3>1. Keeping!1' /\ Keeping!3' /\ Keeping!4'
      BY <1>1, <2>5 DEF IInv, Keeping
    <3>2. Keeping!2'
      BY <1>1, <2>5 DEF IInv, Keeping
    <3> QED BY <3>1, <3>2 DEF Keeping
  <2>13. Freeing'
    BY <1>1, <2>5 DEF IInv, Freeing
  <2> QED BY <2>7, <2>8, <2>9, <2>10, <2>11, <2>12, <2>13 DEF Rest
<1> QED BY <1>2, <1>3

\* The taker fetches what its number stands for; the last one frees the element.
LEMMA FetchStep ==
  ASSUME IInv, NEW t \in Takers, Fetch(t)
  PROVE  Rest'
<1> DEFINE s0 == taker[t].sub
           n0 == taker[t].note
           p0 == n0.pub
           k0 == n0.seq
           b0 == taker[t].last
<1>0. Fetching(t) /\ UNCHANGED <<pub, sub, sequence_number, targets, pc, seq, copies, displaced>>
  BY DEF Fetch, Fetching, pubVars, mwVars
<1>1. /\ s0 \in Subs /\ p0 \in Pubs /\ k0 \in Nat /\ n0 \in Notes
      /\ taker' = [taker EXCEPT ![t] = Idle] /\ took' = took \cup {<<s0, n0, Stored(p0, k0)>>}
      /\ take_mutex_ = t
      /\ ~Stored(p0, k0) => elements_' = elements_ /\ got' = got
      /\ Stored(p0, k0) => \E i \in Used(p0), how \in Ways, e \in Slot : FetchesFrom(t, i, how, e)
  BY FetchEffect
<1>2. \A u \in Takers : ~Fetching(u)'
  <2>1. \A u \in Takers : u # t => ~Fetching(u)
    BY <1>1, Alone
  <2> QED BY <2>1, <1>1 DEF Fetching, Idle, IInv, Types
<1>3. \A u \in Takers : Fetching(u) => u = t
  BY <1>1, Alone
<1>4. /\ k0 \in DOMAIN targets[p0] /\ s0 \notin targets[p0][k0]
      /\ b0 => targets[p0][k0] = {}
      /\ ~b0 /\ NobodyGone => targets[p0][k0] # {}
  BY <1>0 DEF IInv, Fetched
<1>5. PICK s \in Subs, n \in Notes, p \in Pubs, k \in Nat, b \in BOOLEAN :
         s = s0 /\ n = n0 /\ p = p0 /\ k = k0 /\ b = b0 /\ n = [pub |-> p, seq |-> k]
  <2>1. b0 \in BOOLEAN
    BY DEF IInv, Types
  <2>2. n0 = [pub |-> p0, seq |-> k0]
    BY <1>1 DEF Notes
  <2> HIDE DEF s0, n0, p0, k0, b0
  <2> QED BY <1>1, <2>1, <2>2
<1>6. /\ k \in DOMAIN targets[p] /\ s \notin targets[p][k] /\ (b => targets[p][k] = {})
      /\ (~b /\ NobodyGone => targets[p][k] # {})
      /\ took' = took \cup {<<s, n, Stored(p, k)>>} /\ Fetches(t, s, p, k)
      /\ n.pub = p /\ n.seq = k
      /\ Stored(p, k) \/ n \in displaced
  <2>1. Stored(p0, k0) \/ n0 \in displaced
    BY <1>0 DEF IInv, Keeping
  <2> QED BY <2>1, <1>0, <1>1, <1>4, <1>5 DEF Fetches
<1>7. NobodyGone' <=> NobodyGone
  BY <1>0 DEF NobodyGone
\* What the elements and the histories look like afterwards.
<1>8. /\ \A o \in Pubs : \A i \in Used(o)' :
           /\ i \in Used(o) /\ elements_'[o][i].key = elements_[o][i].key
           /\ Val(elements_'[o][i]) = Val(elements_[o][i])
      /\ \A o \in Pubs : \A i \in Used(o) :
           ~(b /\ o = p /\ elements_[o][i].key = k) => i \in Used(o)'
      /\ b => \A i \in Used(p)' : elements_[p][i].key # k
      /\ \A o \in Pubs : \A i \in 0 .. Size - 1 :
           IF elements_'[o][i].in_use
           THEN (elements_'[o][i].unique_value = None) # (elements_'[o][i].shared_value = None)
           ELSE elements_'[o][i].unique_value = None /\ elements_'[o][i].shared_value = None
      /\ \/ got' = got /\ elements_' = elements_ /\ ~Stored(p, k)
         \/ \E i \in Used(p) : \E how \in {"moved", "shared", "copy"} :
              LET v == Val(elements_[p][i]) IN
              /\ elements_[p][i].key = k /\ v \in Messages
              /\ \A u \in Subs, m \in Messages : u # s \/ m # v => got'[u][m] = got[u][m]
              /\ got'[s][v] = Append(got[s][v], how) /\ got[s][v] \in Seq(Ways)
              /\ how = "moved" => b /\ elements_[p][i].unique_value # None
              /\ \A o \in Pubs : \A j \in Used(o)' :
                   elements_'[o][j].unique_value # None =>
                     /\ elements_[o][j].unique_value # None
                     /\ o = p /\ j = i => how = "copy"
  <2>0. \A o \in Pubs : \A i \in 0 .. Size - 1 :
           IF elements_[o][i].in_use
           THEN (elements_[o][i].unique_value = None) # (elements_[o][i].shared_value = None)
           ELSE elements_[o][i].unique_value = None /\ elements_[o][i].shared_value = None
    BY DEF IInv, Ringing
  <2>1. CASE ~Stored(p, k)
    <3>1. got' = got /\ elements_' = elements_
      BY <2>1, <1>1, <1>5
    <3>2. \A o \in Pubs : Used(o)' = Used(o)
      BY <3>1 DEF Used
    <3>3. \A i \in Used(p) : elements_[p][i].key # k
      BY <2>1 DEF Stored
    <3> QED BY <2>0, <2>1, <3>1, <3>2, <3>3
  <2>2. CASE Stored(p, k)
    <3>1. PICK i \in Used(p), how \in Ways, e \in Slot : FetchesFrom(t, i, how, e)
      BY <2>2, <1>1, <1>5
    <3> DEFINE x == elements_[p][i]
               v == Val(x)
    <3>15. v = Val(elements_[p][i])
      OBVIOUS
    <3>2. /\ x.key = k /\ v \in Messages
          /\ elements_' = [elements_ EXCEPT ![p] = [@ EXCEPT ![i] = e]]
          /\ got' = [got EXCEPT ![s][v] = Append(@, how)]
          /\ how \in {"moved", "shared", "copy"}
          /\ b => ~e.in_use /\ e.unique_value = None /\ e.shared_value = None
          /\ ~b => /\ e.in_use /\ how # "moved" /\ e.key = k /\ Val(e) = v
                   /\ (e.unique_value = None) # (e.shared_value = None)
                   /\ e.unique_value # None => how = "copy" /\ x.unique_value # None
          /\ how = "moved" => x.unique_value # None
      BY <3>1, <1>5 DEF FetchesFrom
    <3>3. i \in 0 .. Size - 1 /\ x.in_use
      BY DEF Used
    <3> HIDE DEF x, v
    <3>4. /\ elements_'[p][i] = e
          /\ \A j \in 0 .. Size - 1 : j # i => elements_'[p][j] = elements_[p][j]
          /\ \A o \in Pubs : o # p => elements_'[o] = elements_[o]
      <4>1. elements_ \in [Pubs -> [0 .. Size - 1 -> Slot]]
        BY DEF IInv, Types
      <4> QED BY <4>1, <3>2, <3>3
    <3>5. /\ \A o \in Pubs : o # p => Used(o)' = Used(o)
          /\ \A j \in 0 .. Size - 1 : j # i => (j \in Used(p)' <=> j \in Used(p))
          /\ i \in Used(p)' <=> ~b
      BY <3>2, <3>3, <3>4 DEF Used
    <3>6. /\ got[s][v] \in Seq(Ways) /\ got'[s][v] = Append(got[s][v], how)
          /\ \A u \in Subs, m \in Messages : u # s \/ m # v => got'[u][m] = got[u][m]
      BY <3>2 DEF IInv, Types
    <3>7. \A j \in Used(p) : elements_[p][j].key = k => j = i
      BY <3>2 DEF IInv, Ringing, x
    <3>8. \A o \in Pubs : \A j \in Used(o)' :
            (o = p /\ j = i /\ ~b) \/ (j \in Used(o) /\ elements_'[o][j] = elements_[o][j]
                                       /\ (o # p \/ j # i))
      <4>1. \A o \in Pubs : \A j \in Used(o)' : j \in 0 .. Size - 1
        BY DEF Used
      <4> QED BY <4>1, <3>4, <3>5
    <3>9. \A o \in Pubs : \A j \in Used(o)' :
           /\ j \in Used(o) /\ elements_'[o][j].key = elements_[o][j].key
           /\ Val(elements_'[o][j]) = Val(elements_[o][j])
      BY <3>2, <3>4, <3>8 DEF x, v
    <3>10. \A o \in Pubs : \A j \in Used(o) :
             ~(b /\ o = p /\ elements_[o][j].key = k) => j \in Used(o)'
      <4>1. \A o \in Pubs : \A j \in Used(o) : j \in 0 .. Size - 1
        BY DEF Used
      <4> QED BY <4>1, <3>2, <3>5 DEF x
    <3>11. b => \A j \in Used(p)' : elements_[p][j].key # k
      BY <3>7, <3>8
    <3>12. \A o \in Pubs : \A j \in 0 .. Size - 1 :
           IF elements_'[o][j].in_use
           THEN (elements_'[o][j].unique_value = None) # (elements_'[o][j].shared_value = None)
           ELSE elements_'[o][j].unique_value = None /\ elements_'[o][j].shared_value = None
      <4>1. IF e.in_use THEN (e.unique_value = None) # (e.shared_value = None)
                        ELSE e.unique_value = None /\ e.shared_value = None
        BY <3>2
      <4> QED BY <4>1, <2>0, <3>4
    <3>13. \A o \in Pubs : \A j \in Used(o)' :
             elements_'[o][j].unique_value # None =>
               /\ elements_[o][j].unique_value # None
               /\ o = p /\ j = i => how = "copy"
      BY <3>2, <3>4, <3>8 DEF x
    <3>14. /\ elements_[p][i].key = k /\ v \in Messages /\ how \in {"moved", "shared", "copy"}
           /\ \A u \in Subs, m \in Messages : u # s \/ m # v => got'[u][m] = got[u][m]
           /\ got'[s][v] = Append(got[s][v], how) /\ got[s][v] \in Seq(Ways)
           /\ how = "moved" => b /\ elements_[p][i].unique_value # None
      BY <3>2, <3>6 DEF x
    <3>16. \E j \in Used(p) : \E w \in {"moved", "shared", "copy"} :
             LET x0 == Val(elements_[p][j]) IN
             /\ elements_[p][j].key = k /\ x0 \in Messages
             /\ \A u \in Subs, m \in Messages : u # s \/ m # x0 => got'[u][m] = got[u][m]
             /\ got'[s][x0] = Append(got[s][x0], w) /\ got[s][x0] \in Seq(Ways)
             /\ w = "moved" => b /\ elements_[p][j].unique_value # None
             /\ \A o \in Pubs : \A l \in Used(o)' :
                  elements_'[o][l].unique_value # None =>
                    /\ elements_[o][l].unique_value # None
                    /\ o = p /\ l = j => w = "copy"
      <4> how \in {"moved", "shared", "copy"}
        BY <3>14
      <4> WITNESS i \in Used(p)
      <4> WITNESS how \in {"moved", "shared", "copy"}
      <4> QED BY <3>13, <3>14, <3>15
    <3> QED BY <3>9, <3>10, <3>11, <3>12, <3>16
  <2> QED BY <2>1, <2>2
<1> HIDE DEF s0, n0, p0, k0, b0
<1>9. \A o \in Pubs : \A q : Stored(o, q)' => Stored(o, q)
  BY <1>8 DEF Stored
<1>10. \A o \in Pubs : \A q : Stored(o, q) /\ ~(b /\ o = p /\ q = k) => Stored(o, q)'
  <2> SUFFICES ASSUME NEW o \in Pubs, NEW q, NEW i \in Used(o), elements_[o][i].key = q,
                      ~(b /\ o = p /\ q = k)
               PROVE  Stored(o, q)'
    BY DEF Stored
  <2>1. i \in Used(o)'
    BY <1>8
  <2>2. elements_'[o][i].key = q
    BY <2>1, <1>8
  <2> QED BY <2>1, <2>2 DEF Stored
<1>11. b => ~Stored(p, k)'
  BY <1>8 DEF Stored
<1>12. Numbering'
  BY <1>0 DEF IInv, Numbering
<1>13. Ringing'
  <2>1. \A o \in Pubs : Ringing!(o)!1'
    BY <1>8
  <2> SUFFICES ASSUME NEW o \in Pubs
               PROVE  Ringing!(o)!2' /\ Ringing!(o)!3'
    BY <2>1 DEF Ringing
  <2>2. Ringing!(o)!2'
    <3> SUFFICES ASSUME NEW i \in Used(o)'
                 PROVE  /\ PubOf[Val(elements_'[o][i])] = o
                        /\ elements_'[o][i].key < sequence_number[o]
                        /\ pc[Val(elements_'[o][i])] \notin {"new", "seq", "push"}
                        /\ pc[Val(elements_'[o][i])] \in Active =>
                             elements_'[o][i].key = seq[Val(elements_'[o][i])]
                        /\ \A m \in Messages :
                             PubOf[m] = o /\ pc[m] \in Active /\ elements_'[o][i].key = seq[m] =>
                               Val(elements_'[o][i]) = m
      BY <1>0
    <3>1. /\ i \in Used(o) /\ elements_'[o][i].key = elements_[o][i].key
          /\ Val(elements_'[o][i]) = Val(elements_[o][i])
      BY <1>8
    <3> QED BY <3>1 DEF IInv, Ringing
  <2>3. Ringing!(o)!3'
    <3> SUFFICES ASSUME NEW i \in Used(o)', NEW j \in Used(o)',
                        \/ elements_'[o][i].key = elements_'[o][j].key
                        \/ Val(elements_'[o][i]) = Val(elements_'[o][j])
                 PROVE  i = j
      OBVIOUS
    <3>1. /\ i \in Used(o) /\ elements_'[o][i].key = elements_[o][i].key
          /\ Val(elements_'[o][i]) = Val(elements_[o][i])
      BY <1>8
    <3>2. /\ j \in Used(o) /\ elements_'[o][j].key = elements_[o][j].key
          /\ Val(elements_'[o][j]) = Val(elements_[o][j])
      BY <1>8
    <3> QED BY <3>1, <3>2 DEF IInv, Ringing
  <2> QED BY <2>2, <2>3
<1>14. Fetched'
  BY <1>2 DEF Fetched
<1>15. Keeping'
  <2>1. ASSUME NEW o \in Pubs, NEW q \in DOMAIN targets[o], targets[o][q] # {}
        PROVE  Stored(o, q)' \/ [pub |-> o, seq |-> q] \in displaced
    <3>1. ~(b /\ o = p /\ q = k)
      BY <2>1, <1>6
    <3> QED BY <3>1, <2>1, <1>10 DEF IInv, Keeping
  <2>2. Keeping!1'
    BY <2>1, <1>0
  <2>3. ASSUME NEW m \in Messages, pc[m] = "targets"
        PROVE  (Stored(PubOf[m], seq[m]) \/ [pub |-> PubOf[m], seq |-> seq[m]] \in displaced)'
    <3> DEFINE o == PubOf[m]
    <3> PICK q : q = seq[m]
      OBVIOUS
    <3>1. q \notin DOMAIN targets[o] /\ o \in Pubs
      BY <2>3 DEF IInv, Numbering
    <3>2. Stored(o, q) \/ [pub |-> o, seq |-> q] \in displaced
      BY <2>3 DEF IInv, Keeping
    <3>3. Stored(o, q)' \/ [pub |-> o, seq |-> q] \in displaced
      BY <3>1, <3>2, <1>6, <1>10
    <3>4. q = seq'[m]
      BY <1>0
    <3> QED BY <3>3, <3>4, <1>0
  <2>4. Keeping!2'
    BY <2>3, <1>0
  <2>5. Keeping!3'
    BY <1>2
  <2>6. Keeping!4'
    <3>1. ASSUME NEW u \in Subs, NEW x \in Notes, <<u, x, FALSE>> \in took'
          PROVE  x \in displaced
      <4>1. CASE <<u, x, FALSE>> \in took
        BY <4>1 DEF IInv, Keeping
      <4>2. CASE <<u, x, FALSE>> = <<s, n, Stored(p, k)>>
        BY <4>2, <1>6
      <4> QED BY <3>1, <4>1, <4>2, <1>6
    <3> QED BY <3>1, <1>0
  <2> QED BY <2>2, <2>4, <2>5, <2>6 DEF Keeping
<1>16. Freeing'
  <2> SUFFICES ASSUME NEW x \in Notes, NEW u \in Subs, NEW c \in BOOLEAN, <<u, x, c>> \in took'
               PROVE  /\ x.seq \in DOMAIN targets[x.pub]
                      /\ targets[x.pub][x.seq] = {} /\ NobodyGone => ~Stored(x.pub, x.seq)'
    BY <1>0, <1>2, <1>7 DEF Freeing
  <2>1. CASE x = n
    <3>1. b => ~Stored(x.pub, x.seq)'
      BY <2>1, <1>6, <1>11
    <3> QED BY <2>1, <3>1, <1>6
  <2>2. CASE x # n
    <3>1. <<u, x, c>> \in took
      BY <2>2, <1>6
    <3>2. \A y \in Takers : Fetching(y) => taker[y].note # x
      BY <2>2, <1>3, <1>5 DEF n0
    <3>3. /\ x.seq \in DOMAIN targets[x.pub]
          /\ targets[x.pub][x.seq] = {} /\ NobodyGone => ~Stored(x.pub, x.seq)
      BY <3>1, <3>2 DEF IInv, Freeing
    <3>4. x.pub \in Pubs
      BY DEF Notes
    <3> QED BY <3>3, <3>4, <1>9
  <2> QED BY <2>1, <2>2
<1>17. Having' /\ AtMostOnce' /\ Owning'
  <2>1. CASE got' = got /\ elements_' = elements_ /\ ~Stored(p, k)
    <3>1. \A o : Used(o)' = Used(o)
      BY <2>1 DEF Used
    <3>2. \A x \in Takers : \A u, o, q : ~Fetches(x, u, o, q)'
      BY <1>2 DEF Fetches
    <3>3. Having'
      BY <2>1, <3>1, <3>2, <1>0 DEF IInv, Having
    <3>4. AtMostOnce' /\ Owning'
      BY <2>1, <3>1, <1>0 DEF IInv, AtMostOnce, Owning
    <3> QED BY <3>3, <3>4
  <2>2. ASSUME ~(got' = got /\ elements_' = elements_ /\ ~Stored(p, k))
        PROVE  <1>17
    <3> PICK i \in Used(p), how \in {"moved", "shared", "copy"} :
              LET v == Val(elements_[p][i]) IN
              /\ elements_[p][i].key = k /\ v \in Messages
              /\ \A u \in Subs, m \in Messages : u # s \/ m # v => got'[u][m] = got[u][m]
              /\ got'[s][v] = Append(got[s][v], how) /\ got[s][v] \in Seq(Ways)
              /\ how = "moved" => b /\ elements_[p][i].unique_value # None
              /\ \A o \in Pubs : \A j \in Used(o)' :
                   elements_'[o][j].unique_value # None =>
                     /\ elements_[o][j].unique_value # None
                     /\ o = p /\ j = i => how = "copy"
      BY <2>2, <1>8
    <3> PICK v \in Messages :
              /\ v = Val(elements_[p][i])
              /\ elements_[p][i].key = k
              /\ \A u \in Subs, m \in Messages : u # s \/ m # v => got'[u][m] = got[u][m]
              /\ got'[s][v] = Append(got[s][v], how) /\ got[s][v] \in Seq(Ways)
              /\ how = "moved" => b /\ elements_[p][i].unique_value # None
              /\ \A o \in Pubs : \A j \in Used(o)' :
                   elements_'[o][j].unique_value # None =>
                     /\ elements_[o][j].unique_value # None
                     /\ o = p /\ j = i => how = "copy"
      OBVIOUS
    <3>1. PubOf[v] = p /\ pc[v] \notin {"new", "seq", "push"} /\ (pc[v] \in Active => k = seq[v])
      BY DEF IInv, Ringing
    <3>2. pc[v] # "targets"
      BY <3>1, <1>6 DEF IInv, Numbering, Active
    <3>3. \A o \in Pubs : \A j \in Used(o) : Val(elements_[o][j]) = v => o = p /\ j = i
      BY <3>1 DEF IInv, Ringing
    <3>4. Having'
      <4>1. Having!1'
        BY <3>1, <3>2, <1>0 DEF IInv, Having
      <4>2. ASSUME NEW o \in Pubs, pub[o] = "alive", NEW j \in Used(o)', NEW u \in Subs,
                   got'[u][Val(elements_'[o][j])] # <<>>
            PROVE  /\ elements_'[o][j].key \in DOMAIN targets[o]
                   /\ u \notin targets[o][elements_'[o][j].key]
        <5>1. j \in Used(o) /\ elements_'[o][j].key = elements_[o][j].key
              /\ Val(elements_'[o][j]) = Val(elements_[o][j])
          BY <1>8
        <5>2. CASE u = s /\ Val(elements_[o][j]) = v
          <6>1. o = p /\ j = i
            BY <5>1, <5>2, <3>3
          <6> QED BY <5>1, <5>2, <6>1, <1>6
        <5>3. CASE ~(u = s /\ Val(elements_[o][j]) = v)
          <6>1. Val(elements_[o][j]) \in Messages
            BY <5>1, InRing
          <6>2. got[u][Val(elements_[o][j])] # <<>>
            BY <4>2, <5>1, <5>3, <6>1
          <6> QED BY <6>2, <5>1, <4>2 DEF IInv, Having
        <5> QED BY <5>2, <5>3
      <4>3. \A x \in Takers : \A u, o, q : ~Fetches(x, u, o, q)'
        BY <1>2 DEF Fetches
      <4>4. Having!2'
        BY <4>2, <4>3, <1>0 DEF Fetches
      <4> QED BY <4>1, <4>4 DEF Having
    <3>5. AtMostOnce'
      <4> SUFFICES ASSUME NEW u \in Subs, NEW m \in Messages, pub[PubOf[m]] = "alive"
                   PROVE  Len(got'[u][m]) <= 1
        BY <1>0 DEF AtMostOnce
      <4>1. CASE u = s /\ m = v
        <5>1. got[s][v] = <<>>
          BY <4>1, <3>1, <1>6 DEF IInv, Having
        <5>2. Len(got'[s][v]) = Len(got[s][v]) + 1
          <6>1. how \in Ways
            BY DEF Ways
          <6> QED BY <6>1, ToSetAppend
        <5>3. Len(got'[s][v]) = 1
          BY <5>1, <5>2, ToSetEmpty
        <5> QED BY <4>1, <5>3
      <4>2. CASE ~(u = s /\ m = v)
        BY <4>2 DEF IInv, AtMostOnce
      <4> QED BY <4>1, <4>2
    <3>6. Owning'
      <4>1. ToSet(got'[s][v]) = ToSet(got[s][v]) \cup {how}
        <5> DEFINE w == got[s][v]
        <5>1. how \in Ways /\ w \in Seq(Ways) /\ got'[s][v] = Append(w, how)
          BY DEF Ways
        <5> HIDE DEF w
        <5>2. ToSet(Append(w, how)) = ToSet(w) \cup {how}
          BY <5>1, ToSetAppend
        <5> QED BY <5>1, <5>2 DEF w
      <4>2. /\ \A u \in Subs : "moved" \notin ToSet(got[u][v])
            /\ elements_[p][i].unique_value # None => \A u \in Subs : "shared" \notin ToSet(got[u][v])
        BY DEF IInv, Owning
      <4>3. ASSUME NEW o \in Pubs, NEW j \in Used(o)', NEW u \in Subs
            PROVE  /\ "moved" \notin ToSet(got'[u][Val(elements_'[o][j])])
                   /\ elements_'[o][j].unique_value # None =>
                        "shared" \notin ToSet(got'[u][Val(elements_'[o][j])])
        <5>1. j \in Used(o) /\ Val(elements_'[o][j]) = Val(elements_[o][j])
              /\ Val(elements_[o][j]) \in Messages
              /\ (elements_'[o][j].unique_value # None => elements_[o][j].unique_value # None)
          <6>1. j \in Used(o) /\ Val(elements_'[o][j]) = Val(elements_[o][j])
            BY <1>8
          <6> QED BY <6>1, InRing
        <5>2. CASE u = s /\ Val(elements_[o][j]) = v
          <6>1. o = p /\ j = i
            BY <5>1, <5>2, <3>3
          <6>2. how # "moved"
            BY <6>1, <1>8
          <6>3. elements_'[o][j].unique_value # None => how = "copy"
            BY <6>1
          <6>4. got'[u][Val(elements_'[o][j])] = got'[s][v]
            BY <5>1, <5>2
          <6>5. "moved" \notin ToSet(got'[s][v])
            BY <4>1, <4>2, <6>2
          <6>6. elements_'[o][j].unique_value # None => "shared" \notin ToSet(got'[s][v])
            BY <4>1, <4>2, <5>1, <6>1, <6>3
          <6> QED BY <6>4, <6>5, <6>6
        <5>3. CASE ~(u = s /\ Val(elements_[o][j]) = v)
          <6>1. got'[u][Val(elements_[o][j])] = got[u][Val(elements_[o][j])]
            BY <5>1, <5>3
          <6> QED BY <5>1, <6>1 DEF IInv, Owning
        <5> QED BY <5>2, <5>3
      <4>4. ASSUME NEW u \in Subs, NEW w \in Subs, NEW m \in Messages,
                   "moved" \in ToSet(got'[u][m]), w # u
            PROVE  ToSet(got'[w][m]) \cap {"moved", "shared"} = {}
        <5>1. CASE m # v
          <6>1. got'[u][m] = got[u][m] /\ got'[w][m] = got[w][m]
            BY <5>1
          <6> QED BY <4>4, <6>1 DEF IInv, Owning
        <5>2. CASE m = v
          <6>1. u = s /\ how = "moved"
            BY <4>1, <4>2, <4>4, <5>2
          <6>2. got'[w][m] = got[w][m] /\ elements_[p][i].unique_value # None
            BY <4>4, <6>1
          <6> QED BY <4>2, <5>2, <6>2
        <5> QED BY <5>1, <5>2
      <4> QED BY <4>3, <4>4 DEF Owning
    <3> QED BY <3>4, <3>5, <3>6
  <2> QED BY <2>1, <2>2
<1> QED BY <1>12, <1>13, <1>14, <1>15, <1>16, <1>17 DEF Rest

------------------------------------------------------------------------------
(* The invariant of the specification, and what it says.                    *)

LEMMA InitInvariant == Init => IInv
<1> SUFFICES ASSUME Init PROVE IInv
  OBVIOUS
<1>1. Types
  BY InitTypes
<1>2. /\ \A p \in Pubs : \A i \in 0 .. Size - 1 :
           ~elements_[p][i].in_use /\ elements_[p][i].unique_value = None
           /\ elements_[p][i].shared_value = None
      /\ \A p \in Pubs : DOMAIN targets[p] = {} /\ Used(p) = {}
      /\ \A t \in Takers : ~Fetching(t)
      /\ \A s \in Subs, m \in Messages : got[s][m] = <<>>
      /\ \A m \in Messages : pc[m] = "new"
      /\ \A s \in Subs : copies[s] = {}
      /\ took = {} /\ runtime_mutex_ = None /\ \A t \in Takers : t # None
  BY DEF Init, Empty, Used, Idle, Fetching
<1>3. Locking /\ Numbering /\ Ringing
  BY <1>2 DEF Locking, Numbering, Ringing, Active
<1>4. Having
  BY <1>2 DEF Having
<1>5. AtMostOnce /\ Owning
  BY <1>2, ToSetEmpty DEF AtMostOnce, Owning
<1>6. Fetched /\ Keeping /\ Freeing
  BY <1>2 DEF Fetched, Keeping, Freeing
<1> QED BY <1>1, <1>3, <1>4, <1>5, <1>6 DEF IInv

LEMMA NextInvariant == IInv /\ [Next]_vars => IInv'
<1> SUFFICES ASSUME IInv, [Next]_vars PROVE IInv'
  OBVIOUS
<1>1. Types' /\ Locking'
  BY TypesStep, LockingStep
<1>2. Rest'
  <2>1. ASSUME NEW s \in Subs, AddSubscription(s) \/ SetupIntraProcess(s) \/ Lose(s)
        PROVE  Rest'
    BY <2>1, QuietSubscriptions, QuietStep
  <2>2. ASSUME NEW s \in Subs, RemoveSubscription(s)
        PROVE  Rest'
    BY <2>2, RemoveSubscriptionStep
  <2>3. ASSUME NEW s \in Subs, HandleMessage(s)
        PROVE  Rest'
    BY <2>3, HandleMessageStep
  <2>4. ASSUME NEW p \in Pubs, CreatePublisher(p) \/ PublisherExpires(p) \/ RemovePublisher(p)
        PROVE  Rest'
    BY <2>4, QuietPublishers, QuietStep
  <2>5. ASSUME NEW m \in Messages,
               Publish(m) \/ IntraProcessPublish(m) \/ InterProcessPublish(m)
        PROVE  Rest'
    BY <2>5, QuietPublish, QuietStep
  <2>6. ASSUME NEW m \in Messages, GetPublisherInfo(m)
        PROVE  Rest'
    BY <2>6, GetPublisherInfoStep
  <2>7. ASSUME NEW m \in Messages, Push(m)
        PROVE  Rest'
    BY <2>7, PushStep
  <2>8. ASSUME NEW m \in Messages, StoreTargets(m)
        PROVE  Rest'
    BY <2>8, StoreTargetsStep
  <2>9. ASSUME NEW t \in Takers, TakeTarget(t)
        PROVE  Rest'
    BY <2>9, TakeTargetStep
  <2>10. ASSUME NEW t \in Takers, Fetch(t)
         PROVE  Rest'
    BY <2>10, FetchStep
  <2>11. CASE \/ \E c \in Callers : Enter(c)
              \/ \E t \in Takers, s \in Subs : HandleIntraProcessMessage(t, s)
              \/ UNCHANGED vars
    BY <2>11, QuietReceiving, QuietStep
  <2> QED
    BY <2>1, <2>2, <2>3, <2>4, <2>5, <2>6, <2>7, <2>8, <2>9, <2>10, <2>11 DEF Next
<1> QED BY <1>1, <1>2 DEF IInv, Rest

LEMMA Invariance == Spec => []IInv
<1>1. Init => IInv
  BY InitInvariant
<1>2. IInv /\ [Next]_vars => IInv'
  BY NextInvariant
<1> QED BY <1>1, <1>2, PTL DEF Spec

\* A subscription's callback is called at most once for a message of a publisher
\* that still lives, however notifications and copies of it are interleaved.
THEOREM DeliveredAtMostOnce == Spec => []AtMostOnce
<1>1. IInv => AtMostOnce
  BY DEF IInv
<1> QED BY <1>1, Invariance, PTL

\* take_intra_process_message fails to find a message that was stored for the
\* subscription only if newer ones have displaced it from the ring.
THEOREM OnlyDisplacedIsMissed == Spec => []MissedOnlyIfDisplaced
<1>1. IInv => MissedOnlyIfDisplaced
  <2> SUFFICES ASSUME IInv, NEW s \in Subs, NEW n \in Notifications, <<s, n, FALSE>> \in took
               PROVE  n \in displaced
    BY DEF MissedOnlyIfDisplaced
  <2>1. n \in Notes
    <3>1. n.pub \in Pubs /\ n.seq \in Seqs /\ n = [pub |-> n.pub, seq |-> n.seq]
      BY DEF Notifications
    <3>2. n.seq \in Nat
      BY <3>1 DEF Seqs
    <3> QED BY <3>1, <3>2 DEF Notes
  <2> QED BY <2>1 DEF IInv, Keeping
<1> QED BY <1>1, Invariance, PTL

\* A message in the ring has one owner, is dispatched the way it was taken, and
\* leaves the ring with its last taker: the exceptions of MappedRingBuffer::get
\* and of AnySubscriptionCallback are never thrown.
THEOREM RingKeepsOwnership == Spec => []BufferOwnership
<1>1. IInv => NeverEmpty
  BY DEF IInv, Ringing, NeverEmpty
<1>2. IInv => OneOwner
  <2> SUFFICES ASSUME IInv, NEW s \in Subs, NEW m \in Messages, "moved" \in ToSet(got[s][m])
               PROVE  /\ \A u \in Subs \ {s} : ToSet(got[u][m]) \cap {"moved", "shared"} = {}
                      /\ \A p \in Pubs : \A i \in 0 .. Size - 1 :
                           m \notin {elements_[p][i].unique_value, elements_[p][i].shared_value}
    BY DEF OneOwner
  <2>1. \A u \in Subs \ {s} : ToSet(got[u][m]) \cap {"moved", "shared"} = {}
    BY DEF IInv, Owning
  <2>2. ASSUME NEW p \in Pubs, NEW i \in 0 .. Size - 1
        PROVE  m \notin {elements_[p][i].unique_value, elements_[p][i].shared_value}
    <3>1. m # None
      OBVIOUS
    <3>2. CASE i \in Used(p)
      <4>1. m # Val(elements_[p][i])
        BY <3>2 DEF IInv, Owning
      <4>2. (elements_[p][i].unique_value = None) # (elements_[p][i].shared_value = None)
        BY <3>2 DEF IInv, Ringing, Used
      <4> QED BY <3>1, <4>1, <4>2 DEF Val
    <3>3. CASE i \notin Used(p)
      BY <3>1, <3>3 DEF IInv, Ringing, Used
    <3> QED BY <3>2, <3>3
  <2> QED BY <2>1, <2>2
<1>3. IInv => TakenIsDispatched
  <2> SUFFICES ASSUME IInv, NEW s \in Subs, NEW m \in Messages
               PROVE  "throws" \notin ToSet(got[s][m])
    BY DEF TakenIsDispatched
  <2>1. got[s][m] \in Seq(Ways)
    BY DEF IInv, Types
  <2>2. \A j \in DOMAIN got[s][m] : got[s][m][j] \in Ways
    BY <2>1
  <2> QED BY <2>2 DEF ToSet, Ways
<1>4. IInv => LastTakerFrees
  <2> SUFFICES ASSUME IInv, NEW n \in Notifications, n.seq \in DOMAIN targets[n.pub],
                      targets[n.pub][n.seq] = {},
                      NEW s \in Subs, NEW b \in BOOLEAN, <<s, n, b>> \in took,
                      take_mutex_ = None, \A u \in Subs : sub[u] # "gone"
               PROVE  Found(elements_[n.pub], n.seq) = {}
    BY DEF LastTakerFrees
  <2>1. n \in Notes /\ n.pub \in Pubs
    <3>1. n.pub \in Pubs /\ n.seq \in Seqs /\ n = [pub |-> n.pub, seq |-> n.seq]
      BY DEF Notifications
    <3>2. n.seq \in Nat
      BY <3>1 DEF Seqs
    <3> QED BY <3>1, <3>2 DEF Notes
  <2>2. \A t \in Takers : ~Fetching(t)
    BY DEF IInv, Locking
  <2>3. ~Stored(n.pub, n.seq)
    BY <2>1, <2>2 DEF IInv, Freeing, NobodyGone
  <2>4. DOMAIN elements_[n.pub] = 0 .. Size - 1
    BY <2>1 DEF IInv, Types
  <2> QED BY <2>3, <2>4 DEF Stored, Used, Found
<1> QED BY <1>1, <1>2, <1>3, <1>4, Invariance, PTL DEF BufferOwnership
=============================================================================
