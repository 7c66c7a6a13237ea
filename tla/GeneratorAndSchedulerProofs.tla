---------------------- MODULE GeneratorAndSchedulerProofs ----------------------
(***************************************************************************)
(* Proofs about Generator, for any sources, pipelines and consumers: every  *)
(* generator is the lazy list that its pipeline means.  And about the       *)
(* Scheduler: its types, NotEarly and that no notification is lost for any  *)
(* delays, and, when all delays are equal, that it implements SleepService. *)
(* The two share nothing.                                                   *)
(***************************************************************************)
EXTENDS Generator, Scheduler, SequenceTheorems, WellFoundedInduction, TLAPS

(***************************************************************************)
(* Recursive functions on 0 .. N.                                           *)
(***************************************************************************)

\* A set of numbers has a least one.
LEMMA LeastExists ==
  ASSUME NEW S, S \subseteq Nat, S # {}
  PROVE  \E x \in S : \A y \in S : x <= y
<1>1. \E x \in S : \A y \in S : ~ (<<y, x>> \in OpToRel(<, Nat))
  BY NatLessThanWellFounded, WFMin
<1>2. PICK x \in S : \A y \in S : ~ (<<y, x>> \in OpToRel(<, Nat))
  BY <1>1
<1>3. \A y \in S : ~ (y < x)
  BY <1>2 DEF OpToRel
<1> QED
  BY <1>3

\* What holds of 0, and of each number after one it holds of, holds of all up to N.
LEMMA UpTo ==
  ASSUME NEW N \in Nat, NEW S, 0 \in S, \A i \in 1 .. N : i - 1 \in S => i \in S
  PROVE  \A i \in 0 .. N : i \in S
<1> SUFFICES ASSUME {i \in 0 .. N : i \notin S} # {}
             PROVE  FALSE
  OBVIOUS
<1>1. {i \in 0 .. N : i \notin S} \subseteq Nat
  OBVIOUS
<1>2. PICK m \in {i \in 0 .. N : i \notin S} : \A y \in {i \in 0 .. N : i \notin S} : m <= y
  BY <1>1, LeastExists
<1>3. m \in 1 .. N /\ m - 1 \in 0 .. N
  BY <1>2
<1> QED
  BY <1>2, <1>3

\* f holds what the first n steps of F make of x.
Stepwise(f, n, X, x, F) ==
  f \in [0 .. n -> X] /\ f[0] = x /\ \A i \in 1 .. n : f[i] = F[<<i, f[i - 1]>>]

\* A step that is taken N times, the i-th with the number i: the functions that the model
\* defines by recursion on 0 .. N are of this form.
LEMMA Iterates ==
  ASSUME NEW N \in Nat, NEW X, NEW x \in X, NEW F \in [(1 .. N) \X X -> X]
  PROVE  \E f : Stepwise(f, N, X, x, F)
<1> DEFINE S == {n \in 0 .. N : \E f : Stepwise(f, n, X, x, F)}
<1>1. 0 \in S
  <2> DEFINE f == [i \in 0 .. 0 |-> x]
  <2>1. Stepwise(f, 0, X, x, F)
    BY DEF Stepwise
  <2> HIDE DEF f
  <2> QED
    BY <2>1
<1>2. ASSUME NEW n \in 1 .. N, n - 1 \in S
      PROVE  n \in S
  <2>1. PICK f : Stepwise(f, n - 1, X, x, F)
    BY <1>2
  <2> DEFINE y == F[<<n, f[n - 1]>>]
             h == [i \in 0 .. n |-> IF i = n THEN y ELSE f[i]]
  <2>2. f[n - 1] \in X /\ y \in X
    <3>1. n - 1 \in 0 .. n - 1
      OBVIOUS
    <3>2. f[n - 1] \in X
      BY <2>1, <3>1 DEF Stepwise
    <3>3. <<n, f[n - 1]>> \in (1 .. N) \X X
      BY <3>2
    <3> QED
      BY <3>2, <3>3
  <2> HIDE DEF y
  <2>3. h \in [0 .. n -> X]
    BY <2>1, <2>2 DEF Stepwise
  <2>4. h[0] = x
    BY <2>1 DEF Stepwise
  <2>5. ASSUME NEW i \in 1 .. n
        PROVE  h[i] = F[<<i, h[i - 1]>>]
    <3>1. h[i - 1] = f[i - 1]
      OBVIOUS
    <3>2. CASE i = n
      <4>1. h[i] = y
        BY <3>2
      <4>2. y = F[<<i, f[i - 1]>>]
        BY <3>2 DEF y
      <4> QED
        BY <3>1, <4>1, <4>2
    <3>3. CASE i # n
      <4>1. i \in 1 .. n - 1
        BY <3>3
      <4>2. h[i] = f[i]
        BY <3>3
      <4> QED
        BY <2>1, <3>1, <4>1, <4>2 DEF Stepwise
    <3> QED
      BY <3>2, <3>3
  <2> HIDE DEF h
  <2>6. Stepwise(h, n, X, x, F)
    BY <2>3, <2>4, <2>5 DEF Stepwise
  <2> QED
    BY <2>6
<1> HIDE DEF S
<1>3. \A n \in 0 .. N : n \in S
  BY <1>1, <1>2, UpTo
<1>4. N \in S
  BY <1>3
<1> QED
  BY <1>4 DEF S

(***************************************************************************)
(* Generator.                                                               *)
(*                                                                         *)
(* The invariant relates each stage to the one before it (Link): what it    *)
(* has given, with what inner has left, is what its operation makes of what *)
(* it was given.  From that and the monotony of Meant, by induction on the  *)
(* stages, each has given a prefix of its stream (LazyIsExact); the stages  *)
(* after pull were given up with theirs and stay so.                        *)
(***************************************************************************)

\* t goes on where s ends.
Extends(s, t) == \E u \in Seq(Int) : t = s \o u

LEMMA ExtendsIsPrefix ==
  ASSUME NEW s \in Seq(Int), NEW t, Extends(s, t)
  PROVE  t \in Seq(Int) /\ IsPrefix(s, t)
<1>1. PICK u \in Seq(Int) : t = s \o u
  BY DEF Extends
<1>2. /\ t \in Seq(Int) /\ Len(t) = Len(s) + Len(u)
      /\ Len(s) \in Nat /\ Len(u) \in Nat
  BY <1>1, ConcatProperties, LenProperties
<1>3. SubSeq(t, 1, Len(s)) = SubSeq(s, 1, Len(s))
  <2>1. CASE Len(s) = 0
    BY <2>1, SubSeqEmpty
  <2>2. CASE Len(s) # 0
    <3>1. 1 \in 1 .. Len(s) /\ Len(s) \in 1 .. Len(s)
      BY <1>2, <2>2
    <3> QED
      BY <1>1, <3>1, SubSeqOfConcat1
  <2> QED
    BY <2>1, <2>2
<1> QED
  BY <1>2, <1>3 DEF IsPrefix

LEMMA ExtendsSelf == ASSUME NEW s \in Seq(Int) PROVE Extends(s, s)
<1>1. <<>> \in Seq(Int) /\ s = s \o <<>>
  BY EmptySeq, ConcatEmptySeq
<1> QED
  BY <1>1 DEF Extends

LEMMA ExtendsBy ==
  ASSUME NEW s \in Seq(Int), NEW t \in Seq(Int), Extends(s, t), NEW u \in Seq(Int)
  PROVE  Extends(s, t \o u)
<1>1. PICK w \in Seq(Int) : t = s \o w
  BY DEF Extends
<1>2. t \o u = s \o (w \o u) /\ w \o u \in Seq(Int)
  <2>1. (s \o w) \o u = s \o (w \o u)
    BY ConcatAssociative, SMTT(30)
  <2>2. w \o u \in Seq(Int)
    BY ConcatProperties
  <2> QED
    BY <1>1, <2>1, <2>2, Zenon
<1> QED
  BY <1>2 DEF Extends

LEMMA ExtendsTrans ==
  ASSUME NEW s \in Seq(Int), NEW t \in Seq(Int), NEW r, Extends(s, t), Extends(t, r)
  PROVE  Extends(s, r)
<1>1. PICK u \in Seq(Int) : r = t \o u
  BY DEF Extends
<1> QED
  BY <1>1, ExtendsBy

LEMMA ConcatEndsExtends ==
  ASSUME NEW s \in Seq(Int), NEW u \in Seq(Int), NEW t \in Seq(Int), Extends(s \o u, t)
  PROVE  Extends(s, t)
<1>1. Extends(s, s \o u) /\ s \o u \in Seq(Int)
  BY ConcatProperties DEF Extends
<1> QED
  BY <1>1, ExtendsTrans

LEMMA ExtendsPoints ==
  ASSUME NEW s \in Seq(Int), NEW t \in Seq(Int), Extends(s, t)
  PROVE  Len(s) <= Len(t) /\ \A i \in 1 .. Len(s) : t[i] = s[i]
<1>1. PICK u \in Seq(Int) : t = s \o u
  BY DEF Extends
<1>2. Len(s) \in Nat /\ Len(u) \in Nat /\ Len(t) = Len(s) + Len(u)
  BY <1>1, ConcatProperties, LenProperties
<1>3. \A i \in 1 .. Len(s) + Len(u) : t[i] = IF i <= Len(s) THEN s[i] ELSE u[i - Len(s)]
  BY <1>1, ConcatProperties
<1> QED
  BY <1>2, <1>3

LEMMA GivesType ==
  ASSUME NEW op, Operation(op), NEW i, NEW v \in Int, Accepts(op, i, v)
  PROVE  Gives(op, v) \in Seq(Int)
<1>1. <<v>> \in Seq(Int)
  OBVIOUS
<1>2. CASE op.name \in {"take", "take_while"}
  BY <1>1, <1>2 DEF Gives
<1>3. CASE op.name = "map"
  <2>1. op.f[v] \in Int
    BY <1>3 DEF Operation, Accepts
  <2>2. <<op.f[v]>> \in Seq(Int)
    BY <2>1
  <2> QED
    BY <1>3, <2>2 DEF Gives
<1>4. CASE op.name = "flat_map"
  <2>1. op.f[v] \in Seq(Int)
    BY <1>4 DEF Operation, Accepts
  <2> QED
    BY <1>4, <2>1 DEF Gives
<1> QED
  BY <1>2, <1>3, <1>4 DEF Operation

\* All of the first i values are accepted, and what the i-th then adds to w.
AllAccepted(op, s, i) == \A j \in 1 .. i : Accepts(op, j, s[j])
Added(op, s, w, i) == IF AllAccepted(op, s, i) THEN w \o Gives(op, s[i]) ELSE w

LEMMA AddedType ==
  ASSUME NEW op, Operation(op), NEW s \in Seq(Int), NEW i \in 1 .. Len(s), NEW w \in Seq(Int)
  PROVE  Added(op, s, w, i) \in Seq(Int)
<1>1. CASE AllAccepted(op, s, i)
  <2>1. s[i] \in Int /\ Len(s) \in Nat
    BY ElementOfSeq, LenProperties
  <2>2. i \in 1 .. i
    BY <2>1
  <2>3. Gives(op, s[i]) \in Seq(Int)
    BY <1>1, <2>1, <2>2, GivesType DEF AllAccepted
  <2> QED
    BY <1>1, <2>3, ConcatProperties DEF Added
<1> QED
  BY <1>1 DEF Added

LEMMA MeantSteps ==
  ASSUME NEW op, Operation(op), NEW s \in Seq(Int)
  PROVE  \E f \in [0 .. Len(s) -> Seq(Int)] :
           /\ f[0] = <<>>
           /\ \A i \in 1 .. Len(s) : f[i] = Added(op, s, f[i - 1], i)
           /\ Meant(op, s) = f[Len(s)]
<1> DEFINE N == Len(s)
           X == Seq(Int)
           x == <<>>
           F == [im \in (1 .. N) \X X |-> Added(op, s, im[2], im[1])]
           meant == CHOOSE f : f = [i \in 0 .. N |-> IF i = 0 THEN x ELSE Added(op, s, f[i - 1], i)]
<1>0. Meant(op, s) = meant[N]
  BY DEF Meant, Added, AllAccepted
<1>1. x \in X /\ N \in Nat
  BY EmptySeq, LenProperties
<1>2. \A i \in 1 .. N, v \in X : Added(op, s, v, i) \in X
  BY AddedType
<1>3. F \in [(1 .. N) \X X -> X]
  BY <1>2
<1>4. \A i \in 1 .. N, v \in X : F[<<i, v>>] = Added(op, s, v, i)
  OBVIOUS
<1> HIDE DEF F, X, N, x, meant
<1>5. PICK f : Stepwise(f, N, X, x, F)
  BY <1>1, <1>3, Iterates
<1>6. ASSUME NEW i \in 0 .. N
      PROVE  f[i] = IF i = 0 THEN x ELSE Added(op, s, f[i - 1], i)
  <2>1. i # 0 => i \in 1 .. N /\ i - 1 \in 0 .. N
    BY <1>1
  <2>2. i # 0 => f[i - 1] \in X
    BY <1>5, <2>1 DEF Stepwise
  <2>3. i # 0 => f[i] = F[<<i, f[i - 1]>>]
    BY <1>5, <2>1 DEF Stepwise
  <2>4. f[0] = x
    BY <1>5 DEF Stepwise
  <2> QED
    BY <1>4, <2>1, <2>2, <2>3, <2>4
<1>7. f = [i \in 0 .. N |-> IF i = 0 THEN x ELSE Added(op, s, f[i - 1], i)]
  <2>1. f = [i \in 0 .. N |-> f[i]]
    BY <1>5 DEF Stepwise
  <2> QED
    BY <1>6, <2>1
<1>8. meant = [i \in 0 .. N |-> IF i = 0 THEN x ELSE Added(op, s, meant[i - 1], i)]
  BY <1>7 DEF meant
<1>9. meant[0] = x /\ \A i \in 1 .. N : meant[i] = Added(op, s, meant[i - 1], i)
  BY <1>1, <1>8
<1> DEFINE S == {i \in 0 .. N : meant[i] \in X}
<1>10. 0 \in S
  BY <1>1, <1>9
<1>11. ASSUME NEW i \in 1 .. N, i - 1 \in S
       PROVE  i \in S
  BY <1>1, <1>2, <1>9, <1>11
<1> HIDE DEF S
<1>12. \A i \in 0 .. N : i \in S
  BY <1>1, <1>10, <1>11, UpTo
<1>13. \A i \in 0 .. N : meant[i] \in X
  BY <1>12 DEF S
<1>14. meant \in [0 .. N -> X]
  BY <1>8, <1>13
<1> QED
  BY <1>0, <1>9, <1>14 DEF X, N, x

\* The operations of a pipeline.
Piped(ops) ==
  /\ Len(ops) \in Nat \ {0} /\ ops[1].list \in Seq(Int)
  /\ \A k \in 2 .. Len(ops) : Operation(ops[k])

LEMMA MeantType ==
  ASSUME NEW op, Operation(op), NEW s \in Seq(Int)
  PROVE  Meant(op, s) \in Seq(Int)
<1>1. Len(s) \in 0 .. Len(s)
  BY LenProperties
<1> QED
  BY <1>1, MeantSteps

LEMMA StreamSteps ==
  ASSUME NEW ops, Piped(ops)
  PROVE  \E f \in [0 .. Len(ops) -> Seq(Int)] :
           /\ f[0] = <<>>
           /\ \A i \in 1 .. Len(ops) :
                f[i] = IF i = 1 THEN ops[1].list ELSE Meant(ops[i], f[i - 1])
           /\ \A i \in 0 .. Len(ops) : Stream(ops, i) = f[i]
<1> DEFINE N == Len(ops)
           X == Seq(Int)
           x == <<>>
           F == [im \in (1 .. N) \X X |-> (IF im[1] = 1 THEN ops[1].list ELSE Meant(ops[im[1]], im[2]))]
           stream == CHOOSE f : f = [i \in 0 .. N |-> IF i = 0 THEN x ELSE (IF i = 1 THEN ops[1].list ELSE Meant(ops[i], f[i - 1]))]
<1>0. \A i \in 0 .. N : Stream(ops, i) = stream[i]
  BY DEF Stream
<1>1. x \in X /\ N \in Nat
  BY EmptySeq DEF Piped
<1>2. \A i \in 1 .. N, v \in X : (IF i = 1 THEN ops[1].list ELSE Meant(ops[i], v)) \in X
  BY MeantType DEF Piped
<1>3. F \in [(1 .. N) \X X -> X]
  BY <1>2
<1>4. \A i \in 1 .. N, v \in X : F[<<i, v>>] = (IF i = 1 THEN ops[1].list ELSE Meant(ops[i], v))
  OBVIOUS
<1> HIDE DEF F, X, N, x, stream
<1>5. PICK f : Stepwise(f, N, X, x, F)
  BY <1>1, <1>3, Iterates
<1>6. ASSUME NEW i \in 0 .. N
      PROVE  f[i] = IF i = 0 THEN x ELSE (IF i = 1 THEN ops[1].list ELSE Meant(ops[i], f[i - 1]))
  <2>1. i # 0 => i \in 1 .. N /\ i - 1 \in 0 .. N
    BY <1>1
  <2>2. i # 0 => f[i - 1] \in X
    BY <1>5, <2>1 DEF Stepwise
  <2>3. i # 0 => f[i] = F[<<i, f[i - 1]>>]
    BY <1>5, <2>1 DEF Stepwise
  <2>4. f[0] = x
    BY <1>5 DEF Stepwise
  <2> QED
    BY <1>4, <2>1, <2>2, <2>3, <2>4
<1>7. f = [i \in 0 .. N |-> IF i = 0 THEN x ELSE (IF i = 1 THEN ops[1].list ELSE Meant(ops[i], f[i - 1]))]
  <2>1. f = [i \in 0 .. N |-> f[i]]
    BY <1>5 DEF Stepwise
  <2> QED
    BY <1>6, <2>1
<1>8. stream = [i \in 0 .. N |-> IF i = 0 THEN x ELSE (IF i = 1 THEN ops[1].list ELSE Meant(ops[i], stream[i - 1]))]
  BY <1>7 DEF stream
<1>9. stream[0] = x /\ \A i \in 1 .. N : stream[i] = (IF i = 1 THEN ops[1].list ELSE Meant(ops[i], stream[i - 1]))
  BY <1>1, <1>8
<1> DEFINE S == {i \in 0 .. N : stream[i] \in X}
<1>10. 0 \in S
  BY <1>1, <1>9
<1>11. ASSUME NEW i \in 1 .. N, i - 1 \in S
       PROVE  i \in S
  BY <1>1, <1>2, <1>9, <1>11
<1> HIDE DEF S
<1>12. \A i \in 0 .. N : i \in S
  BY <1>1, <1>10, <1>11, UpTo
<1>13. \A i \in 0 .. N : stream[i] \in X
  BY <1>12 DEF S
<1>14. stream \in [0 .. N -> X]
  BY <1>8, <1>13
<1> QED
  BY <1>0, <1>9, <1>14 DEF X, N, x

LEMMA StreamIs ==
  ASSUME NEW ops, Piped(ops)
  PROVE  /\ Stream(ops, 1) = ops[1].list
         /\ \A k \in 2 .. Len(ops) : Stream(ops, k) = Meant(ops[k], Stream(ops, k - 1))
         /\ \A k \in 1 .. Len(ops) : Stream(ops, k) \in Seq(Int)
<1>1. PICK f \in [0 .. Len(ops) -> Seq(Int)] :
        /\ f[0] = <<>>
        /\ \A i \in 1 .. Len(ops) :
             f[i] = IF i = 1 THEN ops[1].list ELSE Meant(ops[i], f[i - 1])
        /\ \A i \in 0 .. Len(ops) : Stream(ops, i) = f[i]
  BY StreamSteps
<1>2. Len(ops) \in Nat \ {0}
  BY DEF Piped
<1>3. Stream(ops, 1) = ops[1].list
  <2>1. 1 \in 1 .. Len(ops) /\ 1 \in 0 .. Len(ops)
    BY <1>2
  <2> QED
    BY <1>1, <2>1
<1>4. ASSUME NEW k \in 2 .. Len(ops)
      PROVE  Stream(ops, k) = Meant(ops[k], Stream(ops, k - 1))
  <2>1. k \in 1 .. Len(ops) /\ k \in 0 .. Len(ops) /\ k - 1 \in 0 .. Len(ops) /\ k # 1
    BY <1>2
  <2> QED
    BY <1>1, <2>1
<1>5. ASSUME NEW k \in 1 .. Len(ops)
      PROVE  Stream(ops, k) \in Seq(Int)
  <2>1. k \in 0 .. Len(ops)
    BY <1>2
  <2> QED
    BY <1>1, <2>1
<1> QED
  BY <1>3, <1>4, <1>5

\* After the first values of a sequence the operation stands where they alone lead it.
LEMMA MeantAgrees ==
  ASSUME NEW op, Operation(op), NEW s \in Seq(Int), NEW t \in Seq(Int), Extends(s, t)
  PROVE  \E f \in [0 .. Len(t) -> Seq(Int)] :
           /\ f[Len(s)] = Meant(op, s) /\ f[Len(t)] = Meant(op, t)
           /\ Len(s) \in 0 .. Len(t)
           /\ \A i \in 1 .. Len(t) : f[i] = Added(op, t, f[i - 1], i)
<1>1. PICK m \in [0 .. Len(s) -> Seq(Int)] :
        /\ m[0] = <<>>
        /\ \A i \in 1 .. Len(s) : m[i] = Added(op, s, m[i - 1], i)
        /\ Meant(op, s) = m[Len(s)]
  BY MeantSteps
<1>2. PICK w \in [0 .. Len(t) -> Seq(Int)] :
        /\ w[0] = <<>>
        /\ \A i \in 1 .. Len(t) : w[i] = Added(op, t, w[i - 1], i)
        /\ Meant(op, t) = w[Len(t)]
  BY MeantSteps
<1>3. /\ Len(s) \in Nat /\ Len(t) \in Nat /\ Len(s) <= Len(t)
      /\ \A i \in 1 .. Len(s) : t[i] = s[i]
  BY ExtendsPoints, LenProperties
<1> DEFINE S == {i \in 0 .. Len(s) : w[i] = m[i]}
<1>4. 0 \in S
  BY <1>1, <1>2, <1>3
<1>5. ASSUME NEW i \in 1 .. Len(s), i - 1 \in S
      PROVE  i \in S
  <2>1. i \in 1 .. Len(t) /\ \A j \in 1 .. i : t[j] = s[j]
    BY <1>3
  <2>2. AllAccepted(op, s, i) <=> AllAccepted(op, t, i)
    BY <2>1 DEF AllAccepted
  <2>3. t[i] = s[i]
    BY <1>3
  <2>4. w[i - 1] = m[i - 1]
    BY <1>5
  <2>5. Added(op, t, w[i - 1], i) = Added(op, s, m[i - 1], i)
    BY <2>2, <2>3, <2>4 DEF Added
  <2>6. w[i] = m[i]
    BY <1>1, <1>2, <2>1, <2>5
  <2> QED
    BY <1>3, <2>6
<1> HIDE DEF S
<1>6. \A i \in 0 .. Len(s) : i \in S
  BY <1>3, <1>4, <1>5, UpTo
<1>7. w[Len(s)] = Meant(op, s)
  <2>1. Len(s) \in 0 .. Len(s)
    BY <1>3
  <2>2. w[Len(s)] = m[Len(s)]
    BY <1>6, <2>1 DEF S
  <2> QED
    BY <1>1, <2>2
<1>8. Len(s) \in 0 .. Len(t)
  BY <1>3
<1> QED
  BY <1>2, <1>7, <1>8

\* After a value that is not accepted, or n of them, an operation makes nothing more.
Closed(op, s) ==
  \/ \E j \in 1 .. Len(s) : ~ Accepts(op, j, s[j])
  \/ op.name = "take" /\ op.n <= Len(s)

LEMMA MeantExtends ==
  ASSUME NEW op, Operation(op), NEW s \in Seq(Int), NEW t \in Seq(Int), Extends(s, t)
  PROVE  /\ Extends(Meant(op, s), Meant(op, t))
         /\ Closed(op, s) => Meant(op, t) = Meant(op, s)
<1>1. PICK f \in [0 .. Len(t) -> Seq(Int)] :
        /\ f[Len(s)] = Meant(op, s) /\ f[Len(t)] = Meant(op, t)
        /\ Len(s) \in 0 .. Len(t)
        /\ \A i \in 1 .. Len(t) : f[i] = Added(op, t, f[i - 1], i)
  BY MeantAgrees
<1>2. /\ Len(s) \in Nat /\ Len(t) \in Nat /\ Len(s) <= Len(t)
      /\ \A i \in 1 .. Len(s) : t[i] = s[i]
  BY ExtendsPoints, LenProperties
<1> DEFINE m == f[Len(s)]
           S == {i \in 0 .. Len(t) : i >= Len(s) => Extends(m, f[i]) /\ (Closed(op, s) => f[i] = m)}
<1>3. m \in Seq(Int)
  BY <1>1
<1>4. 0 \in S
  <2>1. 0 >= Len(s) => Len(s) = 0
    BY <1>2
  <2>2. 0 >= Len(s) => f[0] = m
    BY <2>1
  <2> HIDE DEF m
  <2> QED
    BY <1>2, <1>3, <2>2, ExtendsSelf
<1>5. ASSUME NEW i \in 1 .. Len(t), i - 1 \in S
      PROVE  i \in S
  <2>1. CASE i < Len(s)
    BY <1>2, <2>1
  <2>2. CASE i = Len(s)
    <3>1. f[i] = m
      BY <2>2
    <3> HIDE DEF m
    <3> QED
      BY <1>2, <1>3, <3>1, ExtendsSelf
  <2>3. CASE i > Len(s)
    <3>0. i - 1 \in 0 .. Len(t) /\ i - 1 >= Len(s) /\ i \in 0 .. Len(t)
      BY <1>2, <2>3
    <3>1. Extends(m, f[i - 1]) /\ (Closed(op, s) => f[i - 1] = m)
      BY <1>5, <3>0
    <3>2. f[i] = Added(op, t, f[i - 1], i) /\ f[i - 1] \in Seq(Int)
      BY <1>1, <3>0
    <3>3. t[i] \in Int /\ i \in 1 .. i
      BY <1>2, ElementOfSeq
    <3> HIDE DEF m
    <3>4. Extends(m, f[i])
      <4>1. CASE AllAccepted(op, t, i)
        <5>1. Gives(op, t[i]) \in Seq(Int)
          BY <3>3, <4>1, GivesType DEF AllAccepted
        <5>2. f[i] = f[i - 1] \o Gives(op, t[i])
          BY <3>2, <4>1 DEF Added
        <5> QED
          BY <1>3, <3>1, <3>2, <5>1, <5>2, ExtendsBy
      <4>2. CASE ~ AllAccepted(op, t, i)
        BY <3>1, <3>2, <4>2 DEF Added
      <4> QED
        BY <4>1, <4>2
    <3>5. ASSUME Closed(op, s)
          PROVE  f[i] = m
      <4>1. ~ AllAccepted(op, t, i)
        <5>1. CASE \E j \in 1 .. Len(s) : ~ Accepts(op, j, s[j])
          <6>1. PICK j \in 1 .. Len(s) : ~ Accepts(op, j, s[j])
            BY <5>1
          <6>2. t[j] = s[j] /\ j \in 1 .. i
            BY <1>2, <2>3
          <6> QED
            BY <6>1, <6>2 DEF AllAccepted
        <5>2. CASE op.name = "take" /\ op.n <= Len(s)
          <6>1. op.n \in Int
            BY <5>2 DEF Operation
          <6>2. ~ Accepts(op, i, t[i])
            BY <1>2, <2>3, <5>2, <6>1 DEF Accepts
          <6> QED
            BY <3>3, <6>2 DEF AllAccepted
        <5> QED
          BY <3>5, <5>1, <5>2 DEF Closed
      <4> QED
        BY <3>1, <3>2, <3>5, <4>1 DEF Added
    <3> QED
      BY <3>0, <3>4, <3>5
  <2> QED
    BY <1>2, <2>1, <2>2, <2>3
<1> HIDE DEF S
<1>6. \A i \in 0 .. Len(t) : i \in S
  BY <1>2, <1>4, <1>5, UpTo
<1>7. Len(t) \in S
  BY <1>2, <1>6
<1>8. Extends(m, f[Len(t)]) /\ (Closed(op, s) => f[Len(t)] = m)
  BY <1>2, <1>7 DEF S
<1> QED
  BY <1>1, <1>8

LEMMA MeantEmpty == ASSUME NEW op, Operation(op) PROVE Meant(op, <<>>) = <<>>
<1> DEFINE s == <<>>
<1>1. s \in Seq(Int) /\ Len(s) = 0
  BY EmptySeq
<1> HIDE DEF s
<1>2. PICK f \in [0 .. Len(s) -> Seq(Int)] :
        /\ f[0] = <<>>
        /\ \A i \in 1 .. Len(s) : f[i] = Added(op, s, f[i - 1], i)
        /\ Meant(op, s) = f[Len(s)]
  BY <1>1, MeantSteps
<1>3. Meant(op, s) = <<>>
  BY <1>1, <1>2
<1> QED
  BY <1>3 DEF s

\* One more value of the source.
LEMMA MeantAppend ==
  ASSUME NEW op, Operation(op), NEW s \in Seq(Int), NEW v \in Int,
         \A j \in 1 .. Len(s) : Accepts(op, j, s[j])
  PROVE  /\ Append(s, v) \in Seq(Int) /\ Len(Append(s, v)) = Len(s) + 1
         /\ Accepts(op, Len(s) + 1, v) =>
              /\ Meant(op, Append(s, v)) = Meant(op, s) \o Gives(op, v)
              /\ \A j \in 1 .. Len(s) + 1 : Accepts(op, j, Append(s, v)[j])
         /\ ~ Accepts(op, Len(s) + 1, v) =>
              Meant(op, Append(s, v)) = Meant(op, s) /\ Closed(op, Append(s, v))
<1> DEFINE t == Append(s, v)
           n == Len(s) + 1
<1>1. /\ t \in Seq(Int) /\ Len(t) = n /\ Len(s) \in Nat
      /\ t = s \o <<v>> /\ <<v>> \in Seq(Int)
      /\ \A i \in 1 .. Len(s) : t[i] = s[i]
      /\ t[n] = v
  BY AppendProperties, AppendIsConcat, LenProperties
<1> HIDE DEF t, n
<1>2. Extends(s, t)
  BY <1>1 DEF Extends
<1>3. PICK f \in [0 .. Len(t) -> Seq(Int)] :
        /\ f[Len(s)] = Meant(op, s) /\ f[Len(t)] = Meant(op, t)
        /\ \A i \in 1 .. Len(t) : f[i] = Added(op, t, f[i - 1], i)
  <2>0. t \in Seq(Int)
    BY <1>1
  <2>1. \E f \in [0 .. Len(t) -> Seq(Int)] :
          /\ f[Len(s)] = Meant(op, s) /\ f[Len(t)] = Meant(op, t)
          /\ Len(s) \in 0 .. Len(t)
          /\ \A i \in 1 .. Len(t) : f[i] = Added(op, t, f[i - 1], i)
    BY <1>2, <2>0, MeantAgrees
  <2> QED
    BY <2>1
<1>4. n \in 1 .. Len(t) /\ n - 1 = Len(s) /\ n = Len(s) + 1
  BY <1>1 DEF n
<1>5. Meant(op, t) = Added(op, t, Meant(op, s), n)
  BY <1>1, <1>3, <1>4
<1>6. ASSUME NEW j \in 1 .. n, Accepts(op, n, v)
      PROVE  Accepts(op, j, t[j])
  <2>1. CASE j = n
    BY <1>1, <1>6, <2>1
  <2>2. CASE j # n
    <3>1. j \in 1 .. Len(s)
      BY <1>1, <1>4, <2>2
    <3> QED
      BY <1>1, <3>1
  <2> QED
    BY <2>1, <2>2
<1>7. AllAccepted(op, t, n) <=> Accepts(op, n, v)
  <2>1. n \in 1 .. n
    BY <1>1, <1>4
  <2> QED
    BY <1>1, <1>6, <2>1 DEF AllAccepted
<1>8. ~ Accepts(op, n, v) => Closed(op, t)
  BY <1>1, <1>4 DEF Closed
<1>9. Accepts(op, n, v) => Meant(op, t) = Meant(op, s) \o Gives(op, v)
  BY <1>1, <1>5, <1>7 DEF Added
<1>10. ~ Accepts(op, n, v) => Meant(op, t) = Meant(op, s)
  BY <1>5, <1>7 DEF Added
<1> QED
  BY <1>1, <1>6, <1>8, <1>9, <1>10 DEF t, n

\* take makes one value of each it is given.
LEMMA TakeKeeps ==
  ASSUME NEW op, Operation(op), op.name = "take", NEW s \in Seq(Int),
         \A j \in 1 .. Len(s) : Accepts(op, j, s[j])
  PROVE  Len(Meant(op, s)) = Len(s)
<1>1. PICK f \in [0 .. Len(s) -> Seq(Int)] :
        /\ f[0] = <<>>
        /\ \A i \in 1 .. Len(s) : f[i] = Added(op, s, f[i - 1], i)
        /\ Meant(op, s) = f[Len(s)]
  BY MeantSteps
<1>2. Len(s) \in Nat
  BY LenProperties
<1> DEFINE S == {i \in 0 .. Len(s) : Len(f[i]) = i}
<1>3. 0 \in S
  BY <1>1, <1>2, EmptySeq
<1>4. ASSUME NEW i \in 1 .. Len(s), i - 1 \in S
      PROVE  i \in S
  <2>0. i - 1 \in 0 .. Len(s)
    BY <1>2
  <2>1. f[i - 1] \in Seq(Int) /\ s[i] \in Int
    <3>1. f[i - 1] \in Seq(Int)
      BY <1>1, <2>0
    <3> QED
      BY <3>1, ElementOfSeq
  <2>2. AllAccepted(op, s, i)
    BY <1>2 DEF AllAccepted
  <2>3. f[i] = f[i - 1] \o <<s[i]>>
    BY <1>1, <2>2 DEF Added, Gives
  <2>4. <<s[i]>> \in Seq(Int) /\ Len(<<s[i]>>) = 1
    BY <2>1
  <2>5. Len(f[i]) = Len(f[i - 1]) + 1
    BY <2>1, <2>3, <2>4, ConcatProperties
  <2> QED
    BY <1>2, <1>4, <2>5
<1> HIDE DEF S
<1>5. \A i \in 0 .. Len(s) : i \in S
  BY <1>2, <1>3, <1>4, UpTo
<1> QED
  BY <1>1, <1>2, <1>5 DEF S

------------------------------------------------------------------------------
(* The stages of a pipeline.                                                *)

FromOps == {[name |-> "from", list |-> s] : s \in Sources}
AllOps == FromOps \cup UNION {{ops[k] : k \in DOMAIN ops} : ops \in Pipelines}
Stages ==
  [op : AllOps, ready : BOOLEAN, done : BOOLEAN, value : Int, i : Nat, inner : Seq(Int), out : Seq(Int)]

\* What a stage's body and the one who fetches its value make of it.
Set(p, k, s) == [p EXCEPT ![k] = s]
Yielded(p, k, v) == [p EXCEPT ![k].value = v, ![k].ready = TRUE]
Finished(p, k) == [p EXCEPT ![k].done = TRUE]
Counted(p, k) == [p EXCEPT ![k].i = @ + 1]
Filled(p, k, u) == [p EXCEPT ![k].inner = u]

\* q is p but for stage k, which keeps op.
Changes(p, q, k) ==
  /\ q \in Seq(Stages) /\ Len(q) = Len(p)
  /\ \A j \in 1 .. Len(p) : j # k => q[j] = p[j]
  /\ q[k].op = p[k].op

LEMMA SetChanges ==
  ASSUME NEW p \in Seq(Stages), NEW k \in 1 .. Len(p), NEW s \in Stages, s.op = p[k].op
  PROVE  Changes(p, Set(p, k, s), k) /\ Set(p, k, s)[k] = s
<1>1. Len(p) \in Nat /\ DOMAIN p = 1 .. Len(p)
  BY LenProperties
<1>2. Set(p, k, s) \in Seq(Stages) /\ Len(Set(p, k, s)) = Len(p)
  BY ExceptSeq DEF Set
<1>3. Set(p, k, s)[k] = s /\ \A j \in 1 .. Len(p) : j # k => Set(p, k, s)[j] = p[j]
  BY <1>1 DEF Set
<1> QED
  BY <1>2, <1>3 DEF Changes

IsFetched(p, q, k) ==
  /\ Changes(p, q, k)
  /\ q[k].ready = FALSE /\ q[k].out = Append(p[k].out, p[k].value)
  /\ q[k].done = p[k].done /\ q[k].value = p[k].value
  /\ q[k].i = p[k].i /\ q[k].inner = p[k].inner

LEMMA FetchedIs ==
  ASSUME NEW p \in Seq(Stages), NEW k \in 1 .. Len(p)
  PROVE  IsFetched(p, Fetched(p, k), k)
<1> DEFINE t == [p[k] EXCEPT !.ready = FALSE, !.out = Append(@, p[k].value)]
<1>1. p[k] \in Stages
  BY ElementOfSeq
<1>2. Append(p[k].out, p[k].value) \in Seq(Int)
  BY <1>1, AppendProperties DEF Stages
<1>3. /\ t \in Stages /\ t.op = p[k].op
      /\ t.ready = FALSE /\ t.out = Append(p[k].out, p[k].value)
      /\ t.done = p[k].done /\ t.value = p[k].value /\ t.i = p[k].i /\ t.inner = p[k].inner
  BY <1>1, <1>2 DEF Stages
<1>4. Fetched(p, k) = Set(p, k, t)
  BY <1>1 DEF Fetched, Set, Stages
<1> HIDE DEF t
<1>5. Changes(p, Set(p, k, t), k) /\ Set(p, k, t)[k] = t
  BY <1>3, SetChanges
<1> QED
  BY <1>3, <1>4, <1>5 DEF IsFetched

IsYielded(p, q, k, v) ==
  /\ Changes(p, q, k)
  /\ q[k].ready = TRUE /\ q[k].value = v
  /\ q[k].done = p[k].done /\ q[k].out = p[k].out
  /\ q[k].i = p[k].i /\ q[k].inner = p[k].inner

LEMMA YieldedIs ==
  ASSUME NEW p \in Seq(Stages), NEW k \in 1 .. Len(p), NEW v \in Int
  PROVE  IsYielded(p, Yielded(p, k, v), k, v)
<1> DEFINE t == [p[k] EXCEPT !.value = v, !.ready = TRUE]
<1>1. p[k] \in Stages
  BY ElementOfSeq
<1>3. /\ t \in Stages /\ t.op = p[k].op
      /\ t.ready = TRUE /\ t.value = v
      /\ t.done = p[k].done /\ t.out = p[k].out /\ t.i = p[k].i /\ t.inner = p[k].inner
  BY <1>1 DEF Stages
<1>4. Yielded(p, k, v) = Set(p, k, t)
  BY <1>1 DEF Yielded, Set, Stages
<1> HIDE DEF t
<1>5. Changes(p, Set(p, k, t), k) /\ Set(p, k, t)[k] = t
  BY <1>3, SetChanges
<1> QED
  BY <1>3, <1>4, <1>5 DEF IsYielded

LEMMA FinishedIs ==
  ASSUME NEW p \in Seq(Stages), NEW k \in 1 .. Len(p),
         NEW q, q = Finished(p, k)
  PROVE  /\ Changes(p, q, k)
         /\ q[k].done = TRUE
         /\ q[k].ready = p[k].ready /\ q[k].value = p[k].value /\ q[k].out = p[k].out
         /\ q[k].i = p[k].i /\ q[k].inner = p[k].inner
<1> DEFINE t == [p[k] EXCEPT !.done = TRUE]
<1>1. p[k] \in Stages
  BY ElementOfSeq
<1>3. /\ t \in Stages /\ t.op = p[k].op
      /\ t.done = TRUE
      /\ t.ready = p[k].ready /\ t.value = p[k].value /\ t.out = p[k].out
      /\ t.i = p[k].i /\ t.inner = p[k].inner
  BY <1>1 DEF Stages
<1>4. q = Set(p, k, t)
  BY <1>1 DEF Finished, Set, Stages
<1> HIDE DEF t
<1>5. Changes(p, Set(p, k, t), k) /\ Set(p, k, t)[k] = t
  BY <1>3, SetChanges
<1> QED
  BY <1>3, <1>4, <1>5

LEMMA CountedIs ==
  ASSUME NEW p \in Seq(Stages), NEW k \in 1 .. Len(p),
         NEW q, q = Counted(p, k)
  PROVE  /\ Changes(p, q, k)
         /\ q[k].i = p[k].i + 1
         /\ q[k].ready = p[k].ready /\ q[k].value = p[k].value /\ q[k].out = p[k].out
         /\ q[k].done = p[k].done /\ q[k].inner = p[k].inner
<1> DEFINE n == p[k].i + 1
           t == [p[k] EXCEPT !.i = n]
<1>1. p[k] \in Stages
  BY ElementOfSeq
<1>2. n \in Nat
  BY <1>1 DEF Stages
<1> HIDE DEF n
<1>3. /\ t \in Stages /\ t.op = p[k].op
      /\ t.i = n
      /\ t.ready = p[k].ready /\ t.value = p[k].value /\ t.out = p[k].out
      /\ t.done = p[k].done /\ t.inner = p[k].inner
  BY <1>1, <1>2 DEF Stages
<1>4. q = Set(p, k, t)
  BY <1>1 DEF Counted, Set, Stages, n
<1> HIDE DEF t
<1>5. Changes(p, Set(p, k, t), k) /\ Set(p, k, t)[k] = t
  BY <1>3, SetChanges
<1> QED
  BY <1>3, <1>4, <1>5 DEF n

IsFilled(p, q, k, u) ==
  /\ Changes(p, q, k)
  /\ q[k].inner = u
  /\ q[k].ready = p[k].ready /\ q[k].value = p[k].value /\ q[k].out = p[k].out
  /\ q[k].done = p[k].done /\ q[k].i = p[k].i

LEMMA FilledIs ==
  ASSUME NEW p \in Seq(Stages), NEW k \in 1 .. Len(p), NEW u \in Seq(Int)
  PROVE  IsFilled(p, Filled(p, k, u), k, u)
<1> DEFINE t == [p[k] EXCEPT !.inner = u]
<1>1. p[k] \in Stages
  BY ElementOfSeq
<1>3. /\ t \in Stages /\ t.op = p[k].op
      /\ t.inner = u
      /\ t.ready = p[k].ready /\ t.value = p[k].value /\ t.out = p[k].out
      /\ t.done = p[k].done /\ t.i = p[k].i
  BY <1>1 DEF Stages
<1>4. Filled(p, k, u) = Set(p, k, t)
  BY <1>1 DEF Filled, Set, Stages
<1> HIDE DEF t
<1>5. Changes(p, Set(p, k, t), k) /\ Set(p, k, t)[k] = t
  BY <1>3, SetChanges
<1> QED
  BY <1>3, <1>4, <1>5 DEF IsFilled

LEMMA GivenIs ==
  ASSUME NEW s \in Stages
  PROVE  /\ Given(s) \in Seq(Int)
         /\ s.ready => Given(s) = Append(s.out, s.value)
         /\ ~ s.ready => Given(s) = s.out
<1>1. s.out \in Seq(Int) /\ s.value \in Int /\ s.ready \in BOOLEAN
  BY DEF Stages
<1>2. CASE s.ready
  <2>1. Given(s) = s.out \o <<s.value>>
    BY <1>2 DEF Given
  <2>2. Append(s.out, s.value) = s.out \o <<s.value>>
    BY <1>1, AppendIsConcat
  <2>3. Append(s.out, s.value) \in Seq(Int)
    BY <1>1, AppendProperties
  <2> QED
    BY <1>2, <2>1, <2>2, <2>3
<1>3. CASE ~ s.ready
  <2>1. Given(s) = s.out \o <<>>
    BY <1>3 DEF Given
  <2>2. s.out \o <<>> = s.out
    BY <1>1, ConcatEmptySeq
  <2> QED
    BY <1>1, <1>3, <2>1, <2>2
<1> QED
  BY <1>2, <1>3

------------------------------------------------------------------------------
(* A stage and the one before it.                                           *)

\* s has given what its operation makes of the values it was given, but for what inner has
\* left; w, it waits for another.
Link(p, s, w) ==
  /\ Given(s) \o s.inner = Meant(s.op, p.out)
  /\ ~ s.done \/ s.op.name = "take" => AllAccepted(s.op, p.out, Len(p.out))
  /\ s.op.name = "take" /\ ~ s.done => s.i = Len(p.out) + (IF w THEN 1 ELSE 0)
  /\ s.op.name = "take" /\ ~ s.done /\ w => Len(p.out) < s.op.n
  /\ s.inner # <<>> => s.op.name = "flat_map" /\ ~ w /\ ~ s.done
  /\ s.done => Closed(s.op, p.out) \/ p.done

\* What a stage is to the next.
Alike(s, t) ==
  t.op = s.op /\ t.i = s.i /\ t.inner = s.inner /\ t.done = s.done /\ Given(t) = Given(s)

LEMMA LinkKept ==
  ASSUME NEW p, NEW s, NEW p2, NEW s2, NEW w, Link(p, s, w),
         Alike(s, s2), p2.out = p.out, p.done => p2.done
  PROVE  Link(p2, s2, w)
  BY DEF Link, Alike

\* The coroutine asks for a value.
LEMMA LinkAsks ==
  ASSUME NEW p \in Stages, NEW s \in Stages, NEW s2 \in Stages, Operation(s.op),
         Link(p, s, FALSE), ~ s.done, s.inner = <<>>, s2.op = s.op, s2.done = s.done,
         s2.inner = s.inner, Given(s2) = Given(s),
         s.op.name = "take" => s.i < s.op.n /\ s2.i = s.i + 1
  PROVE  Link(p, s2, TRUE)
<1>1. p.out \in Seq(Int) /\ s.i \in Nat /\ Len(p.out) \in Nat
  BY LenProperties DEF Stages
<1>2. s.op.name = "take" => s.i = Len(p.out) /\ s.op.n \in Int
  BY <1>1 DEF Link, Operation
<1> QED
  BY <1>1, <1>2 DEF Link

\* Its source has no more.
LEMMA LinkExhausts ==
  ASSUME NEW p \in Stages, NEW s \in Stages, NEW s2 \in Stages, Link(p, s, TRUE), p.done,
         s2.op = s.op, s2.done, s2.inner = s.inner, Given(s2) = Given(s), ~ s.done
  PROVE  Link(p, s2, FALSE)
<1>1. s.inner = <<>>
  BY DEF Link
<1> QED
  BY <1>1 DEF Link

\* take has given n values.
LEMMA LinkCounted ==
  ASSUME NEW p \in Stages, NEW s \in Stages, NEW s2 \in Stages, Operation(s.op),
         Link(p, s, FALSE), ~ s.done, s.op.name = "take", s.i >= s.op.n,
         s2.op = s.op, s2.done, s2.inner = s.inner, Given(s2) = Given(s)
  PROVE  Link(p, s2, FALSE)
<1>1. p.out \in Seq(Int) /\ s.i \in Nat /\ Len(p.out) \in Nat
  BY LenProperties DEF Stages
<1>2. s.i = Len(p.out) /\ s.op.n \in Int /\ s.inner = <<>>
  BY <1>1 DEF Link, Operation
<1>3. Closed(s.op, p.out)
  BY <1>1, <1>2 DEF Closed
<1> QED
  BY <1>2, <1>3 DEF Link

\* inner gives the next of its values.
LEMMA LinkPoured ==
  ASSUME NEW p \in Stages, NEW s \in Stages, NEW s2 \in Stages, Link(p, s, FALSE),
         s.inner # <<>>, s2.op = s.op, s2.done = s.done, s2.inner = Tail(s.inner),
         s2.out = s.out, ~ s.ready, s2.ready, s2.value = Head(s.inner)
  PROVE  Link(p, s2, FALSE)
<1>1. s.inner \in Seq(Int) /\ s.out \in Seq(Int)
  BY DEF Stages
<1>2. /\ Head(s.inner) \in Int /\ Tail(s.inner) \in Seq(Int)
      /\ s.inner = <<Head(s.inner)>> \o Tail(s.inner)
  <2>1. Head(s.inner) \in Int /\ Tail(s.inner) \in Seq(Int)
    BY <1>1, HeadTailProperties
  <2> DEFINE t == <<Head(s.inner)>> \o Tail(s.inner)
             h == Head(s.inner)
             r == Tail(s.inner)
  <2>2. <<h>> \in Seq(Int) /\ Len(<<h>>) = 1 /\ <<h>>[1] = h
    BY <2>1
  <2>3. /\ t \in Seq(Int) /\ Len(t) = 1 + Len(r)
        /\ \A i \in 1 .. 1 + Len(r) : t[i] = IF i <= 1 THEN h ELSE r[i - 1]
    <3> HIDE DEF h, r
    <3>1. <<h>> \o r \in Seq(Int) /\ Len(<<h>> \o r) = Len(<<h>>) + Len(r)
      BY <2>1, <2>2, ConcatProperties DEF h, r
    <3>2. \A i \in 1 .. Len(<<h>>) + Len(r) : (<<h>> \o r)[i] = IF i <= Len(<<h>>) THEN <<h>>[i] ELSE r[i - Len(<<h>>)]
      BY <2>1, <2>2, ConcatProperties DEF h, r
    <3>3. t = <<h>> \o r
      BY DEF t, h, r
    <3>4. r \in Seq(Int) /\ Len(r) \in Nat
      BY <2>1, LenProperties DEF r
    <3>5. ASSUME NEW i \in 1 .. 1 + Len(r)
          PROVE  t[i] = IF i <= 1 THEN h ELSE r[i - 1]
      BY <2>2, <3>2, <3>3, <3>4
    <3> QED
      BY <2>2, <3>1, <3>3, <3>5
  <2>4. /\ Len(s.inner) \in Nat \ {0} /\ Len(r) = Len(s.inner) - 1 /\ h = s.inner[1]
        /\ \A i \in 1 .. Len(r) : r[i] = s.inner[i + 1]
    BY <1>1, HeadTailProperties, EmptySeq, LenProperties
  <2> HIDE DEF h, r, t
  <2>5. ASSUME NEW i \in 1 .. Len(s.inner)
        PROVE  s.inner[i] = t[i]
    BY <2>3, <2>4
  <2>6. s.inner = t
    BY <1>1, <2>3, <2>4, <2>5, SeqEqual
  <2> QED
    BY <2>1, <2>6 DEF t
<1>3. Given(s) = s.out /\ Given(s2) = Append(s.out, Head(s.inner))
  BY GivenIs
<1>4. Append(s.out, Head(s.inner)) = s.out \o <<Head(s.inner)>>
  <2>1. Head(s.inner) \in Int
    BY <1>2
  <2> QED
    BY <1>1, <2>1, AppendIsConcat
<1>5. (s.out \o <<Head(s.inner)>>) \o Tail(s.inner) = s.out \o (<<Head(s.inner)>> \o Tail(s.inner))
  <2> DEFINE o == s.out
             u == <<Head(s.inner)>>
             r == Tail(s.inner)
  <2>1. o \in Seq(Int) /\ u \in Seq(Int) /\ r \in Seq(Int)
    BY <1>1, <1>2
  <2> HIDE DEF o, u, r
  <2>2. (o \o u) \o r = o \o (u \o r)
    BY <2>1, ConcatAssociative, SMTT(30)
  <2> QED
    BY <2>2 DEF o, u, r
<1>6. Given(s2) \o s2.inner = Given(s) \o s.inner
  BY <1>2, <1>3, <1>4, <1>5
<1>7. s.op.name = "flat_map" /\ ~ s.done
  BY DEF Link
<1> QED
  BY <1>6, <1>7 DEF Link

\* The next value of its source is fetched.
LEMMA LinkWaits ==
  ASSUME NEW p \in Stages, NEW s \in Stages, Operation(s.op), Link(p, s, TRUE), ~ s.done
  PROVE  /\ Given(s) = Meant(s.op, p.out) /\ Given(s) \in Seq(Int) /\ s.inner = <<>>
         /\ \A j \in 1 .. Len(p.out) : Accepts(s.op, j, p.out[j])
         /\ p.out \in Seq(Int) /\ Len(p.out) \in Nat
<1>1. p.out \in Seq(Int) /\ s.i \in Nat /\ Len(p.out) \in Nat
  BY LenProperties DEF Stages
<1>2. Given(s) \in Seq(Int)
  BY GivenIs
<1>3. s.inner = <<>> /\ Given(s) \o s.inner = Meant(s.op, p.out)
  BY DEF Link
<1>4. Given(s) \o <<>> = Given(s)
  BY <1>2, ConcatEmptySeq
<1>5. \A j \in 1 .. Len(p.out) : Accepts(s.op, j, p.out[j])
  BY DEF Link, AllAccepted
<1> QED
  BY <1>1, <1>2, <1>3, <1>4, <1>5

LEMMA LinkTakes ==
  ASSUME NEW p \in Stages, NEW s \in Stages, Operation(s.op), Link(p, s, TRUE), ~ s.done,
         NEW v \in Int, s.op.name = "take"
  PROVE  s.i = Len(p.out) + 1 /\ Accepts(s.op, Len(p.out) + 1, v)
<1>1. p.out \in Seq(Int) /\ s.i \in Nat /\ Len(p.out) \in Nat
  BY LenProperties DEF Stages
<1> QED
  BY <1>1 DEF Link, Operation, Accepts

LEMMA LinkAccepts ==
  ASSUME NEW p \in Stages, NEW s \in Stages, Operation(s.op), Link(p, s, TRUE), ~ s.done,
         NEW v \in Int, Accepts(s.op, Len(p.out) + 1, v)
  PROVE  /\ Meant(s.op, Append(p.out, v)) = Given(s) \o Gives(s.op, v)
         /\ AllAccepted(s.op, Append(p.out, v), Len(p.out) + 1)
         /\ Len(Append(p.out, v)) = Len(p.out) + 1
<1>1. /\ Given(s) = Meant(s.op, p.out)
      /\ \A j \in 1 .. Len(p.out) : Accepts(s.op, j, p.out[j])
      /\ p.out \in Seq(Int)
  BY LinkWaits
<1>2. /\ Len(Append(p.out, v)) = Len(p.out) + 1
      /\ Accepts(s.op, Len(p.out) + 1, v) =>
           /\ Meant(s.op, Append(p.out, v)) = Meant(s.op, p.out) \o Gives(s.op, v)
           /\ \A j \in 1 .. Len(p.out) + 1 : Accepts(s.op, j, Append(p.out, v)[j])
  BY <1>1, MeantAppend
<1> QED
  BY <1>1, <1>2 DEF AllAccepted

LEMMA LinkRejects ==
  ASSUME NEW p \in Stages, NEW s \in Stages, Operation(s.op), Link(p, s, TRUE), ~ s.done,
         NEW v \in Int, ~ Accepts(s.op, Len(p.out) + 1, v)
  PROVE  /\ Meant(s.op, Append(p.out, v)) = Given(s) /\ Closed(s.op, Append(p.out, v))
         /\ s.op.name # "take"
<1>1. /\ Given(s) = Meant(s.op, p.out)
      /\ \A j \in 1 .. Len(p.out) : Accepts(s.op, j, p.out[j])
      /\ p.out \in Seq(Int)
  BY LinkWaits
<1>2. ~ Accepts(s.op, Len(p.out) + 1, v) =>
        Meant(s.op, Append(p.out, v)) = Meant(s.op, p.out) /\ Closed(s.op, Append(p.out, v))
  BY <1>1, MeantAppend
<1>3. s.op.name # "take"
  BY LinkTakes
<1> QED
  BY <1>1, <1>2, <1>3

LEMMA LinkFed ==
  ASSUME NEW p \in Stages, NEW s \in Stages, NEW p2 \in Stages, NEW s2 \in Stages, Operation(s.op),
         Link(p, s, TRUE), ~ s.done, ~ s.ready,
         p2.out = Append(p.out, p.value), Accepts(s.op, Len(p.out) + 1, p.value),
         s2.op = s.op, s2.done = s.done, s2.i = s.i, s2.inner = s.inner, s2.out = s.out,
         s2.ready, Gives(s.op, p.value) = <<s2.value>>
  PROVE  Link(p2, s2, FALSE)
<1> DEFINE v == p.value
<1>1. v \in Int /\ Accepts(s.op, Len(p.out) + 1, v)
  BY DEF Stages
<1> HIDE DEF v
<1>2. s.op.name = "take" => s.i = Len(p.out) + 1
  BY <1>1, LinkTakes
<1>3. /\ Len(Append(p.out, v)) = Len(p.out) + 1
      /\ Meant(s.op, Append(p.out, v)) = Given(s) \o Gives(s.op, v)
      /\ AllAccepted(s.op, Append(p.out, v), Len(p.out) + 1)
  BY <1>1, LinkAccepts
<1>4. Given(s) = s.out /\ Given(s2) = Append(s.out, s2.value)
  BY GivenIs
<1>5. s.out \in Seq(Int) /\ s2.value \in Int
  BY DEF Stages
<1>6. Given(s2) = Given(s) \o <<s2.value>> /\ Given(s2) \in Seq(Int)
  BY <1>4, <1>5, AppendIsConcat, GivenIs
<1>7. s2.inner = <<>>
  BY DEF Link
<1>8. Given(s2) \o s2.inner = Given(s2)
  BY <1>6, <1>7, ConcatEmptySeq
<1>9. p2.out = Append(p.out, v)
  BY DEF v
<1>10. Given(s2) \o s2.inner = Meant(s2.op, p2.out)
  BY <1>3, <1>6, <1>8, <1>9 DEF v
<1>11. AllAccepted(s2.op, p2.out, Len(p2.out))
  BY <1>3, <1>9
<1>12. s2.op.name = "take" => s2.i = Len(p2.out) + 0
  <2>1. Len(p.out) + 1 = Len(p.out) + 1 + 0 /\ Len(p2.out) = Len(p.out) + 1
    BY <1>3, <1>9, LenProperties DEF Stages
  <2> QED
    BY <1>2, <2>1
<1> QED
  BY <1>7, <1>10, <1>11, <1>12 DEF Link

LEMMA LinkRefused ==
  ASSUME NEW p \in Stages, NEW s \in Stages, NEW p2 \in Stages, NEW s2 \in Stages, Operation(s.op),
         Link(p, s, TRUE), ~ s.done,
         p2.out = Append(p.out, p.value), ~ Accepts(s.op, Len(p.out) + 1, p.value),
         s2.op = s.op, s2.done, s2.inner = s.inner, Given(s2) = Given(s)
  PROVE  Link(p2, s2, FALSE)
<1> DEFINE v == p.value
<1>1. v \in Int /\ ~ Accepts(s.op, Len(p.out) + 1, v)
  BY DEF Stages
<1> HIDE DEF v
<1>2. Given(s) \in Seq(Int)
  BY GivenIs
<1>3. /\ Given(s) \in Seq(Int) /\ s.op.name # "take"
      /\ Meant(s.op, Append(p.out, v)) = Given(s) /\ Closed(s.op, Append(p.out, v))
  BY <1>1, <1>2, LinkRejects
<1>7. s2.inner = <<>>
  BY DEF Link
<1>8. Given(s2) \o s2.inner = Given(s2)
  BY <1>3, <1>7, ConcatEmptySeq
<1>9. p2.out = Append(p.out, v)
  BY DEF v
<1> QED
  BY <1>3, <1>7, <1>8, <1>9 DEF Link

LEMMA LinkFilled ==
  ASSUME NEW p \in Stages, NEW s \in Stages, NEW p2 \in Stages, NEW s2 \in Stages, Operation(s.op),
         Link(p, s, TRUE), ~ s.done, s.op.name = "flat_map",
         p2.out = Append(p.out, p.value), Accepts(s.op, Len(p.out) + 1, p.value),
         s2.op = s.op, s2.done = s.done, Given(s2) = Given(s), s2.inner = Gives(s.op, p.value)
  PROVE  Link(p2, s2, FALSE)
<1> DEFINE v == p.value
<1>1. v \in Int /\ Accepts(s.op, Len(p.out) + 1, v)
  BY DEF Stages
<1> HIDE DEF v
<1>3. /\ Len(Append(p.out, v)) = Len(p.out) + 1
      /\ Meant(s.op, Append(p.out, v)) = Given(s) \o Gives(s.op, v)
      /\ AllAccepted(s.op, Append(p.out, v), Len(p.out) + 1)
  BY <1>1, LinkAccepts
<1>9. p2.out = Append(p.out, v)
  BY DEF v
<1>10. Given(s2) \o s2.inner = Meant(s2.op, p2.out)
  BY <1>3, <1>9 DEF v
<1> QED
  BY <1>3, <1>9, <1>10 DEF Link

------------------------------------------------------------------------------
(* The invariant.                                                           *)

\* Stage k waits for the stage before it.
Wants(r, a, k) == r < k \/ (r = k /\ a)

Pipe(p) ==
  /\ p \in Seq(Stages) /\ Len(p) \in Nat \ {0}
  /\ p[1].op \in FromOps
  /\ \A k \in 2 .. Len(p) : Operation(p[k].op)
  /\ \A k \in 1 .. Len(p) : p[k].done => ~ p[k].ready

\* Nobody but who runs has a value to fetch, or knows whether there is one.
Control(p, m, r, a) ==
  /\ m \in 1 .. Len(p) /\ r \in 1 .. m + 1 /\ a \in BOOLEAN
  /\ a => r # 1 /\ Rests(p[r - 1])
  /\ \A k \in r .. m : ~ p[k].ready /\ ~ p[k].done
  /\ \A k \in 1 .. m - 1 : p[k].ready => r = k + 1 /\ a

\* from has given the first i values of its list.
FromLink(s) ==
  /\ s.i \in 0 .. Len(s.op.list) /\ Given(s) = SubSeq(s.op.list, 1, s.i)
  /\ s.done => s.i = Len(s.op.list)

Linked(p, m, r, a) == \A k \in 2 .. m : Link(p[k - 1], p[k], Wants(r, a, k))

\* What a stage has given is of its stream; those after pull stay as they are.
Ops(p) == [k \in DOMAIN p |-> p[k].op]
Exact(p, k) ==
  /\ IsPrefix(Given(p[k]), Stream(Ops(p), k))
  /\ p[k].done => Given(p[k]) = Stream(Ops(p), k)
Left(p, m) == \A k \in m + 1 .. Len(p) : Exact(p, k)

Lazy(p, m, r, a) ==
  /\ Pipe(p) /\ Control(p, m, r, a)
  /\ FromLink(p[1]) /\ Linked(p, m, r, a) /\ Left(p, m)

GenInv ==
  /\ Lazy(pipe, pull, run, answered)
  /\ call = "" => run = pull + 1 /\ ~ answered

\* A step of stage r, or of the consumer as the one after pull, may fetch from the stage
\* before; the other stages stay as they are.
Touches(p, q, r) ==
  /\ q \in Seq(Stages) /\ Len(q) = Len(p)
  /\ \A j \in 1 .. Len(p) :
       /\ q[j].op = p[j].op
       /\ p[j].done => q[j].done
       /\ j # r => Alike(p[j], q[j]) /\ (q[j].ready => p[j].ready)
       /\ j # r - 1 => q[j].out = p[j].out
       /\ j # r /\ j # r - 1 => q[j] = p[j]

LEMMA TouchesKeepsPipe ==
  ASSUME NEW p, NEW q, NEW r, Pipe(p), Touches(p, q, r),
         r \in 1 .. Len(p) /\ q[r].done => ~ q[r].ready
  PROVE  Pipe(q) /\ Ops(q) = Ops(p)
<1>1. DOMAIN p = 1 .. Len(p) /\ DOMAIN q = 1 .. Len(p)
  BY LenProperties DEF Pipe, Touches
<1>2. Ops(q) = Ops(p)
  BY <1>1 DEF Ops, Touches
<1>3. 1 \in 1 .. Len(p) /\ 2 .. Len(p) \subseteq 1 .. Len(p)
  BY DEF Pipe
<1>4. q[1].op \in FromOps /\ \A k \in 2 .. Len(q) : Operation(q[k].op)
  BY <1>3 DEF Pipe, Touches
<1>5. ASSUME NEW k \in 1 .. Len(q), q[k].done
      PROVE  ~ q[k].ready
  <2>1. CASE k = r
    BY <1>5, <2>1 DEF Touches
  <2>2. CASE k # r
    BY <1>5, <2>2 DEF Touches, Alike, Pipe
  <2> QED
    BY <2>1, <2>2
<1> QED
  BY <1>2, <1>4, <1>5 DEF Pipe, Touches

\* Only who runs can change what is kept of it and of the one before.
LEMMA TouchesKeepsLinks ==
  ASSUME NEW p, NEW q, NEW m, NEW r, NEW a, NEW r2, NEW a2,
         Lazy(p, m, r, a), Touches(p, q, r),
         r \in 1 .. m /\ q[r].done => ~ q[r].ready, r \in m + 1 .. Len(p) => q[r] = p[r],
         r = 1 => FromLink(q[1]),
         r \in 2 .. m => Link(q[r - 1], q[r], Wants(r2, a2, r)),
         \A k \in 2 .. m : k # r => (Wants(r2, a2, k) <=> Wants(r, a, k)),
         a \in BOOLEAN, a2 \in BOOLEAN
  PROVE  Pipe(q) /\ FromLink(q[1]) /\ Linked(q, m, r2, a2) /\ Left(q, m)
<1>2. m \in 1 .. Len(p) /\ r \in 1 .. m + 1 /\ Len(p) \in Nat
  BY DEF Lazy, Control, Pipe
<1>1. Pipe(q) /\ Ops(q) = Ops(p) /\ Len(q) = Len(p)
  <2>1. r \in 1 .. Len(p) /\ q[r].done => ~ q[r].ready
    BY <1>2 DEF Lazy, Pipe
  <2>2. Pipe(p)
    BY DEF Lazy
  <2>3. Pipe(q) /\ Ops(q) = Ops(p)
    BY <2>1, <2>2, TouchesKeepsPipe
  <2> QED
    BY <2>3 DEF Touches
<1>3. FromLink(q[1])
  <2>1. CASE r = 1
    BY <2>1
  <2>2. CASE r # 1
    <3>1. 1 \in 1 .. Len(p)
      BY <1>2
    <3>2. Alike(p[1], q[1])
      BY <2>2, <3>1 DEF Touches
    <3> QED
      BY <3>2 DEF Lazy, FromLink, Alike
  <2> QED
    BY <2>1, <2>2
<1>4. ASSUME NEW k \in 2 .. m
      PROVE  Link(q[k - 1], q[k], Wants(r2, a2, k))
  <2>1. CASE k = r
    BY <2>1
  <2>2. CASE k # r
    <3>1. k \in 1 .. Len(p) /\ k - 1 \in 1 .. Len(p) /\ k - 1 # r - 1
      BY <1>2, <2>2
    <3>2. Alike(p[k], q[k])
      BY <2>2, <3>1 DEF Touches
    <3>3. q[k - 1].out = p[k - 1].out /\ (p[k - 1].done => q[k - 1].done)
      BY <3>1 DEF Touches
    <3>4. Link(p[k - 1], p[k], Wants(r, a, k))
      BY DEF Lazy, Linked
    <3>5. Link(q[k - 1], q[k], Wants(r, a, k))
      BY <3>2, <3>3, <3>4, LinkKept
    <3>6. Wants(r2, a2, k) = Wants(r, a, k)
      BY <2>2 DEF Wants
    <3> QED
      BY <3>5, <3>6
  <2> QED
    BY <2>1, <2>2
<1>5. ASSUME NEW k \in m + 1 .. Len(q)
      PROVE  Exact(q, k)
  <2>1. k \in m + 1 .. Len(p) /\ k \in 1 .. Len(p) /\ k # r - 1
    BY <1>1, <1>2
  <2>2. Given(q[k]) = Given(p[k]) /\ q[k].done = p[k].done
    <3>1. CASE k # r
      BY <2>1, <3>1 DEF Touches, Alike
    <3>2. CASE k = r
      <4>1. q[k] = p[k]
        BY <2>1, <3>2
      <4> QED
        BY <4>1
    <3> QED
      BY <3>1, <3>2
  <2>3. Exact(p, k)
    BY <2>1 DEF Lazy, Left
  <2> QED
    BY <1>1, <2>2, <2>3 DEF Exact
<1> QED
  BY <1>1, <1>3, <1>4, <1>5 DEF Linked, Left

\* has_next: the stage before is asked, and answers at once if it rests.
LEMMA AsksKeeps ==
  ASSUME NEW p, NEW q, NEW m, NEW r, NEW r2, NEW a2,
         Lazy(p, m, r, FALSE), Touches(p, q, r), r # 1,
         a2 = Rests(p[r - 1]), r2 = IF Rests(p[r - 1]) THEN r ELSE r - 1,
         q[r - 1] = p[r - 1], r \in m + 1 .. Len(p) => q[r] = p[r],
         r \in 1 .. m => q[r].done = p[r].done /\ q[r].ready = p[r].ready,
         r \in 1 .. m => Link(p[r - 1], q[r], TRUE)
  PROVE  Lazy(q, m, r2, a2)
<1>1. /\ m \in 1 .. Len(p) /\ r \in 2 .. m + 1 /\ Len(p) \in Nat /\ Len(q) = Len(p)
      /\ r - 1 \in 1 .. Len(p)
  BY DEF Lazy, Control, Pipe, Touches
<1>2. p[r - 1] \in Stages
  BY <1>1, ElementOfSeq DEF Lazy, Pipe
<1>3. a2 \in BOOLEAN
  BY <1>2 DEF Rests, Stages
<1>4. \A k \in 2 .. m : k # r => (Wants(r2, a2, k) <=> Wants(r, FALSE, k))
  BY <1>1, <1>3 DEF Wants
<1>5. Wants(r2, a2, r)
  BY <1>1, <1>3 DEF Wants
<1>6. r \in 2 .. m => Link(q[r - 1], q[r], Wants(r2, a2, r))
  <2> DEFINE w == Wants(r2, a2, r)
  <2>1. w = TRUE
    BY <1>5 DEF Wants
  <2> HIDE DEF w
  <2>2. r \in 2 .. m => r \in 1 .. m
    BY <1>1
  <2>3. r \in 2 .. m => Link(q[r - 1], q[r], TRUE)
    BY <2>2, Zenon
  <2>4. r \in 2 .. m => Link(q[r - 1], q[r], w)
    BY <2>1, <2>3, Zenon
  <2> QED
    BY <2>4 DEF w
<1>7. r \in 1 .. m /\ q[r].done => ~ q[r].ready
  <2>1. r \in 1 .. m => r \in 1 .. Len(p)
    BY <1>1
  <2>2. r \in 1 .. m => (p[r].done => ~ p[r].ready)
    BY <2>1 DEF Lazy, Pipe
  <2> QED
    BY <2>2, Zenon
<1>8. Pipe(q) /\ FromLink(q[1]) /\ Linked(q, m, r2, a2) /\ Left(q, m)
  BY <1>1, <1>3, <1>4, <1>6, <1>7, TouchesKeepsLinks
<1>9. Control(q, m, r2, a2)
  <2>1. m \in 1 .. Len(q) /\ r2 \in 1 .. m + 1 /\ a2 \in BOOLEAN
    BY <1>1, <1>3
  <2>2. a2 => r2 # 1 /\ Rests(q[r2 - 1])
    BY <1>1
  <2>3. ASSUME NEW k \in r2 .. m
        PROVE  ~ q[k].ready /\ ~ q[k].done
    <3>1. CASE k = r - 1
      <4>1. ~ Rests(p[r - 1])
        BY <1>1, <3>1
      <4> QED
        BY <3>1, <4>1 DEF Rests
    <3>2. CASE k = r
      BY <1>1, <3>2 DEF Lazy, Control
    <3>3. CASE k # r - 1 /\ k # r
      <4>1. k \in r .. m /\ k \in 1 .. Len(p)
        BY <1>1, <3>3
      <4>2. q[k] = p[k]
        BY <3>3, <4>1 DEF Touches
      <4> QED
        BY <4>1, <4>2 DEF Lazy, Control
    <3> QED
      BY <3>1, <3>2, <3>3
  <2>4. ASSUME NEW k \in 1 .. m - 1, q[k].ready
        PROVE  r2 = k + 1 /\ a2
    <3>1. k \in 1 .. Len(p)
      BY <1>1
    <3>2. p[k].ready
      <4>1. CASE k = r
        BY <1>1, <2>4, <4>1
      <4>2. CASE k # r
        BY <2>4, <3>1, <4>2 DEF Touches
      <4> QED
        BY <4>1, <4>2
    <3> QED
      BY <3>2 DEF Lazy, Control
  <2> QED
    BY <2>1, <2>2, <2>3, <2>4 DEF Control
<1> QED
  BY <1>8, <1>9 DEF Lazy

\* The stage that ran is suspended, and its has_next returns.
LEMMA SuspendedKeeps ==
  ASSUME NEW p, NEW q, NEW m, NEW r, NEW a,
         Lazy(p, m, r, a), Touches(p, q, r), r \in 1 .. m,
         Rests(q[r]), q[r].done => ~ q[r].ready, r # 1 => ~ q[r - 1].ready,
         r = 1 => FromLink(q[1]), r # 1 => Link(q[r - 1], q[r], FALSE)
  PROVE  Lazy(q, m, r + 1, TRUE)
<1>1. /\ m \in 1 .. Len(p) /\ r \in 1 .. m /\ Len(p) \in Nat /\ Len(q) = Len(p)
      /\ a \in BOOLEAN
  BY DEF Lazy, Control, Pipe, Touches
<1>2. \A k \in 2 .. m : k # r => (Wants(r + 1, TRUE, k) <=> Wants(r, a, k))
  BY <1>1 DEF Wants
<1>3. Wants(r + 1, TRUE, r) = FALSE
  BY <1>1 DEF Wants
<1>4. Pipe(q) /\ FromLink(q[1]) /\ Linked(q, m, r + 1, TRUE) /\ Left(q, m)
  <2>1. r \in 2 .. m => Link(q[r - 1], q[r], Wants(r + 1, TRUE, r))
    <3> DEFINE w == Wants(r + 1, TRUE, r)
    <3>0. r \in 2 .. m => r # 1
      BY <1>1
    <3>1. w = FALSE
      BY <1>3, Zenon
    <3> HIDE DEF w
    <3>2. r \in 2 .. m => Link(q[r - 1], q[r], w)
      BY <3>0, <3>1, Zenon
    <3> QED
      BY <3>2 DEF w
  <2>2. ~ (r \in m + 1 .. Len(p)) /\ TRUE \in BOOLEAN
    BY <1>1
  <2> DEFINE r2 == r + 1
             a2 == TRUE
  <2>3. /\ r \in 2 .. m => Link(q[r - 1], q[r], Wants(r2, a2, r))
        /\ \A k \in 2 .. m : k # r => (Wants(r2, a2, k) <=> Wants(r, a, k))
        /\ a2 \in BOOLEAN
    BY <1>2, <2>1
  <2> HIDE DEF r2, a2
  <2>4. Pipe(q) /\ FromLink(q[1]) /\ Linked(q, m, r2, a2) /\ Left(q, m)
    BY <1>1, <2>2, <2>3, TouchesKeepsLinks
  <2> QED
    BY <2>4 DEF r2, a2
<1>5. Control(q, m, r + 1, TRUE)
  <2>1. m \in 1 .. Len(q) /\ r + 1 \in 1 .. m + 1 /\ TRUE \in BOOLEAN
    BY <1>1
  <2>2. r + 1 # 1 /\ (r + 1) - 1 = r
    BY <1>1
  <2>3. ASSUME NEW k \in r + 1 .. m
        PROVE  ~ q[k].ready /\ ~ q[k].done
    <3>1. k \in r .. m /\ k \in 1 .. Len(p) /\ k # r /\ k # r - 1
      BY <1>1
    <3>2. q[k] = p[k]
      BY <3>1 DEF Touches
    <3> QED
      BY <3>1, <3>2 DEF Lazy, Control
  <2>4. ASSUME NEW k \in 1 .. m - 1, q[k].ready
        PROVE  r + 1 = k + 1
    <3>1. CASE k = r
      BY <3>1
    <3>2. CASE k = r - 1
      BY <1>1, <2>4, <3>2
    <3>3. CASE k # r /\ k # r - 1
      <4>1. k \in 1 .. Len(p)
        BY <1>1
      <4>2. p[k].ready
        BY <2>4, <3>3, <4>1 DEF Touches
      <4>3. r = k + 1
        BY <4>2 DEF Lazy, Control
      <4> QED
        BY <1>1, <3>3, <4>3
    <3> QED
      BY <3>1, <3>2, <3>3
  <2>5. TRUE => r + 1 # 1 /\ Rests(q[(r + 1) - 1])
    BY <2>2
  <2> QED
    BY <2>1, <2>3, <2>4, <2>5 DEF Control
<1> QED
  BY <1>4, <1>5 DEF Lazy

\* Who ran goes on, with nothing left to fetch.
LEMMA StaysKeeps ==
  ASSUME NEW p, NEW q, NEW m, NEW r, NEW a,
         Lazy(p, m, r, a), Touches(p, q, r), r # 1, r \in m + 1 .. Len(p) => q[r] = p[r],
         r \in 1 .. m => /\ q[r].done = p[r].done /\ q[r].ready = p[r].ready
                         /\ ~ q[r - 1].ready /\ Link(q[r - 1], q[r], FALSE)
  PROVE  Lazy(q, m, r, FALSE)
<1>1. /\ m \in 1 .. Len(p) /\ r \in 2 .. m + 1 /\ Len(p) \in Nat /\ Len(q) = Len(p)
      /\ a \in BOOLEAN
  BY DEF Lazy, Control, Pipe, Touches
<1>2. \A k \in 2 .. m : k # r => (Wants(r, FALSE, k) <=> Wants(r, a, k))
  BY <1>1 DEF Wants
<1>3. Wants(r, FALSE, r) = FALSE
  BY <1>1 DEF Wants
<1>4. Pipe(q) /\ FromLink(q[1]) /\ Linked(q, m, r, FALSE) /\ Left(q, m)
  <2>1. r \in 2 .. m => Link(q[r - 1], q[r], Wants(r, FALSE, r))
    <3> DEFINE w == Wants(r, FALSE, r)
    <3>0. r \in 2 .. m => r \in 1 .. m
      BY <1>1
    <3>1. w = FALSE
      BY <1>3, Zenon
    <3> HIDE DEF w
    <3>2. r \in 2 .. m => Link(q[r - 1], q[r], w)
      BY <3>0, <3>1, Zenon
    <3> QED
      BY <3>2 DEF w
  <2>2. r \in 1 .. m /\ q[r].done => ~ q[r].ready
    <3>1. r \in 1 .. m => r \in 1 .. Len(p)
      BY <1>1
    <3>2. r \in 1 .. m => (p[r].done => ~ p[r].ready)
      BY <3>1 DEF Lazy, Pipe
    <3> QED
      BY <3>2, Zenon
  <2> DEFINE a2 == FALSE
  <2>3. /\ r \in 2 .. m => Link(q[r - 1], q[r], Wants(r, a2, r))
        /\ \A k \in 2 .. m : k # r => (Wants(r, a2, k) <=> Wants(r, a, k))
        /\ a2 \in BOOLEAN
    BY <1>2, <2>1
  <2> HIDE DEF a2
  <2>4. Pipe(q) /\ FromLink(q[1]) /\ Linked(q, m, r, a2) /\ Left(q, m)
    BY <1>1, <2>2, <2>3, TouchesKeepsLinks
  <2> QED
    BY <2>4 DEF a2
<1>5. Control(q, m, r, FALSE)
  <2>1. m \in 1 .. Len(q) /\ r \in 1 .. m + 1 /\ FALSE \in BOOLEAN
    BY <1>1
  <2>3. ASSUME NEW k \in r .. m
        PROVE  ~ q[k].ready /\ ~ q[k].done
    <3>1. k \in 1 .. Len(p) /\ k # r - 1
      BY <1>1
    <3>2. q[k].ready = p[k].ready /\ q[k].done = p[k].done
      <4>1. CASE k = r
        <5>1. r \in 1 .. m
          BY <1>1, <4>1
        <5> QED
          BY <4>1, <5>1, Zenon
      <4>2. CASE k # r
        BY <3>1, <4>2 DEF Touches
      <4> QED
        BY <4>1, <4>2
    <3> QED
      BY <3>2 DEF Lazy, Control
  <2>4. ASSUME NEW k \in 1 .. m - 1, q[k].ready
        PROVE  FALSE
    <3>1. k \in 1 .. Len(p)
      BY <1>1
    <3>2. p[k].ready
      <4>1. CASE k = r
        <5>1. r \in 1 .. m
          BY <1>1, <4>1
        <5> QED
          BY <2>4, <4>1, <5>1, Zenon
      <4>2. CASE k # r
        BY <2>4, <3>1, <4>2 DEF Touches
      <4> QED
        BY <4>1, <4>2
    <3>3. r = k + 1
      BY <3>2 DEF Lazy, Control
    <3>4. r \in 1 .. m /\ k = r - 1
      BY <1>1, <3>3
    <3> QED
      BY <2>4, <3>4
  <2> QED
    BY <2>1, <2>3, <2>4 DEF Control
<1> QED
  BY <1>4, <1>5 DEF Lazy

------------------------------------------------------------------------------
(* What the stages have given is of their streams.                          *)

LEMMA PipeIsPiped ==
  ASSUME NEW p, Pipe(p)
  PROVE  /\ Piped(Ops(p)) /\ Len(Ops(p)) = Len(p) /\ DOMAIN p = 1 .. Len(p)
         /\ \A k \in 1 .. Len(p) : p[k] \in Stages /\ Ops(p)[k] = p[k].op
<1>1. DOMAIN p = 1 .. Len(p) /\ Len(p) \in Nat \ {0} /\ 1 \in 1 .. Len(p)
  BY LenProperties DEF Pipe
<1>2. \A k \in 1 .. Len(p) : p[k] \in Stages /\ Ops(p)[k] = p[k].op
  BY <1>1, ElementOfSeq DEF Pipe, Ops
<1>3. Len(Ops(p)) = Len(p)
  <2> DEFINE o == [k \in 1 .. Len(p) |-> p[k].op]
  <2>1. Ops(p) = o
    BY <1>1 DEF Ops
  <2>2. \A k \in 1 .. Len(p) : p[k].op \in AllOps
    BY <1>2 DEF Stages
  <2>3. o \in Seq(AllOps)
    BY <1>1, <2>2, IsASeq
  <2>4. DOMAIN o = 1 .. Len(o) /\ DOMAIN o = 1 .. Len(p) /\ Len(o) \in Nat
    BY <2>3, LenProperties
  <2> HIDE DEF o
  <2>5. Len(o) = Len(p)
    <3>1. 1 .. Len(o) = 1 .. Len(p)
      BY <2>4
    <3>2. Len(p) \in 1 .. Len(o)
      BY <1>1, <3>1
    <3>3. Len(o) \in 1 .. Len(p)
      BY <2>4, <3>1, <3>2
    <3>4. Len(o) <= Len(p) /\ Len(p) <= Len(o) /\ Len(o) \in Nat /\ Len(p) \in Nat
      BY <1>1, <2>4, <3>2, <3>3
    <3> QED
      BY <3>4
  <2> QED
    BY <2>1, <2>5
<1>4. Ops(p)[1].list \in Seq(Int)
  <2>1. PICK s \in Sources : p[1].op = [name |-> "from", list |-> s]
    BY DEF Pipe, FromOps
  <2>2. Ops(p)[1].list = s
    BY <1>1, <1>2, <2>1
  <2> QED
    BY <2>2, GeneratorsAssumption DEF GeneratorsAssumption
<1>5. \A k \in 2 .. Len(p) : Operation(Ops(p)[k])
  BY <1>1, <1>2 DEF Pipe
<1> QED
  BY <1>1, <1>2, <1>3, <1>4, <1>5 DEF Piped

LEMMA PartOfList ==
  ASSUME NEW list \in Seq(Int), NEW i \in 0 .. Len(list)
  PROVE  /\ SubSeq(list, 1, i) \in Seq(Int) /\ Extends(SubSeq(list, 1, i), list)
         /\ i = Len(list) => SubSeq(list, 1, i) = list
         /\ i < Len(list) => /\ list[i + 1] \in Int
                             /\ SubSeq(list, 1, i + 1) = Append(SubSeq(list, 1, i), list[i + 1])
<1>1. Len(list) \in Nat /\ \A j \in 1 .. Len(list) : list[j] \in Int
  BY LenProperties, ElementOfSeq
<1>2. /\ 1 \in 1 .. Len(list) + 1 /\ i \in 1 - 1 .. Len(list) /\ Len(list) \in i .. Len(list)
      /\ i \in Int /\ i + 1 \in Int /\ Len(list) \in Int
  BY <1>1
<1>3. SubSeq(list, 1, i) \o SubSeq(list, i + 1, Len(list)) = SubSeq(list, 1, Len(list))
  BY <1>2, ConcatAdjacentSubSeq
<1>4. SubSeq(list, 1, Len(list)) = list
  BY SubSeqFull
<1>5. SubSeq(list, i + 1, Len(list)) \in Seq(Int) /\ SubSeq(list, 1, i) \in Seq(Int)
  BY <1>1, <1>2, SubSeqProperties
<1>6. Extends(SubSeq(list, 1, i), list)
  BY <1>3, <1>4, <1>5 DEF Extends
<1>7. ASSUME i < Len(list)
      PROVE  /\ list[i + 1] \in Int
             /\ SubSeq(list, 1, i + 1) = Append(SubSeq(list, 1, i), list[i + 1])
  <2>1. i + 1 \in 1 .. Len(list)
    BY <1>1, <1>7
  <2>2. i + 1 \in i .. Len(list)
    BY <1>1, <1>7
  <2>3. SubSeq(list, 1, i) \o SubSeq(list, i + 1, i + 1) = SubSeq(list, 1, i + 1)
    BY <1>2, <2>2, ConcatAdjacentSubSeq
  <2> DEFINE v == list[i + 1]
             n == i + 1
             u == SubSeq(list, n, n)
  <2>4. v \in Int
    BY <1>1, <2>1
  <2>5. u = <<v>>
    <3>1. n \in Int /\ \A j \in n .. n : list[j] \in Int
      BY <1>2, <2>4
    <3>0. list[n] = v
      OBVIOUS
    <3> HIDE DEF n, v
    <3>2. /\ u \in Seq(Int) /\ Len(u) = IF n <= n THEN n - n + 1 ELSE 0
          /\ \A j \in 1 .. n - n + 1 : u[j] = list[n + j - 1]
      BY <3>1, SubSeqProperties
    <3>3. Len(u) = 1 /\ u[1] = list[n]
      BY <3>1, <3>2
    <3>4. <<v>> \in Seq(Int) /\ Len(<<v>>) = 1 /\ <<v>>[1] = v
      BY <2>4
    <3> HIDE DEF u
    <3>5. Len(u) = Len(<<v>>) /\ \A j \in 1 .. Len(u) : u[j] = <<v>>[j]
      BY <3>0, <3>3, <3>4
    <3> QED
      BY <3>2, <3>4, <3>5, SeqEqual
  <2>6. Append(SubSeq(list, 1, i), v) = SubSeq(list, 1, i) \o <<v>>
    BY <1>5, <2>4, AppendIsConcat
  <2> QED
    BY <2>3, <2>4, <2>5, <2>6
<1> QED
  BY <1>4, <1>5, <1>6, <1>7

\* What stage s may still give.
Goes(s, stream) ==
  /\ stream \in Seq(Int) /\ Extends(Given(s), stream)
  /\ s.done => Given(s) = stream

LEMMA FromGoes ==
  ASSUME NEW s \in Stages, s.op \in FromOps, FromLink(s)
  PROVE  Goes(s, s.op.list)
<1>1. PICK t \in Sources : s.op = [name |-> "from", list |-> t]
  BY DEF FromOps
<1>2. s.op.list \in Seq(Int)
  BY <1>1, GeneratorsAssumption DEF GeneratorsAssumption
<1> DEFINE list == s.op.list
           i == s.i
<1>3. i \in 0 .. Len(list) /\ Given(s) = SubSeq(list, 1, i) /\ (s.done => i = Len(list))
  BY DEF FromLink
<1> HIDE DEF list, i
<1>4. Extends(SubSeq(list, 1, i), list) /\ (i = Len(list) => SubSeq(list, 1, i) = list)
  BY <1>2, <1>3, PartOfList DEF list
<1>5. Goes(s, list)
  BY <1>2, <1>3, <1>4 DEF Goes, list
<1> QED
  BY <1>5 DEF list

LEMMA LinkGoes ==
  ASSUME NEW p \in Stages, NEW s \in Stages, NEW w, Operation(s.op),
         Link(p, s, w), NEW t, Goes(p, t), p.done => ~ p.ready
  PROVE  Goes(s, Meant(s.op, t))
<1>1. t \in Seq(Int) /\ Extends(Given(p), t) /\ (p.done => Given(p) = t)
  BY DEF Goes
<1>2. p.out \in Seq(Int) /\ s.inner \in Seq(Int) /\ Given(s) \in Seq(Int) /\ Given(p) \in Seq(Int)
  BY GivenIs DEF Stages
<1>3. Extends(p.out, Given(p))
  <2>1. CASE p.ready
    <3>1. Given(p) = Append(p.out, p.value) /\ p.value \in Int
      BY <2>1, GivenIs DEF Stages
    <3>2. Append(p.out, p.value) = p.out \o <<p.value>>
      BY <1>2, <3>1, AppendIsConcat
    <3>3. <<p.value>> \in Seq(Int)
      BY <3>1
    <3> QED
      BY <3>1, <3>2, <3>3 DEF Extends
  <2>2. CASE ~ p.ready
    <3>1. Given(p) = p.out
      BY <2>2, GivenIs
    <3> QED
      BY <1>2, <3>1, ExtendsSelf
  <2> QED
    BY <2>1, <2>2
<1>4. Extends(p.out, t)
  BY <1>1, <1>2, <1>3, ExtendsTrans
<1>5. /\ Extends(Meant(s.op, p.out), Meant(s.op, t))
      /\ Closed(s.op, p.out) => Meant(s.op, t) = Meant(s.op, p.out)
  BY <1>1, <1>2, <1>4, MeantExtends
<1>6. Given(s) \o s.inner = Meant(s.op, p.out)
  BY DEF Link
<1>7. Meant(s.op, t) \in Seq(Int)
  BY <1>1, MeantType
<1>8. Extends(Given(s), Meant(s.op, t))
  <2>1. Extends(Given(s) \o s.inner, Meant(s.op, t))
    BY <1>5, <1>6
  <2> QED
    BY <1>2, <1>7, <2>1, ConcatEndsExtends
<1>9. ASSUME s.done
      PROVE  Given(s) = Meant(s.op, t)
  <2>1. s.inner = <<>>
    BY <1>9 DEF Link
  <2>2. Given(s) = Meant(s.op, p.out)
    <3>1. Given(s) \o <<>> = Given(s)
      BY <1>2, ConcatEmptySeq
    <3> QED
      BY <1>6, <2>1, <3>1
  <2>3. CASE Closed(s.op, p.out)
    BY <1>5, <2>2, <2>3
  <2>4. CASE p.done
    <3>1. Given(p) = p.out
      BY <2>4, GivenIs
    <3> QED
      BY <1>1, <2>2, <2>4, <3>1
  <2> QED
    BY <1>9, <2>3, <2>4 DEF Link
<1> QED
  BY <1>7, <1>8, <1>9 DEF Goes

LEMMA LazyIsExact ==
  ASSUME NEW p, NEW m, NEW r, NEW a, Lazy(p, m, r, a)
  PROVE  \A k \in 1 .. Len(p) : Exact(p, k)
<1>1. Piped(Ops(p)) /\ Len(Ops(p)) = Len(p) /\ \A k \in 1 .. Len(p) : p[k] \in Stages /\ Ops(p)[k] = p[k].op
  BY PipeIsPiped DEF Lazy
<1>2. m \in 1 .. Len(p) /\ Len(p) \in Nat
  BY DEF Lazy, Control, Pipe
<1> DEFINE St(k) == Stream(Ops(p), k)
           S == {k \in 0 .. m : k # 0 => Goes(p[k], St(k))}
<1>3. 0 \in S
  BY <1>2
<1>4. ASSUME NEW k \in 1 .. m, k - 1 \in S
      PROVE  k \in S
  <2>1. k \in 1 .. Len(p) /\ k \in 1 .. Len(Ops(p))
    BY <1>1, <1>2
  <2>2. CASE k = 1
    <3>1. St(1) = p[1].op.list
      BY <1>1, <2>1, <2>2, StreamIs
    <3>2. p[1] \in Stages /\ p[1].op \in FromOps /\ FromLink(p[1])
      BY <1>1, <2>1, <2>2 DEF Lazy, Pipe
    <3>3. Goes(p[1], p[1].op.list)
      BY <3>2, FromGoes
    <3>4. Goes(p[k], St(k))
      BY <2>2, <3>1, <3>3
    <3> QED
      BY <1>2, <3>4
  <2>3. CASE k # 1
    <3>1. k \in 2 .. m /\ k \in 2 .. Len(Ops(p)) /\ k - 1 \in 1 .. Len(p) /\ k \in 2 .. Len(p)
      BY <1>1, <1>2, <2>3
    <3>2. St(k) = Meant(p[k].op, St(k - 1))
      BY <1>1, <2>1, <3>1, StreamIs
    <3>3. Goes(p[k - 1], St(k - 1))
      BY <1>4, <3>1
    <3>4. Link(p[k - 1], p[k], Wants(r, a, k))
      BY <3>1 DEF Lazy, Linked
    <3>5. /\ p[k - 1] \in Stages /\ p[k] \in Stages /\ Operation(p[k].op)
          /\ p[k - 1].done => ~ p[k - 1].ready
      BY <1>1, <2>1, <3>1 DEF Lazy, Pipe
    <3> HIDE DEF St
    <3>6. Goes(p[k], Meant(p[k].op, St(k - 1)))
      BY <3>3, <3>4, <3>5, LinkGoes
    <3>7. Goes(p[k], St(k))
      BY <3>2, <3>6
    <3> QED
      BY <1>2, <3>7
  <2> QED
    BY <2>2, <2>3
<1> HIDE DEF S
<1>5. \A k \in 0 .. m : k \in S
  BY <1>2, <1>3, <1>4, UpTo
<1>6. ASSUME NEW k \in 1 .. Len(p)
      PROVE  Exact(p, k)
  <2>1. CASE k \in m + 1 .. Len(p)
    BY <2>1 DEF Lazy, Left
  <2>2. CASE k <= m
    <3>1. k \in 0 .. m /\ k # 0
      BY <1>2, <2>2
    <3>2. Goes(p[k], St(k))
      BY <1>5, <3>1 DEF S
    <3>3. Given(p[k]) \in Seq(Int)
      BY <1>1, GivenIs
    <3>4. IsPrefix(Given(p[k]), St(k))
      BY <3>2, <3>3, ExtendsIsPrefix DEF Goes
    <3> QED
      BY <3>2, <3>4 DEF Goes, Exact
  <2> QED
    BY <1>2, <2>1, <2>2
<1> QED
  BY <1>6

\* The consumer takes over the source of a generator that is destroyed.
LEMMA DestroyKeeps ==
  ASSUME NEW p, NEW m, Lazy(p, m, m + 1, FALSE), m # 1
  PROVE  Lazy(p, m - 1, m, FALSE)
<1>1. m \in 2 .. Len(p) /\ Len(p) \in Nat /\ m - 1 \in 1 .. Len(p) /\ (m - 1) + 1 = m
  BY DEF Lazy, Control, Pipe
<1>2. Linked(p, m - 1, m, FALSE)
  <2> SUFFICES ASSUME NEW k \in 2 .. m - 1
               PROVE  Link(p[k - 1], p[k], Wants(m, FALSE, k))
    BY DEF Linked
  <2>1. Wants(m, FALSE, k) = FALSE /\ Wants(m + 1, FALSE, k) = FALSE /\ k \in 2 .. m
    BY <1>1 DEF Wants
  <2>2. Link(p[k - 1], p[k], Wants(m + 1, FALSE, k))
    BY <2>1 DEF Lazy, Linked
  <2> QED
    BY <2>1, <2>2, Zenon
<1>3. Left(p, m - 1)
  <2>1. \A k \in 1 .. Len(p) : Exact(p, k)
    BY LazyIsExact
  <2>2. (m - 1) + 1 .. Len(p) \subseteq 1 .. Len(p)
    BY <1>1
  <2> QED
    BY <2>1, <2>2 DEF Left
<1>4. Control(p, m - 1, m, FALSE)
  <2>1. \A k \in m .. m - 1 : FALSE
    BY <1>1
  <2>2. ASSUME NEW k \in 1 .. (m - 1) - 1, p[k].ready
        PROVE  FALSE
    <3>1. k \in 1 .. m - 1
      BY <1>1
    <3> QED
      BY <2>2, <3>1 DEF Lazy, Control
  <2> QED
    BY <1>1, <2>1, <2>2 DEF Control
<1> QED
  BY <1>2, <1>3, <1>4 DEF Lazy

------------------------------------------------------------------------------
(* The steps of a stage.                                                    *)

LEMMA Running ==
  ASSUME NEW p, NEW m, NEW r, NEW a, Lazy(p, m, r, a), r <= m
  PROVE  /\ p \in Seq(Stages) /\ Len(p) \in Nat /\ m \in 1 .. Len(p)
         /\ r \in 1 .. m /\ r \in 1 .. Len(p) /\ a \in BOOLEAN
         /\ p[r] \in Stages /\ ~ p[r].done /\ ~ p[r].ready /\ Given(p[r]) = p[r].out
<1>1. /\ p \in Seq(Stages) /\ Len(p) \in Nat /\ m \in 1 .. Len(p)
      /\ r \in 1 .. m /\ r \in 1 .. Len(p) /\ a \in BOOLEAN
  BY DEF Lazy, Pipe, Control
<1>2. p[r] \in Stages /\ ~ p[r].done /\ ~ p[r].ready
  <2>1. r \in r .. m
    BY <1>1
  <2> QED
    BY <1>1, <2>1, ElementOfSeq DEF Lazy, Control
<1>3. Given(p[r]) = p[r].out
  BY <1>2, GivenIs
<1> QED
  BY <1>1, <1>2, <1>3

\* The first stage is made by from.
LEMMA RunningFirst ==
  ASSUME NEW p, NEW m, NEW r, NEW a, Lazy(p, m, r, a), r <= m, p[r].op.name = "from"
  PROVE  r = 1 /\ FromLink(p[r]) /\ p[r].op \in FromOps
<1>1. r \in 1 .. m /\ m \in 1 .. Len(p) /\ Len(p) \in Nat
  BY DEF Lazy, Pipe, Control
<1>2. CASE r = 1
  BY <1>2 DEF Lazy, Pipe
<1>3. CASE r # 1
  <2>1. r \in 2 .. Len(p)
    BY <1>1, <1>3
  <2>2. Operation(p[r].op)
    BY <2>1 DEF Lazy, Pipe
  <2> QED
    BY <2>2 DEF Operation
<1> QED
  BY <1>2, <1>3

\* Each of the others is made from the one before.
LEMMA RunningOther ==
  ASSUME NEW p, NEW m, NEW r, NEW a, Lazy(p, m, r, a), r <= m, p[r].op.name # "from"
  PROVE  /\ r # 1 /\ r - 1 # r /\ Operation(p[r].op)
         /\ r - 1 \in 1 .. Len(p) /\ r - 1 \in 1 .. m - 1 /\ p[r - 1] \in Stages
         /\ p[r - 1].done => ~ p[r - 1].ready
         /\ Link(p[r - 1], p[r], Wants(r, a, r))
<1>1. p \in Seq(Stages) /\ r \in 1 .. m /\ m \in 1 .. Len(p) /\ Len(p) \in Nat
  BY DEF Lazy, Pipe, Control
<1>2. r # 1
  <2>1. r = 1 => p[r].op.name = "from"
    BY DEF Lazy, Pipe, FromOps
  <2> QED
    BY <2>1
<1>3. r \in 2 .. m /\ r \in 2 .. Len(p) /\ r - 1 \in 1 .. Len(p) /\ r - 1 \in 1 .. m - 1
  BY <1>1, <1>2
<1>4. p[r - 1] \in Stages
  BY <1>1, <1>3, ElementOfSeq
<1>5. Operation(p[r].op) /\ (p[r - 1].done => ~ p[r - 1].ready)
  BY <1>3 DEF Lazy, Pipe
<1>6. Link(p[r - 1], p[r], Wants(r, a, r))
  BY <1>3 DEF Lazy, Linked
<1>7. r - 1 # r
  BY <1>1
<1> QED
  BY <1>2, <1>3, <1>4, <1>5, <1>6, <1>7

\* What a step of a stage starts from: before it asks, and when it has been answered.
Asking(p, m, r) ==
  Lazy(p, m, r, FALSE) /\ r <= m /\ p[r].op.name # "from"
Answered(p, m, r) ==
  Lazy(p, m, r, TRUE) /\ r <= m /\ p[r].op.name # "from"

LEMMA AskingIs ==
  ASSUME NEW p, NEW m, NEW r, Asking(p, m, r)
  PROVE  /\ Lazy(p, m, r, FALSE) /\ p \in Seq(Stages) /\ Len(p) \in Nat /\ m \in 1 .. Len(p)
         /\ r \in 1 .. m /\ r \in 1 .. Len(p)
         /\ p[r] \in Stages /\ ~ p[r].done /\ ~ p[r].ready /\ Given(p[r]) = p[r].out
         /\ r # 1 /\ r - 1 # r /\ Operation(p[r].op)
         /\ r - 1 \in 1 .. Len(p) /\ p[r - 1] \in Stages /\ ~ p[r - 1].ready
         /\ Link(p[r - 1], p[r], FALSE)
<1>1. Lazy(p, m, r, FALSE) /\ r <= m /\ p[r].op.name # "from"
  BY DEF Asking
<1>2. /\ p \in Seq(Stages) /\ Len(p) \in Nat /\ m \in 1 .. Len(p)
      /\ r \in 1 .. m /\ r \in 1 .. Len(p)
      /\ p[r] \in Stages /\ ~ p[r].done /\ ~ p[r].ready /\ Given(p[r]) = p[r].out
  BY <1>1, Running
<1>3. /\ r # 1 /\ r - 1 # r /\ Operation(p[r].op)
      /\ r - 1 \in 1 .. Len(p) /\ r - 1 \in 1 .. m - 1 /\ p[r - 1] \in Stages
      /\ Link(p[r - 1], p[r], Wants(r, FALSE, r))
  BY <1>1, RunningOther
<1>4. Wants(r, FALSE, r) = FALSE
  BY <1>2 DEF Wants
<1>5. Link(p[r - 1], p[r], FALSE)
  BY <1>3, <1>4, Zenon
<1>6. ~ p[r - 1].ready
  BY <1>1, <1>3 DEF Lazy, Control
<1> QED
  BY <1>1, <1>2, <1>3, <1>5, <1>6

LEMMA AnsweredIs ==
  ASSUME NEW p, NEW m, NEW r, Answered(p, m, r)
  PROVE  /\ Lazy(p, m, r, TRUE) /\ p \in Seq(Stages) /\ Len(p) \in Nat /\ m \in 1 .. Len(p)
         /\ r \in 1 .. m /\ r \in 1 .. Len(p)
         /\ p[r] \in Stages /\ ~ p[r].done /\ ~ p[r].ready /\ Given(p[r]) = p[r].out
         /\ r # 1 /\ r - 1 # r /\ Operation(p[r].op)
         /\ r - 1 \in 1 .. Len(p) /\ p[r - 1] \in Stages
         /\ p[r - 1].done <=> ~ p[r - 1].ready
         /\ Link(p[r - 1], p[r], TRUE)
<1>1. Lazy(p, m, r, TRUE) /\ r <= m /\ p[r].op.name # "from"
  BY DEF Answered
<1>2. /\ p \in Seq(Stages) /\ Len(p) \in Nat /\ m \in 1 .. Len(p)
      /\ r \in 1 .. m /\ r \in 1 .. Len(p)
      /\ p[r] \in Stages /\ ~ p[r].done /\ ~ p[r].ready /\ Given(p[r]) = p[r].out
  BY <1>1, Running
<1>3. /\ r # 1 /\ r - 1 # r /\ Operation(p[r].op)
      /\ r - 1 \in 1 .. Len(p) /\ r - 1 \in 1 .. m - 1 /\ p[r - 1] \in Stages
      /\ p[r - 1].done => ~ p[r - 1].ready
      /\ Link(p[r - 1], p[r], Wants(r, TRUE, r))
  BY <1>1, RunningOther
<1>4. Wants(r, TRUE, r) = TRUE
  BY <1>2 DEF Wants
<1>5. Link(p[r - 1], p[r], TRUE)
  BY <1>3, <1>4, Zenon
<1>6. p[r - 1].done \/ p[r - 1].ready
  BY <1>1 DEF Lazy, Control, Rests
<1> QED
  BY <1>1, <1>2, <1>3, <1>5, <1>6

\* It changes itself alone, or fetches from the one before as well.
LEMMA ChangesTouches ==
  ASSUME NEW p, NEW q, NEW r, r \in 1 .. Len(p), Changes(p, q, r),
         q[r].out = p[r].out, p[r].done => q[r].done
  PROVE  Touches(p, q, r)
  BY DEF Touches, Changes, Alike

LEMMA SameTouches == ASSUME NEW p \in Seq(Stages), NEW r PROVE Touches(p, p, r)
  BY DEF Touches, Alike

\* Stage r fetches from s, the one before, and changes itself.
FetchesAndChanges(p, f, q, r, s) ==
  /\ p \in Seq(Stages) /\ r \in 1 .. Len(p) /\ s = r - 1 /\ s \in 1 .. Len(p)
  /\ p[s].ready /\ f = Fetched(p, s) /\ Changes(f, q, r)
  /\ q[r].out = p[r].out /\ (p[r].done => q[r].done)

\* s has given its value.
Handed(p, q, s) == q[s].out = Append(p[s].out, p[s].value) /\ q[s].ready = FALSE

LEMMA FetchingTouches ==
  ASSUME NEW p, NEW f, NEW q, NEW r, NEW s, FetchesAndChanges(p, f, q, r, s)
  PROVE  Touches(p, q, r) /\ Handed(p, q, s)
<1>1. /\ p \in Seq(Stages) /\ r \in 1 .. Len(p) /\ s = r - 1 /\ s \in 1 .. Len(p) /\ s # r
      /\ p[s].ready /\ f = Fetched(p, s) /\ Changes(f, q, r)
      /\ q[r].out = p[r].out /\ (p[r].done => q[r].done)
  BY DEF FetchesAndChanges
<1>3. /\ Changes(p, f, s)
      /\ f[s].ready = FALSE /\ f[s].out = Append(p[s].out, p[s].value)
      /\ f[s].done = p[s].done /\ f[s].value = p[s].value
      /\ f[s].i = p[s].i /\ f[s].inner = p[s].inner
  <2>1. IsFetched(p, Fetched(p, s), s)
    BY <1>1, FetchedIs
  <2> QED
    BY <1>1, <2>1 DEF IsFetched
<1>4. q \in Seq(Stages) /\ Len(q) = Len(p) /\ Len(f) = Len(p)
  BY <1>1, <1>3 DEF Changes
<1>5. q[s] = f[s] /\ f[s].op = p[s].op
  BY <1>1, <1>3, <1>4 DEF Changes
<1>6. q[r].op = p[r].op
  BY <1>1, <1>3, <1>4 DEF Changes
<1>7. \A j \in 1 .. Len(p) : j # r /\ j # s => q[j] = p[j]
  BY <1>1, <1>3, <1>4 DEF Changes
<1>8. Given(f[s]) = Given(p[s])
  <2>1. p[s] \in Stages /\ f[s] \in Stages
    BY <1>1, <1>3, <1>4, ElementOfSeq DEF Changes
  <2>2. Given(p[s]) = Append(p[s].out, p[s].value)
    BY <1>1, <2>1, GivenIs
  <2>3. Given(f[s]) = f[s].out
    BY <1>3, <2>1, GivenIs
  <2> QED
    BY <1>3, <2>2, <2>3
<1>9. Alike(p[s], q[s])
  BY <1>3, <1>5, <1>8 DEF Alike
<1>10. Touches(p, q, r)
  <2> SUFFICES ASSUME NEW j \in 1 .. Len(p)
               PROVE  /\ q[j].op = p[j].op
                      /\ p[j].done => q[j].done
                      /\ j # r => Alike(p[j], q[j]) /\ (q[j].ready => p[j].ready)
                      /\ j # r - 1 => q[j].out = p[j].out
                      /\ j # r /\ j # r - 1 => q[j] = p[j]
    BY <1>4 DEF Touches
  <2>1. CASE j = r
    BY <1>1, <1>6, <2>1
  <2>2. CASE j = s
    BY <1>1, <1>3, <1>5, <1>9, <2>2
  <2>3. CASE j # r /\ j # s
    <3>1. q[j] = p[j]
      BY <1>7, <2>3
    <3> QED
      BY <2>3, <3>1 DEF Alike
  <2> QED
    BY <2>1, <2>2, <2>3
<1> QED
  BY <1>3, <1>5, <1>10 DEF Handed

LEMMA FromFinishes ==
  ASSUME NEW p, NEW m, NEW r, NEW a, Lazy(p, m, r, a), r <= m,
         p[r].op.name = "from", p[r].i = Len(p[r].op.list)
  PROVE  Lazy(Finished(p, r), m, r + 1, TRUE)
<1> DEFINE q == Finished(p, r)
<1>1. /\ Lazy(p, m, r, a) /\ p \in Seq(Stages) /\ r \in 1 .. m /\ r \in 1 .. Len(p)
      /\ p[r] \in Stages /\ ~ p[r].ready /\ Given(p[r]) = p[r].out /\ r = 1 /\ FromLink(p[r])
  BY Running, RunningFirst
<1>q. q = Finished(p, r)
  OBVIOUS
<1> HIDE DEF q
<1>2. /\ Changes(p, q, r) /\ q[r].done = TRUE /\ q[r].ready = p[r].ready /\ q[r].out = p[r].out
      /\ q[r].i = p[r].i
  BY <1>1, <1>q, FinishedIs
<1>3. Touches(p, q, r)
  BY <1>1, <1>2, ChangesTouches
<1>4. q[r] \in Stages /\ q[r].op = p[r].op
  BY <1>1, <1>2, ElementOfSeq DEF Changes
<1>5. Given(q[r]) = Given(p[r])
  BY <1>1, <1>2, <1>4, GivenIs
<1>6. FromLink(q[r])
  BY <1>1, <1>2, <1>4, <1>5 DEF FromLink
<1>7. Rests(q[r]) /\ (q[r].done => ~ q[r].ready)
  BY <1>1, <1>2 DEF Rests
<1>8. FromLink(q[1])
  BY <1>1, <1>6
<1>9. Lazy(q, m, r + 1, TRUE)
  BY <1>1, <1>3, <1>7, <1>8, SuspendedKeeps
<1> QED
  BY <1>9 DEF q

LEMMA FromYields ==
  ASSUME NEW p, NEW m, NEW r, NEW a, Lazy(p, m, r, a), r <= m,
         p[r].op.name = "from", p[r].i # Len(p[r].op.list)
  PROVE  Lazy(Yielded(Counted(p, r), r, p[r].op.list[p[r].i + 1]), m, r + 1, TRUE)
<1> DEFINE list == p[r].op.list
           i == p[r].i
           v == list[i + 1]
           c == Counted(p, r)
           q == Yielded(c, r, v)
<1>1. /\ Lazy(p, m, r, a) /\ p \in Seq(Stages) /\ r \in 1 .. m /\ r \in 1 .. Len(p)
      /\ p[r] \in Stages /\ ~ p[r].ready /\ ~ p[r].done /\ Given(p[r]) = p[r].out /\ r = 1
      /\ FromLink(p[r]) /\ p[r].op \in FromOps
  BY Running, RunningFirst
<1>2. list \in Seq(Int)
  <2>1. PICK t \in Sources : p[r].op = [name |-> "from", list |-> t]
    BY <1>1 DEF FromOps
  <2> QED
    BY <2>1, GeneratorsAssumption DEF GeneratorsAssumption
<1>3. i \in 0 .. Len(list) /\ i # Len(list) /\ Given(p[r]) = SubSeq(list, 1, i) /\ Len(list) \in Nat
  BY <1>1, <1>2, LenProperties DEF FromLink
<1> HIDE DEF list, i
<1>4. v \in Int /\ SubSeq(list, 1, i + 1) = Append(SubSeq(list, 1, i), v) /\ i + 1 \in 0 .. Len(list)
  BY <1>2, <1>3, PartOfList
<1>c. c = Counted(p, r)
  OBVIOUS
<1> HIDE DEF c
<1>5. /\ Changes(p, c, r) /\ c[r].i = i + 1
      /\ c[r].ready = p[r].ready /\ c[r].out = p[r].out /\ c[r].done = p[r].done
  BY <1>1, <1>c, CountedIs DEF i
<1>6. c \in Seq(Stages) /\ r \in 1 .. Len(c) /\ Len(c) = Len(p)
  BY <1>1, <1>5 DEF Changes
<1> HIDE DEF v
<1>q. q = Yielded(c, r, v)
  OBVIOUS
<1> HIDE DEF q
<1>7. /\ Changes(c, q, r) /\ q[r].ready = TRUE /\ q[r].value = v
      /\ q[r].done = c[r].done /\ q[r].out = c[r].out /\ q[r].i = c[r].i
  <2>1. IsYielded(c, Yielded(c, r, v), r, v)
    BY <1>4, <1>6, YieldedIs
  <2> QED
    BY <2>1, <1>q DEF IsYielded
<1>8. Changes(p, q, r)
  BY <1>5, <1>6, <1>7 DEF Changes
<1>9. Touches(p, q, r)
  BY <1>1, <1>5, <1>7, <1>8, ChangesTouches
<1>10. q[r] \in Stages /\ q[r].op = p[r].op
  BY <1>1, <1>8, ElementOfSeq DEF Changes
<1>11. Given(q[r]) = SubSeq(list, 1, i + 1)
  <2>1. Given(q[r]) = Append(q[r].out, q[r].value)
    BY <1>7, <1>10, GivenIs
  <2>2. q[r].out = SubSeq(list, 1, i) /\ q[r].value = v
    BY <1>1, <1>3, <1>5, <1>7
  <2> QED
    BY <1>4, <2>1, <2>2
<1>12. FromLink(q[1])
  BY <1>1, <1>4, <1>5, <1>7, <1>10, <1>11 DEF FromLink, list
<1>13. Rests(q[r]) /\ (q[r].done => ~ q[r].ready)
  BY <1>1, <1>5, <1>7 DEF Rests
<1>14. Lazy(q, m, r + 1, TRUE)
  BY <1>1, <1>9, <1>12, <1>13, SuspendedKeeps
<1> QED
  BY <1>14 DEF q, c, v, list, i

LEMMA StageExhausts ==
  ASSUME NEW p, NEW m, NEW r, Answered(p, m, r), p[r - 1].done
  PROVE  Lazy(Finished(p, r), m, r + 1, TRUE)
<1> DEFINE q == Finished(p, r)
<1>1. /\ Lazy(p, m, r, TRUE) /\ p \in Seq(Stages) /\ r \in 1 .. m /\ r \in 1 .. Len(p)
      /\ p[r] \in Stages /\ ~ p[r].ready /\ ~ p[r].done /\ Given(p[r]) = p[r].out /\ r # 1
      /\ p[r - 1] \in Stages /\ Link(p[r - 1], p[r], TRUE) /\ ~ p[r - 1].ready
      /\ r - 1 \in 1 .. Len(p) /\ r - 1 # r
  <2>1. /\ Lazy(p, m, r, TRUE) /\ p \in Seq(Stages) /\ Len(p) \in Nat /\ m \in 1 .. Len(p)
        /\ r \in 1 .. m /\ r \in 1 .. Len(p)
        /\ p[r] \in Stages /\ ~ p[r].done /\ ~ p[r].ready /\ Given(p[r]) = p[r].out
        /\ r # 1 /\ r - 1 # r /\ Operation(p[r].op)
        /\ r - 1 \in 1 .. Len(p) /\ p[r - 1] \in Stages
        /\ p[r - 1].done <=> ~ p[r - 1].ready
        /\ Link(p[r - 1], p[r], TRUE)
    BY AnsweredIs
  <2> QED
    BY <2>1
<1>q. q = Finished(p, r)
  OBVIOUS
<1> HIDE DEF q
<1>p. p \in Seq(Stages) /\ r \in 1 .. Len(p)
  BY <1>1
<1>2. /\ Changes(p, q, r) /\ q[r].done = TRUE /\ q[r].ready = p[r].ready /\ q[r].out = p[r].out
      /\ q[r].inner = p[r].inner
  BY <1>p, <1>q, FinishedIs
<1>3. Touches(p, q, r) /\ q[r - 1] = p[r - 1]
  BY <1>1, <1>2, ChangesTouches DEF Changes
<1>4. q[r] \in Stages /\ q[r].op = p[r].op
  BY <1>1, <1>2, ElementOfSeq DEF Changes
<1>5. Given(q[r]) = Given(p[r])
  BY <1>1, <1>2, <1>4, GivenIs
<1>6. Link(p[r - 1], q[r], FALSE)
  BY <1>1, <1>2, <1>4, <1>5, LinkExhausts
<1>7. Rests(q[r]) /\ (q[r].done => ~ q[r].ready)
  BY <1>1, <1>2 DEF Rests
<1>8. Link(q[r - 1], q[r], FALSE) /\ ~ q[r - 1].ready
  BY <1>1, <1>3, <1>6
<1>9. Lazy(q, m, r + 1, TRUE)
  BY <1>1, <1>3, <1>7, <1>8, SuspendedKeeps
<1> QED
  BY <1>9 DEF q

LEMMA TakeEnds ==
  ASSUME NEW p, NEW m, NEW r, Asking(p, m, r), p[r].op.name = "take", p[r].i >= p[r].op.n
  PROVE  Lazy(Finished(Counted(p, r), r), m, r + 1, TRUE)
<1> DEFINE c == Counted(p, r)
           q == Finished(c, r)
<1>1. /\ Lazy(p, m, r, FALSE) /\ p \in Seq(Stages) /\ r \in 1 .. m /\ r \in 1 .. Len(p)
      /\ p[r] \in Stages /\ ~ p[r].ready /\ ~ p[r].done /\ Given(p[r]) = p[r].out /\ r # 1
      /\ p[r - 1] \in Stages /\ Link(p[r - 1], p[r], FALSE) /\ ~ p[r - 1].ready
      /\ r - 1 \in 1 .. Len(p) /\ r - 1 # r /\ Operation(p[r].op)
  BY AskingIs
<1>c. c = Counted(p, r)
  OBVIOUS
<1> HIDE DEF c
<1>2. /\ Changes(p, c, r) /\ c[r].inner = p[r].inner
      /\ c[r].ready = p[r].ready /\ c[r].out = p[r].out /\ c[r].done = p[r].done
  BY <1>1, <1>c, CountedIs
<1>3. c \in Seq(Stages) /\ r \in 1 .. Len(c) /\ Len(c) = Len(p)
  BY <1>1, <1>2 DEF Changes
<1>q. q = Finished(c, r)
  OBVIOUS
<1> HIDE DEF q
<1>4. /\ Changes(c, q, r) /\ q[r].done = TRUE /\ q[r].ready = c[r].ready /\ q[r].out = c[r].out
      /\ q[r].inner = c[r].inner
  BY <1>3, <1>q, FinishedIs
<1>5. Changes(p, q, r)
  BY <1>2, <1>3, <1>4 DEF Changes
<1>6. Touches(p, q, r) /\ q[r - 1] = p[r - 1]
  BY <1>1, <1>2, <1>4, <1>5, ChangesTouches DEF Changes
<1>7. q[r] \in Stages /\ q[r].op = p[r].op
  BY <1>1, <1>5, ElementOfSeq DEF Changes
<1>8. Given(q[r]) = Given(p[r])
  BY <1>1, <1>2, <1>4, <1>7, GivenIs
<1>9. Link(p[r - 1], q[r], FALSE)
  BY <1>1, <1>2, <1>4, <1>7, <1>8, LinkCounted
<1>10. Rests(q[r]) /\ (q[r].done => ~ q[r].ready)
  BY <1>1, <1>2, <1>4 DEF Rests
<1>11. Link(q[r - 1], q[r], FALSE) /\ ~ q[r - 1].ready
  BY <1>1, <1>6, <1>9
<1>12. Lazy(q, m, r + 1, TRUE)
  BY <1>1, <1>6, <1>10, <1>11, SuspendedKeeps
<1> QED
  BY <1>12 DEF q, c

LEMMA InnerYields ==
  ASSUME NEW p, NEW m, NEW r, Asking(p, m, r), p[r].inner # <<>>
  PROVE  Lazy(Yielded(Filled(p, r, Tail(p[r].inner)), r, Head(p[r].inner)), m, r + 1, TRUE)
<1> DEFINE u == Tail(p[r].inner)
           v == Head(p[r].inner)
           c == Filled(p, r, u)
           q == Yielded(c, r, v)
<1>1. /\ Lazy(p, m, r, FALSE) /\ p \in Seq(Stages) /\ r \in 1 .. m /\ r \in 1 .. Len(p)
      /\ p[r] \in Stages /\ ~ p[r].ready /\ ~ p[r].done /\ Given(p[r]) = p[r].out /\ r # 1
      /\ p[r - 1] \in Stages /\ Link(p[r - 1], p[r], FALSE) /\ ~ p[r - 1].ready
      /\ r - 1 \in 1 .. Len(p) /\ r - 1 # r
  BY AskingIs
<1>2. u \in Seq(Int) /\ v \in Int /\ u = Tail(p[r].inner) /\ v = Head(p[r].inner)
  <2>1. p[r].inner \in Seq(Int)
    BY <1>1 DEF Stages
  <2> QED
    BY <2>1, HeadTailProperties
<1> HIDE DEF u, v
<1>c. c = Filled(p, r, u)
  OBVIOUS
<1> HIDE DEF c
<1>3. /\ Changes(p, c, r) /\ c[r].inner = u
      /\ c[r].ready = p[r].ready /\ c[r].out = p[r].out /\ c[r].done = p[r].done
  <2>1. IsFilled(p, Filled(p, r, u), r, u)
    BY <1>1, <1>2, FilledIs
  <2> QED
    BY <2>1, <1>c DEF IsFilled
<1>4. c \in Seq(Stages) /\ r \in 1 .. Len(c) /\ Len(c) = Len(p)
  BY <1>1, <1>3 DEF Changes
<1>q. q = Yielded(c, r, v)
  OBVIOUS
<1> HIDE DEF q
<1>5. /\ Changes(c, q, r) /\ q[r].ready = TRUE /\ q[r].value = v
      /\ q[r].done = c[r].done /\ q[r].out = c[r].out /\ q[r].inner = c[r].inner
  <2>1. v \in Int
    BY <1>2
  <2>2. IsYielded(c, Yielded(c, r, v), r, v)
    BY <1>4, <2>1, YieldedIs
  <2> QED
    BY <2>2, <1>q DEF IsYielded
<1>6. Changes(p, q, r)
  BY <1>3, <1>4, <1>5 DEF Changes
<1>7. Touches(p, q, r) /\ q[r - 1] = p[r - 1]
  BY <1>1, <1>3, <1>5, <1>6, ChangesTouches DEF Changes
<1>8. q[r] \in Stages /\ q[r].op = p[r].op
  BY <1>1, <1>6, ElementOfSeq DEF Changes
<1>9. Link(p[r - 1], q[r], FALSE)
  BY <1>1, <1>2, <1>3, <1>5, <1>8, LinkPoured
<1>10. Rests(q[r]) /\ (q[r].done => ~ q[r].ready)
  BY <1>1, <1>3, <1>5 DEF Rests
<1>11. Link(q[r - 1], q[r], FALSE) /\ ~ q[r - 1].ready
  BY <1>1, <1>7, <1>9
<1>12. Lazy(q, m, r + 1, TRUE)
  BY <1>1, <1>7, <1>10, <1>11, SuspendedKeeps
<1> QED
  BY <1>12 DEF q, c, u, v

\* A stage that was told of a value fetches it.
Told(p, m, r) == Answered(p, m, r) /\ ~ p[r - 1].done

LEMMA StageFed ==
  ASSUME NEW p, NEW m, NEW r, Told(p, m, r), NEW v \in Int,
         Accepts(p[r].op, Len(p[r - 1].out) + 1, p[r - 1].value),
         Gives(p[r].op, p[r - 1].value) = <<v>>
  PROVE  Lazy(Yielded(Fetched(p, r - 1), r, v), m, r + 1, TRUE)
<1> DEFINE f == Fetched(p, r - 1)
           q == Yielded(f, r, v)
<1>0. Answered(p, m, r) /\ ~ p[r - 1].done
  BY DEF Told
<1>1. /\ Lazy(p, m, r, TRUE) /\ p \in Seq(Stages) /\ Len(p) \in Nat /\ m \in 1 .. Len(p)
      /\ r \in 1 .. m /\ r \in 1 .. Len(p)
      /\ p[r] \in Stages /\ ~ p[r].done /\ ~ p[r].ready /\ Given(p[r]) = p[r].out
      /\ r # 1 /\ r - 1 # r /\ Operation(p[r].op)
      /\ r - 1 \in 1 .. Len(p) /\ p[r - 1] \in Stages
      /\ p[r - 1].done <=> ~ p[r - 1].ready
      /\ Link(p[r - 1], p[r], TRUE)
  BY <1>0, AnsweredIs
<1>2. p[r - 1].ready
  BY <1>0, <1>1
<1>f. f = Fetched(p, r - 1)
  OBVIOUS
<1> HIDE DEF f
<1>3. Changes(p, f, r - 1)
  <2>1. IsFetched(p, Fetched(p, r - 1), r - 1)
    BY <1>1, FetchedIs
  <2> QED
    BY <2>1, <1>f DEF IsFetched
<1>4. f \in Seq(Stages) /\ r \in 1 .. Len(f) /\ f[r] = p[r] /\ Len(f) = Len(p)
  BY <1>1, <1>3 DEF Changes
<1>q. q = Yielded(f, r, v)
  OBVIOUS
<1> HIDE DEF q
<1>5. /\ Changes(f, q, r) /\ q[r].ready = TRUE /\ q[r].value = v
      /\ q[r].done = f[r].done /\ q[r].out = f[r].out
      /\ q[r].i = f[r].i /\ q[r].inner = f[r].inner
  <2>1. IsYielded(f, Yielded(f, r, v), r, v)
    BY <1>4, YieldedIs
  <2> QED
    BY <2>1, <1>q DEF IsYielded
<1>6. Changes(f, q, r) /\ q[r].out = p[r].out /\ (p[r].done => q[r].done)
  BY <1>1, <1>4, <1>5
<1>7. /\ Touches(p, q, r)
      /\ q[r - 1].out = Append(p[r - 1].out, p[r - 1].value)
      /\ q[r - 1].ready = FALSE
  <2> DEFINE s == r - 1
  <2>1. s = r - 1 /\ s \in 1 .. Len(p) /\ p[s].ready /\ f = Fetched(p, s)
    BY <1>1, <1>2, <1>f
  <2> HIDE DEF s
  <2>2. FetchesAndChanges(p, f, q, r, s)
    BY <1>1, <1>6, <2>1 DEF FetchesAndChanges
  <2>3. Touches(p, q, r) /\ Handed(p, q, s)
    BY <2>2, FetchingTouches
  <2> QED
    BY <2>1, <2>3 DEF Handed
<1>8. q \in Seq(Stages) /\ Len(q) = Len(p) /\ q[r].op = p[r].op
  BY <1>4, <1>5 DEF Changes
<1>9. q[r] \in Stages /\ q[r - 1] \in Stages
  BY <1>1, <1>8, ElementOfSeq
<1>10. /\ q[r].done = p[r].done /\ q[r].i = p[r].i /\ q[r].inner = p[r].inner
       /\ q[r].out = p[r].out /\ q[r].ready /\ Gives(p[r].op, p[r - 1].value) = <<q[r].value>>
  BY <1>4, <1>5
<1>11. Link(q[r - 1], q[r], FALSE)
  BY <1>1, <1>7, <1>8, <1>9, <1>10, LinkFed
<1>12. Rests(q[r]) /\ (q[r].done => ~ q[r].ready)
  BY <1>1, <1>10 DEF Rests
<1>13. ~ q[r - 1].ready
  BY <1>7
<1>14. Lazy(q, m, r + 1, TRUE)
  BY <1>1, <1>7, <1>11, <1>12, <1>13, SuspendedKeeps
<1> QED
  BY <1>14 DEF q, f

LEMMA StageRefused ==
  ASSUME NEW p, NEW m, NEW r, Told(p, m, r),
         ~ Accepts(p[r].op, Len(p[r - 1].out) + 1, p[r - 1].value)
  PROVE  Lazy(Finished(Fetched(p, r - 1), r), m, r + 1, TRUE)
<1> DEFINE f == Fetched(p, r - 1)
           q == Finished(f, r)
<1>0. Answered(p, m, r) /\ ~ p[r - 1].done
  BY DEF Told
<1>1. /\ Lazy(p, m, r, TRUE) /\ p \in Seq(Stages) /\ Len(p) \in Nat /\ m \in 1 .. Len(p)
      /\ r \in 1 .. m /\ r \in 1 .. Len(p)
      /\ p[r] \in Stages /\ ~ p[r].done /\ ~ p[r].ready /\ Given(p[r]) = p[r].out
      /\ r # 1 /\ r - 1 # r /\ Operation(p[r].op)
      /\ r - 1 \in 1 .. Len(p) /\ p[r - 1] \in Stages
      /\ p[r - 1].done <=> ~ p[r - 1].ready
      /\ Link(p[r - 1], p[r], TRUE)
  BY <1>0, AnsweredIs
<1>2. p[r - 1].ready
  BY <1>0, <1>1
<1>f. f = Fetched(p, r - 1)
  OBVIOUS
<1> HIDE DEF f
<1>3. Changes(p, f, r - 1)
  <2>1. IsFetched(p, Fetched(p, r - 1), r - 1)
    BY <1>1, FetchedIs
  <2> QED
    BY <2>1, <1>f DEF IsFetched
<1>4. f \in Seq(Stages) /\ r \in 1 .. Len(f) /\ f[r] = p[r] /\ Len(f) = Len(p)
  BY <1>1, <1>3 DEF Changes
<1>q. q = Finished(f, r)
  OBVIOUS
<1> HIDE DEF q
<1>5. /\ Changes(f, q, r) /\ q[r].done = TRUE /\ q[r].ready = f[r].ready
      /\ q[r].out = f[r].out /\ q[r].inner = f[r].inner
  BY <1>4, <1>q, FinishedIs
<1>6. Changes(f, q, r) /\ q[r].out = p[r].out /\ (p[r].done => q[r].done)
  BY <1>1, <1>4, <1>5
<1>7. /\ Touches(p, q, r)
      /\ q[r - 1].out = Append(p[r - 1].out, p[r - 1].value)
      /\ q[r - 1].ready = FALSE
  <2> DEFINE s == r - 1
  <2>1. s = r - 1 /\ s \in 1 .. Len(p) /\ p[s].ready /\ f = Fetched(p, s)
    BY <1>1, <1>2, <1>f
  <2> HIDE DEF s
  <2>2. FetchesAndChanges(p, f, q, r, s)
    BY <1>1, <1>6, <2>1 DEF FetchesAndChanges
  <2>3. Touches(p, q, r) /\ Handed(p, q, s)
    BY <2>2, FetchingTouches
  <2> QED
    BY <2>1, <2>3 DEF Handed
<1>8. q \in Seq(Stages) /\ Len(q) = Len(p) /\ q[r].op = p[r].op
  BY <1>4, <1>5 DEF Changes
<1>9. q[r] \in Stages /\ q[r - 1] \in Stages
  BY <1>1, <1>8, ElementOfSeq
<1>10. q[r].done /\ ~ q[r].ready /\ q[r].inner = p[r].inner /\ q[r].out = p[r].out
  BY <1>1, <1>4, <1>5
<1>11. Given(q[r]) = Given(p[r])
  BY <1>1, <1>9, <1>10, GivenIs
<1>12. Link(q[r - 1], q[r], FALSE)
  BY <1>1, <1>7, <1>8, <1>9, <1>10, <1>11, LinkRefused
<1>13. Rests(q[r]) /\ (q[r].done => ~ q[r].ready) /\ ~ q[r - 1].ready
  BY <1>7, <1>10 DEF Rests
<1>14. Lazy(q, m, r + 1, TRUE)
  BY <1>1, <1>7, <1>12, <1>13, SuspendedKeeps
<1> QED
  BY <1>14 DEF q, f

LEMMA StageFilled ==
  ASSUME NEW p, NEW m, NEW r, Told(p, m, r), p[r].op.name = "flat_map",
         Accepts(p[r].op, Len(p[r - 1].out) + 1, p[r - 1].value)
  PROVE  Lazy(Filled(Fetched(p, r - 1), r, Gives(p[r].op, p[r - 1].value)), m, r, FALSE)
<1> DEFINE f == Fetched(p, r - 1)
           u == Gives(p[r].op, p[r - 1].value)
           q == Filled(f, r, u)
<1>0. Answered(p, m, r) /\ ~ p[r - 1].done
  BY DEF Told
<1>1. /\ Lazy(p, m, r, TRUE) /\ p \in Seq(Stages) /\ Len(p) \in Nat /\ m \in 1 .. Len(p)
      /\ r \in 1 .. m /\ r \in 1 .. Len(p)
      /\ p[r] \in Stages /\ ~ p[r].done /\ ~ p[r].ready /\ Given(p[r]) = p[r].out
      /\ r # 1 /\ r - 1 # r /\ Operation(p[r].op)
      /\ r - 1 \in 1 .. Len(p) /\ p[r - 1] \in Stages
      /\ p[r - 1].done <=> ~ p[r - 1].ready
      /\ Link(p[r - 1], p[r], TRUE)
  BY <1>0, AnsweredIs
<1>2. p[r - 1].ready
  BY <1>0, <1>1
<1>f. f = Fetched(p, r - 1)
  OBVIOUS
<1> HIDE DEF f
<1>3. Changes(p, f, r - 1)
  <2>1. IsFetched(p, Fetched(p, r - 1), r - 1)
    BY <1>1, FetchedIs
  <2> QED
    BY <2>1, <1>f DEF IsFetched
<1>4. f \in Seq(Stages) /\ r \in 1 .. Len(f) /\ f[r] = p[r] /\ Len(f) = Len(p)
  BY <1>1, <1>3 DEF Changes
<1>5. u \in Seq(Int)
  <2>1. p[r - 1].value \in Int
    BY <1>1 DEF Stages
  <2> QED
    BY <1>1, <2>1, GivesType
<1> HIDE DEF u
<1>q. q = Filled(f, r, u)
  OBVIOUS
<1> HIDE DEF q
<1>6. /\ Changes(f, q, r) /\ q[r].inner = u /\ q[r].ready = f[r].ready
      /\ q[r].out = f[r].out /\ q[r].done = f[r].done
  <2>1. IsFilled(f, Filled(f, r, u), r, u)
    BY <1>4, <1>5, FilledIs
  <2> QED
    BY <2>1, <1>q DEF IsFilled
<1>7. Changes(f, q, r) /\ q[r].out = p[r].out /\ (p[r].done => q[r].done)
  BY <1>1, <1>4, <1>6
<1>8. /\ Touches(p, q, r)
      /\ q[r - 1].out = Append(p[r - 1].out, p[r - 1].value)
      /\ q[r - 1].ready = FALSE
  <2> DEFINE s == r - 1
  <2>1. s = r - 1 /\ s \in 1 .. Len(p) /\ p[s].ready /\ f = Fetched(p, s)
    BY <1>1, <1>2, <1>f
  <2> HIDE DEF s
  <2>2. FetchesAndChanges(p, f, q, r, s)
    BY <1>1, <1>7, <2>1 DEF FetchesAndChanges
  <2>3. Touches(p, q, r) /\ Handed(p, q, s)
    BY <2>2, FetchingTouches
  <2> QED
    BY <2>1, <2>3 DEF Handed
<1>9. q \in Seq(Stages) /\ Len(q) = Len(p) /\ q[r].op = p[r].op
  BY <1>4, <1>6 DEF Changes
<1>10. q[r] \in Stages /\ q[r - 1] \in Stages
  BY <1>1, <1>9, ElementOfSeq
<1>11. q[r].done = p[r].done /\ q[r].ready = p[r].ready /\ q[r].out = p[r].out /\ q[r].inner = u
  BY <1>4, <1>6
<1>12. Given(q[r]) = Given(p[r])
  BY <1>1, <1>10, <1>11, GivenIs
<1>13. Link(q[r - 1], q[r], FALSE)
  <2>1. q[r].inner = Gives(p[r].op, p[r - 1].value)
    BY <1>11 DEF u
  <2> QED
    BY <1>1, <1>8, <1>9, <1>10, <1>11, <1>12, <2>1, LinkFilled
<1>14. ~ q[r - 1].ready /\ ~ (r \in m + 1 .. Len(p))
  BY <1>1, <1>8
<1>15. Lazy(q, m, r, FALSE)
  BY <1>1, <1>8, <1>11, <1>13, <1>14, StaysKeeps
<1> QED
  BY <1>15 DEF q, f, u

\* A stage asks the one before.
LEMMA StageAsks ==
  ASSUME NEW p, NEW m, NEW r, Asking(p, m, r), p[r].inner = <<>>, p[r].op.name # "take",
         NEW r2, NEW a2, a2 = Rests(p[r - 1]), r2 = IF Rests(p[r - 1]) THEN r ELSE r - 1
  PROVE  Lazy(p, m, r2, a2)
<1>1. /\ Lazy(p, m, r, FALSE) /\ p \in Seq(Stages) /\ m \in 1 .. Len(p) /\ Len(p) \in Nat
      /\ r \in 1 .. m /\ r \in 1 .. Len(p)
      /\ p[r] \in Stages /\ ~ p[r].done /\ r # 1 /\ Operation(p[r].op)
      /\ p[r - 1] \in Stages /\ Link(p[r - 1], p[r], FALSE)
  BY AskingIs
<1>2. Touches(p, p, r)
  BY <1>1, SameTouches
<1>3. Link(p[r - 1], p[r], TRUE)
  BY <1>1, LinkAsks
<1>4. ~ (r \in m + 1 .. Len(p))
  BY <1>1
<1> QED
  BY <1>1, <1>2, <1>3, <1>4, AsksKeeps

LEMMA TakeAsks ==
  ASSUME NEW p, NEW m, NEW r, Asking(p, m, r), p[r].op.name = "take", p[r].i < p[r].op.n,
         NEW r2, NEW a2, a2 = Rests(p[r - 1]), r2 = IF Rests(p[r - 1]) THEN r ELSE r - 1
  PROVE  Lazy(Counted(p, r), m, r2, a2)
<1> DEFINE q == Counted(p, r)
<1>1. /\ Lazy(p, m, r, FALSE) /\ p \in Seq(Stages) /\ m \in 1 .. Len(p) /\ Len(p) \in Nat
      /\ r \in 1 .. m /\ r \in 1 .. Len(p) /\ r - 1 \in 1 .. Len(p) /\ r - 1 # r
      /\ p[r] \in Stages /\ ~ p[r].done /\ ~ p[r].ready /\ r # 1 /\ Operation(p[r].op)
      /\ p[r - 1] \in Stages /\ Link(p[r - 1], p[r], FALSE)
  BY AskingIs
<1>q. q = Counted(p, r)
  OBVIOUS
<1> HIDE DEF q
<1>2. /\ Changes(p, q, r) /\ q[r].i = p[r].i + 1 /\ q[r].inner = p[r].inner
      /\ q[r].ready = p[r].ready /\ q[r].out = p[r].out /\ q[r].done = p[r].done
  BY <1>1, <1>q, CountedIs
<1>3. Touches(p, q, r) /\ q[r - 1] = p[r - 1]
  BY <1>1, <1>2, ChangesTouches DEF Changes
<1>4. q[r] \in Stages /\ q[r].op = p[r].op
  BY <1>1, <1>2, ElementOfSeq DEF Changes
<1>5. Given(q[r]) = Given(p[r])
  BY <1>1, <1>2, <1>4, GivenIs
<1>6. p[r].inner = <<>>
  BY <1>1 DEF Link
<1>7. Link(p[r - 1], q[r], TRUE)
  BY <1>1, <1>2, <1>4, <1>5, <1>6, LinkAsks
<1>8. ~ (r \in m + 1 .. Len(p))
  BY <1>1
<1>9. Lazy(q, m, r2, a2)
  BY <1>1, <1>2, <1>3, <1>7, <1>8, AsksKeeps
<1> QED
  BY <1>9 DEF q

------------------------------------------------------------------------------
(* The steps of the consumer.                                               *)

LEMMA ConsumerAsks ==
  ASSUME NEW p, NEW m, Lazy(p, m, m + 1, FALSE),
         NEW r2, NEW a2, a2 = Rests(p[m]), r2 = IF Rests(p[m]) THEN m + 1 ELSE m
  PROVE  Lazy(p, m, r2, a2)
<1> DEFINE r == m + 1
<1>1. /\ p \in Seq(Stages) /\ m \in 1 .. Len(p) /\ Len(p) \in Nat
      /\ r # 1 /\ r - 1 = m /\ ~ (r \in 1 .. m)
  BY DEF Lazy, Pipe, Control
<1>2. Lazy(p, m, r, FALSE) /\ r2 = IF Rests(p[r - 1]) THEN r ELSE r - 1
  BY <1>1
<1> HIDE DEF r
<1>3. Touches(p, p, r)
  BY <1>1, SameTouches
<1> QED
  BY <1>1, <1>2, <1>3, AsksKeeps

LEMMA ConsumerReturns ==
  ASSUME NEW p, NEW m, NEW a, Lazy(p, m, m + 1, a)
  PROVE  Lazy(p, m, m + 1, FALSE)
<1> DEFINE r == m + 1
<1>1. p \in Seq(Stages) /\ m \in 1 .. Len(p) /\ Len(p) \in Nat /\ r # 1 /\ ~ (r \in 1 .. m)
  BY DEF Lazy, Pipe, Control
<1>2. Lazy(p, m, r, a)
  OBVIOUS
<1> HIDE DEF r
<1>3. Touches(p, p, r)
  BY <1>1, SameTouches
<1>4. Lazy(p, m, r, FALSE)
  BY <1>1, <1>2, <1>3, StaysKeeps
<1> QED
  BY <1>4 DEF r

LEMMA ConsumerFetches ==
  ASSUME NEW p, NEW m, Lazy(p, m, m + 1, TRUE), ~ p[m].done
  PROVE  Lazy(Fetched(p, m), m, m + 1, FALSE)
<1> DEFINE r == m + 1
           q == Fetched(p, m)
<1>1. /\ p \in Seq(Stages) /\ m \in 1 .. Len(p) /\ Len(p) \in Nat
      /\ r # 1 /\ r - 1 = m /\ r # m /\ ~ (r \in 1 .. m)
  BY DEF Lazy, Pipe, Control
<1>2. Lazy(p, m, r, TRUE)
  OBVIOUS
<1>3. p[m].ready
  BY <1>1 DEF Lazy, Control, Rests
<1>q. q = Fetched(p, m)
  OBVIOUS
<1> HIDE DEF q
<1>4. /\ Changes(p, q, m)
      /\ q[m].ready = FALSE /\ q[m].out = Append(p[m].out, p[m].value)
      /\ q[m].done = p[m].done /\ q[m].i = p[m].i /\ q[m].inner = p[m].inner
  <2>1. IsFetched(p, Fetched(p, m), m)
    BY <1>1, FetchedIs
  <2> QED
    BY <2>1, <1>q DEF IsFetched
<1> HIDE DEF r
<1>5. Given(q[m]) = Given(p[m])
  <2>1. p[m] \in Stages /\ q[m] \in Stages
    BY <1>1, <1>4, ElementOfSeq DEF Changes
  <2> QED
    BY <1>3, <1>4, <2>1, GivenIs
<1>6. Touches(p, q, r)
  <2> SUFFICES ASSUME NEW j \in 1 .. Len(p)
               PROVE  /\ q[j].op = p[j].op
                      /\ p[j].done => q[j].done
                      /\ j # r => Alike(p[j], q[j]) /\ (q[j].ready => p[j].ready)
                      /\ j # r - 1 => q[j].out = p[j].out
                      /\ j # r /\ j # r - 1 => q[j] = p[j]
    BY <1>4 DEF Touches, Changes
  <2>1. CASE j = m
    BY <1>1, <1>3, <1>4, <1>5, <2>1 DEF Changes, Alike
  <2>2. CASE j # m
    <3>1. q[j] = p[j]
      BY <1>4, <2>2 DEF Changes
    <3> QED
      BY <1>1, <2>2, <3>1 DEF Alike
  <2> QED
    BY <2>1, <2>2
<1>7. r \in m + 1 .. Len(p) => q[r] = p[r]
  BY <1>1, <1>4 DEF Changes
<1>8. Lazy(q, m, r, FALSE)
  BY <1>1, <1>2, <1>6, <1>7, StaysKeeps
<1> QED
  BY <1>8 DEF q, r

------------------------------------------------------------------------------
(* The actions.                                                             *)

LEMMA BodyRuns ==
  ASSUME GenInv, NEW name, Runs(name)
  PROVE  /\ Lazy(pipe, pull, run, answered) /\ run <= pull /\ pipe[run].op.name = name
         /\ pull' = pull /\ call' = call /\ call # ""
         /\ answered \in BOOLEAN
<1>1. /\ Lazy(pipe, pull, run, answered) /\ (call = "" => run = pull + 1)
      /\ run <= pull /\ pipe[run].op.name = name /\ pull' = pull /\ call' = call
  BY DEF GenInv, Runs, This
<1>2. pull \in Nat /\ run \in Nat /\ answered \in BOOLEAN
  <2>1. Control(pipe, pull, run, answered) /\ Len(pipe) \in Nat
    BY <1>1 DEF Lazy, Pipe
  <2> QED
    BY <2>1 DEF Control
<1>3. run # pull + 1
  <2>1. run <= pull
    BY <1>1
  <2>2. pull \in Nat /\ run \in Nat
    BY <1>2
  <2> QED
    BY <2>1, <2>2
<1>4. call # ""
  BY <1>1, <1>3, Zenon
<1> QED
  BY <1>1, <1>2, <1>4

LEMMA BodyKeeps ==
  ASSUME NEW q, NEW r2, NEW a2, Lazy(q, pull, r2, a2),
         pipe' = q, run' = r2, answered' = a2, pull' = pull, call' = call, call # ""
  PROVE  GenInv'
  BY DEF GenInv

LEMMA FromKeeps == ASSUME GenInv, From PROVE GenInv'
<1>1. /\ Lazy(pipe, pull, run, answered) /\ run <= pull /\ pipe[run].op.name = "from"
      /\ pull' = pull /\ call' = call /\ call # ""
  <2>1. Runs("from")
    BY DEF From
  <2> QED
    BY <2>1, BodyRuns
<1>2. CASE This.i = Len(This.op.list)
  <2>1. pipe' = Finished(pipe, run) /\ run' = run + 1 /\ answered' = TRUE
    BY <1>2 DEF From, Finish, Suspended, Finished
  <2>2. Lazy(Finished(pipe, run), pull, run + 1, TRUE)
    BY <1>1, <1>2, FromFinishes DEF This
  <2> QED
    BY <1>1, <2>1, <2>2, BodyKeeps
<1>3. CASE This.i # Len(This.op.list)
  <2> DEFINE q == Yielded(Counted(pipe, run), run, pipe[run].op.list[pipe[run].i + 1])
  <2>1. pipe' = q /\ run' = run + 1 /\ answered' = TRUE
    BY <1>3 DEF From, Yield, Suspended, Yielded, Counted, This
  <2>2. Lazy(q, pull, run + 1, TRUE)
    BY <1>1, <1>3, FromYields DEF This
  <2> HIDE DEF q
  <2> QED
    BY <1>1, <2>1, <2>2, BodyKeeps
<1> QED
  BY <1>2, <1>3

\* Exhausts is the same in each of the others.
LEMMA ExhaustsKeeps ==
  ASSUME GenInv, NEW name, Runs(name), name # "from", Exhausts
  PROVE  GenInv'
<1>1. /\ Lazy(pipe, pull, run, answered) /\ run <= pull /\ pipe[run].op.name = name
      /\ pull' = pull /\ call' = call /\ call # "" /\ answered \in BOOLEAN
  BY BodyRuns
<1>2. answered = TRUE /\ pipe[run - 1].done
  BY <1>1 DEF Exhausts, Source
<1>3. pipe' = Finished(pipe, run) /\ run' = run + 1 /\ answered' = TRUE
  BY DEF Exhausts, Finish, Suspended, Finished
<1>4. Answered(pipe, pull, run)
  <2>1. Lazy(pipe, pull, run, TRUE)
    BY <1>1, <1>2, Zenon
  <2> QED
    BY <1>1, <2>1 DEF Answered
<1>5. Lazy(Finished(pipe, run), pull, run + 1, TRUE)
  BY <1>2, <1>4, StageExhausts
<1> QED
  BY <1>1, <1>3, <1>5, BodyKeeps

LEMMA AskingNow ==
  ASSUME GenInv, NEW name, Runs(name), name # "from", ~ answered
  PROVE  /\ Asking(pipe, pull, run) /\ pipe[run].op.name = name
         /\ pull' = pull /\ call' = call /\ call # ""
<1>1. /\ Lazy(pipe, pull, run, answered) /\ run <= pull /\ pipe[run].op.name = name
      /\ pull' = pull /\ call' = call /\ call # "" /\ answered \in BOOLEAN
  BY BodyRuns
<1>2. answered = FALSE
  BY <1>1
<1>3. Lazy(pipe, pull, run, FALSE)
  BY <1>1, <1>2, Zenon
<1> QED
  BY <1>1, <1>3 DEF Asking

LEMMA ToldNow ==
  ASSUME GenInv, NEW name, Runs(name), name # "from", Gets
  PROVE  /\ Told(pipe, pull, run) /\ pipe[run].op.name = name /\ Operation(pipe[run].op)
         /\ pipe[run - 1].value \in Int
         /\ pull' = pull /\ call' = call /\ call # ""
<1>1. /\ Lazy(pipe, pull, run, answered) /\ run <= pull /\ pipe[run].op.name = name
      /\ pull' = pull /\ call' = call /\ call # "" /\ answered \in BOOLEAN
  BY BodyRuns
<1>2. answered = TRUE /\ ~ pipe[run - 1].done
  BY <1>1 DEF Gets, Source
<1>3. Lazy(pipe, pull, run, TRUE)
  BY <1>1, <1>2, Zenon
<1>4. Answered(pipe, pull, run)
  BY <1>1, <1>3 DEF Answered
<1>5. Operation(pipe[run].op) /\ pipe[run - 1] \in Stages
  BY <1>4, AnsweredIs
<1> QED
  BY <1>1, <1>2, <1>4, <1>5 DEF Told, Stages

\* An operation that asks and is left as it is.
LEMMA AskedKeeps ==
  ASSUME GenInv, NEW name, Runs(name), name \notin {"from", "take"}, pipe[run].inner = <<>>,
         Asks, UNCHANGED pipe
  PROVE  GenInv'
<1>1. /\ Asking(pipe, pull, run) /\ pipe[run].op.name = name
      /\ pull' = pull /\ call' = call /\ call # ""
  BY AskingNow DEF Asks
<1>2. /\ answered' = Rests(pipe[run - 1])
      /\ run' = IF Rests(pipe[run - 1]) THEN run ELSE run - 1
      /\ pipe' = pipe
  BY DEF Asks, HasNext
<1>3. pipe[run].op.name # "take"
  BY <1>1
<1>4. Lazy(pipe, pull, run', answered')
  BY <1>1, <1>2, <1>3, StageAsks
<1> QED
  BY <1>1, <1>2, <1>4, BodyKeeps

LEMMA FedKeeps ==
  ASSUME GenInv, NEW name, Runs(name), name # "from", Gets, NEW v \in Int,
         Accepts(pipe[run].op, Len(pipe[run - 1].out) + 1, pipe[run - 1].value),
         Gives(pipe[run].op, pipe[run - 1].value) = <<v>>,
         Yield(Fetched(pipe, run - 1), v)
  PROVE  GenInv'
<1>1. Told(pipe, pull, run) /\ pull' = pull /\ call' = call /\ call # ""
  BY ToldNow
<1> DEFINE q == Yielded(Fetched(pipe, run - 1), run, v)
<1>2. pipe' = q /\ run' = run + 1 /\ answered' = TRUE
  BY DEF Yield, Suspended, Yielded
<1>3. Lazy(q, pull, run + 1, TRUE)
  BY <1>1, StageFed
<1> HIDE DEF q
<1> QED
  BY <1>1, <1>2, <1>3, BodyKeeps

LEMMA RefusedKeeps ==
  ASSUME GenInv, NEW name, Runs(name), name # "from", Gets,
         ~ Accepts(pipe[run].op, Len(pipe[run - 1].out) + 1, pipe[run - 1].value),
         Finish(Fetched(pipe, run - 1))
  PROVE  GenInv'
<1>1. Told(pipe, pull, run) /\ pull' = pull /\ call' = call /\ call # ""
  BY ToldNow
<1> DEFINE q == Finished(Fetched(pipe, run - 1), run)
<1>2. pipe' = q /\ run' = run + 1 /\ answered' = TRUE
  BY DEF Finish, Suspended, Finished
<1>3. Lazy(q, pull, run + 1, TRUE)
  BY <1>1, StageRefused
<1> HIDE DEF q
<1> QED
  BY <1>1, <1>2, <1>3, BodyKeeps

LEMMA TakeHasRoom ==
  ASSUME NEW p \in Stages, NEW s \in Stages, Operation(s.op), s.op.name = "take",
         Link(p, s, TRUE), ~ s.done, NEW v
  PROVE  Accepts(s.op, Len(p.out) + 1, v)
<1>1. Len(p.out) \in Nat /\ s.op.n \in Int
  BY LenProperties DEF Stages, Operation
<1>2. Len(p.out) < s.op.n
  BY DEF Link
<1> QED
  BY <1>1, <1>2 DEF Accepts

LEMMA TakeStepKeeps == ASSUME GenInv, Take PROVE GenInv'
<1>0. Runs("take") /\ "take" # "from"
  BY DEF Take
<1>1. CASE This.i < This.op.n /\ Asks /\ pipe' = Counted(pipe, run)
  <2>1. /\ Asking(pipe, pull, run) /\ pipe[run].op.name = "take"
        /\ pull' = pull /\ call' = call /\ call # ""
    BY <1>0, <1>1, AskingNow DEF Asks
  <2>2. /\ answered' = Rests(pipe[run - 1])
        /\ run' = IF Rests(pipe[run - 1]) THEN run ELSE run - 1
        /\ pipe[run].i < pipe[run].op.n
    BY <1>1 DEF Asks, HasNext, This
  <2>3. Lazy(Counted(pipe, run), pull, run', answered')
    BY <2>1, <2>2, TakeAsks
  <2> QED
    BY <1>1, <2>1, <2>3, BodyKeeps
<1>2. CASE ~ answered /\ This.i >= This.op.n /\ Finish(Counted(pipe, run))
  <2>1. /\ Asking(pipe, pull, run) /\ pipe[run].op.name = "take"
        /\ pull' = pull /\ call' = call /\ call # ""
    BY <1>0, <1>2, AskingNow
  <2> DEFINE q == Finished(Counted(pipe, run), run)
  <2>2. pipe' = q /\ run' = run + 1 /\ answered' = TRUE
    BY <1>2 DEF Finish, Suspended, Finished
  <2>3. Lazy(q, pull, run + 1, TRUE)
    BY <1>2, <2>1, TakeEnds DEF This
  <2> HIDE DEF q
  <2> QED
    BY <2>1, <2>2, <2>3, BodyKeeps
<1>3. CASE Gets /\ Yield(Fetched(pipe, run - 1), Source.value)
  <2>1. Told(pipe, pull, run) /\ pipe[run].op.name = "take" /\ pipe[run - 1].value \in Int
    BY <1>0, <1>3, ToldNow
  <2>2. /\ pipe[run] \in Stages /\ pipe[run - 1] \in Stages /\ Operation(pipe[run].op)
        /\ Link(pipe[run - 1], pipe[run], TRUE) /\ ~ pipe[run].done
    BY <2>1, AnsweredIs DEF Told
  <2>3. Accepts(pipe[run].op, Len(pipe[run - 1].out) + 1, pipe[run - 1].value)
    BY <2>1, <2>2, TakeHasRoom
  <2>4. Gives(pipe[run].op, pipe[run - 1].value) = <<pipe[run - 1].value>>
    BY <2>1 DEF Gives
  <2> QED
    BY <1>0, <1>3, <2>1, <2>3, <2>4, FedKeeps DEF Source
<1>4. CASE Exhausts
  BY <1>0, <1>4, ExhaustsKeeps
<1> QED
  BY <1>1, <1>2, <1>3, <1>4 DEF Take, Counted

LEMMA NothingInner ==
  ASSUME GenInv, NEW name, Runs(name), name # "from", name # "flat_map", ~ answered
  PROVE  pipe[run].inner = <<>>
<1>1. Asking(pipe, pull, run) /\ pipe[run].op.name = name
  BY AskingNow
<1>2. Link(pipe[run - 1], pipe[run], FALSE)
  BY <1>1, AskingIs
<1> QED
  BY <1>1, <1>2 DEF Link

LEMMA TakeWhileKeeps == ASSUME GenInv, TakeWhile PROVE GenInv'
<1>0. Runs("take_while") /\ "take_while" \notin {"from", "take", "flat_map"}
  BY DEF TakeWhile
<1>1. CASE Asks /\ UNCHANGED pipe
  <2>1. pipe[run].inner = <<>>
    BY <1>0, <1>1, NothingInner DEF Asks
  <2> QED
    BY <1>0, <1>1, <2>1, AskedKeeps
<1>2. CASE Gets /\ Source.value \in This.op.f /\ Yield(Fetched(pipe, run - 1), Source.value)
  <2>1. pipe[run].op.name = "take_while" /\ pipe[run - 1].value \in Int
    BY <1>0, <1>2, ToldNow
  <2>2. Accepts(pipe[run].op, Len(pipe[run - 1].out) + 1, pipe[run - 1].value)
    BY <1>2, <2>1 DEF Accepts, Source, This
  <2>3. Gives(pipe[run].op, pipe[run - 1].value) = <<pipe[run - 1].value>>
    BY <2>1 DEF Gives
  <2> QED
    BY <1>0, <1>2, <2>1, <2>2, <2>3, FedKeeps DEF Source
<1>3. CASE Gets /\ Source.value \notin This.op.f /\ Finish(Fetched(pipe, run - 1))
  <2>1. pipe[run].op.name = "take_while"
    BY <1>0, <1>3, ToldNow
  <2>2. ~ Accepts(pipe[run].op, Len(pipe[run - 1].out) + 1, pipe[run - 1].value)
    BY <1>3, <2>1 DEF Accepts, Source, This
  <2> QED
    BY <1>0, <1>3, <2>2, RefusedKeeps
<1>4. CASE Exhausts
  BY <1>0, <1>4, ExhaustsKeeps
<1> QED
  BY <1>1, <1>2, <1>3, <1>4 DEF TakeWhile

LEMMA MapKeeps == ASSUME GenInv, Map PROVE GenInv'
<1>0. Runs("map") /\ "map" \notin {"from", "take", "flat_map"}
  BY DEF Map
<1>1. CASE Asks /\ UNCHANGED pipe
  <2>1. pipe[run].inner = <<>>
    BY <1>0, <1>1, NothingInner DEF Asks
  <2> QED
    BY <1>0, <1>1, <2>1, AskedKeeps
<1>2. CASE Gets /\ Source.value \in DOMAIN This.op.f /\ Yield(Fetched(pipe, run - 1), This.op.f[Source.value])
  <2>1. pipe[run].op.name = "map" /\ pipe[run - 1].value \in Int /\ Operation(pipe[run].op)
    BY <1>0, <1>2, ToldNow
  <2>2. Accepts(pipe[run].op, Len(pipe[run - 1].out) + 1, pipe[run - 1].value)
    BY <1>2, <2>1 DEF Accepts, Source, This
  <2> DEFINE v == pipe[run].op.f[pipe[run - 1].value]
  <2>3. Gives(pipe[run].op, pipe[run - 1].value) = <<v>>
    BY <2>1 DEF Gives
  <2>4. v \in Int
    BY <1>2, <2>1 DEF Operation, Source, This
  <2>5. Yield(Fetched(pipe, run - 1), v)
    BY <1>2 DEF Source, This
  <2> HIDE DEF v
  <2> QED
    BY <1>0, <1>2, <2>2, <2>3, <2>4, <2>5, FedKeeps
<1>3. CASE Gets /\ Source.value \notin DOMAIN This.op.f /\ Finish(Fetched(pipe, run - 1))
  <2>1. pipe[run].op.name = "map"
    BY <1>0, <1>3, ToldNow
  <2>2. ~ Accepts(pipe[run].op, Len(pipe[run - 1].out) + 1, pipe[run - 1].value)
    BY <1>3, <2>1 DEF Accepts, Source, This
  <2> QED
    BY <1>0, <1>3, <2>2, RefusedKeeps
<1>4. CASE Exhausts
  BY <1>0, <1>4, ExhaustsKeeps
<1> QED
  BY <1>1, <1>2, <1>3, <1>4 DEF Map

LEMMA FlatMapKeeps == ASSUME GenInv, FlatMap PROVE GenInv'
<1>0. Runs("flat_map") /\ "flat_map" \notin {"from", "take"}
  BY DEF FlatMap
<1> DEFINE poured == Filled(pipe, run, Tail(pipe[run].inner))
<1>1. CASE ~ answered /\ This.inner # <<>> /\ Yield(poured, Head(This.inner))
  <2>1. /\ Asking(pipe, pull, run)
        /\ pull' = pull /\ call' = call /\ call # ""
    BY <1>0, <1>1, AskingNow
  <2> DEFINE q == Yielded(poured, run, Head(pipe[run].inner))
  <2>2. pipe' = q /\ run' = run + 1 /\ answered' = TRUE
    BY <1>1 DEF Yield, Suspended, Yielded, This
  <2>3. Lazy(q, pull, run + 1, TRUE)
    BY <1>1, <2>1, InnerYields DEF This
  <2> HIDE DEF q
  <2> QED
    BY <2>1, <2>2, <2>3, BodyKeeps
<1>2. CASE This.inner = <<>> /\ Asks /\ UNCHANGED pipe
  BY <1>0, <1>2, AskedKeeps DEF This
<1>3. CASE /\ Gets /\ Source.value \in DOMAIN This.op.f
           /\ pipe' = Filled(Fetched(pipe, run - 1), run, This.op.f[Source.value])
           /\ answered' = FALSE /\ UNCHANGED run
  <2>1. /\ Told(pipe, pull, run) /\ pipe[run].op.name = "flat_map"
        /\ pull' = pull /\ call' = call /\ call # ""
    BY <1>0, <1>3, ToldNow
  <2>2. Accepts(pipe[run].op, Len(pipe[run - 1].out) + 1, pipe[run - 1].value)
    BY <1>3, <2>1 DEF Accepts, Source, This
  <2>3. Gives(pipe[run].op, pipe[run - 1].value) = pipe[run].op.f[pipe[run - 1].value]
    BY <2>1 DEF Gives
  <2> DEFINE q == Filled(Fetched(pipe, run - 1), run, Gives(pipe[run].op, pipe[run - 1].value))
  <2>4. pipe' = q /\ run' = run /\ answered' = FALSE
    BY <1>3, <2>3 DEF Source, This
  <2>5. Lazy(q, pull, run, FALSE)
    BY <2>1, <2>2, StageFilled
  <2> HIDE DEF q
  <2> QED
    BY <2>1, <2>4, <2>5, BodyKeeps
<1>4. CASE Gets /\ Source.value \notin DOMAIN This.op.f /\ Finish(Fetched(pipe, run - 1))
  <2>1. pipe[run].op.name = "flat_map"
    BY <1>0, <1>4, ToldNow
  <2>2. ~ Accepts(pipe[run].op, Len(pipe[run - 1].out) + 1, pipe[run - 1].value)
    BY <1>4, <2>1 DEF Accepts, Source, This
  <2> QED
    BY <1>0, <1>4, <2>2, RefusedKeeps
<1>5. CASE Exhausts
  BY <1>0, <1>5, ExhaustsKeeps
<1> QED
  BY <1>1, <1>2, <1>3, <1>4, <1>5 DEF FlatMap, Filled, This

\* What the consumer's steps start from.
LEMMA ConsumerIs ==
  ASSUME GenInv, Consumes
  PROVE  /\ Lazy(pipe, pull, run, answered) /\ run = pull + 1 /\ run - 1 = pull /\ pull' = pull
         /\ answered \in BOOLEAN /\ (call = "" => ~ answered)
<1>1. Lazy(pipe, pull, run, answered) /\ run = pull + 1 /\ pull' = pull /\ (call = "" => ~ answered)
  BY DEF GenInv, Consumes
<1>2. Control(pipe, pull, run, answered) /\ Len(pipe) \in Nat
  BY <1>1 DEF Lazy, Pipe
<1>3. pull \in Nat /\ answered \in BOOLEAN
  BY <1>2 DEF Control
<1>4. (pull + 1) - 1 = pull
  BY <1>3
<1> QED
  BY <1>1, <1>3, <1>4

LEMMA ConsumerAsking ==
  ASSUME GenInv, Consumes, ~ answered, HasNext, UNCHANGED pipe
  PROVE  Lazy(pipe', pull', run', answered')
<1>1. /\ Lazy(pipe, pull, run, answered) /\ run = pull + 1 /\ run - 1 = pull /\ pull' = pull
      /\ answered \in BOOLEAN
  BY ConsumerIs
<1>2. /\ answered' = Rests(pipe[pull])
      /\ run' = IF Rests(pipe[pull]) THEN pull + 1 ELSE pull
      /\ pipe' = pipe
  BY <1>1 DEF HasNext
<1>5. answered = FALSE
  BY <1>1
<1>3. Lazy(pipe, pull, pull + 1, FALSE)
  BY <1>1, <1>5, Zenon
<1>4. Lazy(pipe, pull, run', answered')
  BY <1>2, <1>3, ConsumerAsks
<1> QED
  BY <1>1, <1>2, <1>4, Zenon

LEMMA ConsumerGetting ==
  ASSUME GenInv, Consumes, Gets, pipe' = Fetched(pipe, pull), answered' = FALSE, run' = run
  PROVE  Lazy(pipe', pull', run', answered')
<1>1. /\ Lazy(pipe, pull, run, answered) /\ run = pull + 1 /\ run - 1 = pull /\ pull' = pull
      /\ answered \in BOOLEAN
  BY ConsumerIs
<1>2. answered = TRUE /\ ~ pipe[pull].done
  BY <1>1 DEF Gets, Source
<1>3. Lazy(pipe, pull, pull + 1, TRUE)
  BY <1>1, <1>2, Zenon
<1>4. Lazy(Fetched(pipe, pull), pull, pull + 1, FALSE)
  BY <1>2, <1>3, ConsumerFetches
<1> QED
  BY <1>1, <1>4, Zenon

LEMMA CallStageKeeps == ASSUME GenInv, CallStage PROVE GenInv'
<1>1. Consumes /\ call = "" /\ HasNext /\ UNCHANGED pipe /\ call' # ""
  BY DEF CallStage
<1>2. ~ answered
  BY <1>1, ConsumerIs
<1>3. Lazy(pipe', pull', run', answered')
  BY <1>1, <1>2, ConsumerAsking
<1> QED
  BY <1>1, <1>3 DEF GenInv

LEMMA ReturnKeeps == ASSUME GenInv, Return PROVE GenInv'
<1>1. /\ Consumes /\ answered /\ answered' = FALSE /\ run' = run
      /\ pipe' = IF call = "next" /\ ~ Source.done THEN Fetched(pipe, pull) ELSE pipe
  BY DEF Return
<1>2. /\ Lazy(pipe, pull, run, answered) /\ run = pull + 1 /\ run - 1 = pull /\ pull' = pull
  BY <1>1, ConsumerIs
<1>3. Lazy(pipe', pull', run', answered')
  <2>1. CASE call = "next" /\ ~ Source.done
    <3>1. Gets /\ pipe' = Fetched(pipe, pull)
      BY <1>1, <2>1 DEF Gets
    <3> QED
      BY <1>1, <3>1, ConsumerGetting
  <2>2. CASE ~ (call = "next" /\ ~ Source.done)
    <3>1. pipe' = pipe
      BY <1>1, <2>2
    <3>2. Lazy(pipe, pull, pull + 1, answered)
      BY <1>2, Zenon
    <3>3. Lazy(pipe, pull, pull + 1, FALSE)
      BY <3>2, ConsumerReturns
    <3> QED
      BY <1>1, <1>2, <3>1, <3>3, Zenon
  <2> QED
    BY <2>1, <2>2
<1>4. run' = pull' + 1 /\ ~ answered'
  BY <1>1, <1>2
<1> QED
  BY <1>3, <1>4 DEF GenInv

LEMMA ForEachKeeps == ASSUME GenInv, ForEach PROVE GenInv'
<1>1. Consumes /\ call' # ""
  BY DEF ForEach
<1>2. CASE Asks /\ UNCHANGED pipe
  <2>1. Lazy(pipe', pull', run', answered')
    BY <1>1, <1>2, ConsumerAsking DEF Asks
  <2> QED
    BY <1>1, <2>1 DEF GenInv
<1>3. CASE Gets /\ pipe' = Fetched(pipe, pull) /\ answered' = FALSE /\ UNCHANGED run
  <2>1. Lazy(pipe', pull', run', answered')
    BY <1>1, <1>3, ConsumerGetting
  <2> QED
    BY <1>1, <2>1 DEF GenInv
<1> QED
  BY <1>2, <1>3 DEF ForEach

LEMMA DestroyStepKeeps == ASSUME GenInv, Destroy PROVE GenInv'
<1>1. /\ Lazy(pipe, pull, run, answered) /\ run = pull + 1 /\ ~ answered
      /\ pull > 1 /\ pull' = pull - 1 /\ run' = run - 1
      /\ pipe' = pipe /\ call' = call /\ answered' = answered
  BY DEF GenInv, Destroy
<1>2. Control(pipe, pull, run, answered) /\ Len(pipe) \in Nat
  BY <1>1 DEF Lazy, Pipe
<1>3. pull \in Nat /\ pull # 1 /\ answered = FALSE
  BY <1>1, <1>2 DEF Control
<1>4. run' = pull /\ (pull - 1) + 1 = pull
  BY <1>1, <1>3
<1>5. Lazy(pipe, pull, pull + 1, FALSE)
  BY <1>1, <1>3, Zenon
<1>6. Lazy(pipe, pull - 1, pull, FALSE)
  BY <1>3, <1>5, DestroyKeeps
<1>7. Lazy(pipe', pull', run', answered')
  BY <1>1, <1>3, <1>4, <1>6, Zenon
<1>8. run' = pull' + 1 /\ ~ answered'
  BY <1>1, <1>3, <1>4
<1> QED
  BY <1>7, <1>8 DEF GenInv

LEMMA GenNextKeeps == ASSUME GenInv, [GenNext]_genVars PROVE GenInv'
<1>1. CASE GenNext
  BY <1>1, FromKeeps, TakeStepKeeps, TakeWhileKeeps, MapKeeps, FlatMapKeeps, CallStageKeeps,
     ReturnKeeps, ForEachKeeps, DestroyStepKeeps DEF GenNext
<1>2. CASE UNCHANGED genVars
  BY <1>2 DEF genVars, GenInv
<1> QED
  BY <1>1, <1>2

LEMMA GenInitHolds == GenInit => GenInv
<1> SUFFICES ASSUME GenInit PROVE GenInv
  OBVIOUS
<1>1. PICK s \in Sources, ops \in Pipelines :
        pipe = [k \in 1 .. Len(ops) + 1 |->
                  Stage(IF k = 1 THEN [name |-> "from", list |-> s] ELSE ops[k - 1])]
  BY DEF GenInit
<1> DEFINE n == Len(ops) + 1
           op(k) == IF k = 1 THEN [name |-> "from", list |-> s] ELSE ops[k - 1]
<1>2. /\ s \in Seq(Int) /\ Len(ops) \in Nat /\ DOMAIN ops = 1 .. Len(ops)
      /\ \A k \in 1 .. Len(ops) : Operation(ops[k])
  BY GeneratorsAssumption DEF GeneratorsAssumption
<1>3. n \in Nat \ {0} /\ 1 \in 1 .. n
  BY <1>2
<1>4. \A k \in 2 .. n : k - 1 \in 1 .. Len(ops) /\ k # 1
  BY <1>2
<1>5. op(1) \in FromOps /\ op(1).list = s
  BY DEF FromOps
<1>6. \A k \in 2 .. n : op(k) = ops[k - 1] /\ Operation(op(k)) /\ op(k) \in AllOps
  BY <1>2, <1>4 DEF AllOps
<1>7. \A k \in 1 .. n : op(k) \in AllOps
  <2>1. \A k \in 1 .. n : k = 1 \/ k \in 2 .. n
    BY <1>3
  <2>2. op(1) \in AllOps
    BY <1>5 DEF AllOps
  <2> HIDE DEF op
  <2> QED
    BY <1>6, <2>1, <2>2
<1>8. pipe = [k \in 1 .. n |-> Stage(op(k))]
  BY <1>1
<1> HIDE DEF n, op
<1>9. ASSUME NEW k \in 1 .. n
      PROVE  /\ Stage(op(k)) \in Stages /\ Stage(op(k)).op = op(k)
             /\ ~ Stage(op(k)).ready /\ ~ Stage(op(k)).done /\ Stage(op(k)).i = 0
             /\ Stage(op(k)).inner = <<>> /\ Stage(op(k)).out = <<>>
  <2>1. op(k) \in AllOps /\ <<>> \in Seq(Int) /\ 0 \in Nat /\ 0 \in Int
    BY <1>7, EmptySeq
  <2> QED
    BY <2>1 DEF Stage, Stages
<1>10. pipe \in Seq(Stages) /\ Len(pipe) = n /\ DOMAIN pipe = 1 .. n
  <2>1. \A k \in 1 .. n : Stage(op(k)) \in Stages
    BY <1>9
  <2>2. pipe \in Seq(Stages)
    BY <1>3, <1>8, <2>1, IsASeq
  <2>3. DOMAIN pipe = 1 .. n /\ DOMAIN pipe = 1 .. Len(pipe) /\ Len(pipe) \in Nat
    BY <1>8, <2>2, LenProperties
  <2>4. n \in 1 .. Len(pipe)
    BY <1>3, <2>3
  <2>5. Len(pipe) \in 1 .. n
    BY <2>3, <2>4
  <2>6. Len(pipe) <= n /\ n <= Len(pipe) /\ Len(pipe) \in Nat /\ n \in Nat
    BY <1>3, <2>3, <2>4, <2>5
  <2>7. Len(pipe) = n
    BY <2>6
  <2> QED
    BY <2>2, <2>3, <2>7
<1>11. \A k \in 1 .. n : /\ pipe[k] \in Stages /\ pipe[k].op = op(k)
                         /\ ~ pipe[k].ready /\ ~ pipe[k].done /\ pipe[k].i = 0
                         /\ pipe[k].inner = <<>> /\ pipe[k].out = <<>> /\ Given(pipe[k]) = <<>>
  <2> SUFFICES ASSUME NEW k \in 1 .. n
               PROVE  /\ pipe[k] \in Stages /\ pipe[k].op = op(k)
                      /\ ~ pipe[k].ready /\ ~ pipe[k].done /\ pipe[k].i = 0
                      /\ pipe[k].inner = <<>> /\ pipe[k].out = <<>> /\ Given(pipe[k]) = <<>>
    OBVIOUS
  <2>1. pipe[k] = Stage(op(k))
    BY <1>8
  <2>2. /\ pipe[k] \in Stages /\ pipe[k].op = op(k)
        /\ ~ pipe[k].ready /\ ~ pipe[k].done /\ pipe[k].i = 0
        /\ pipe[k].inner = <<>> /\ pipe[k].out = <<>>
    BY <1>9, <2>1
  <2>3. Given(pipe[k]) = <<>>
    BY <2>2, GivenIs
  <2> QED
    BY <2>2, <2>3
<1>12. pull = n /\ run = n + 1 /\ call = "" /\ answered = FALSE
  BY <1>10 DEF GenInit
<1>13. Pipe(pipe)
  <2>1. pipe[1].op \in FromOps
    BY <1>3, <1>5, <1>11
  <2>2. \A k \in 2 .. n : k \in 1 .. n
    BY <1>3
  <2>3. \A k \in 2 .. n : Operation(pipe[k].op)
    BY <1>6, <1>11, <2>2
  <2> QED
    BY <1>3, <1>10, <1>11, <2>1, <2>3 DEF Pipe
<1>14. Control(pipe, n, n + 1, FALSE)
  <2>1. \A k \in n + 1 .. n : FALSE
    BY <1>3
  <2>2. \A k \in 1 .. n - 1 : ~ pipe[k].ready
    BY <1>3, <1>11
  <2> QED
    BY <1>3, <1>10, <2>1, <2>2 DEF Control
<1>15. FromLink(pipe[1])
  <2>1. pipe[1].op.list = s /\ pipe[1].i = 0 /\ Given(pipe[1]) = <<>> /\ ~ pipe[1].done
    BY <1>3, <1>5, <1>11
  <2>2. SubSeq(s, 1, 0) = <<>> /\ 0 \in 0 .. Len(s)
    BY <1>2, SubSeqEmpty, LenProperties
  <2> QED
    BY <2>1, <2>2 DEF FromLink
<1>16. ASSUME NEW k \in 2 .. n
       PROVE  Link(pipe[k - 1], pipe[k], Wants(n + 1, FALSE, k))
  <2>1. k \in 1 .. n /\ k - 1 \in 1 .. n /\ ~ Wants(n + 1, FALSE, k)
    BY <1>3 DEF Wants
  <2>2. pipe[k - 1].out = <<>> /\ pipe[k].inner = <<>> /\ pipe[k].op = op(k) /\ Given(pipe[k]) = <<>>
        /\ ~ pipe[k].done /\ pipe[k].i = 0
    BY <1>11, <2>1
  <2>3. Operation(pipe[k].op) /\ Meant(pipe[k].op, <<>>) = <<>>
    BY <1>6, <2>2, MeantEmpty
  <2>4. <<>> \o <<>> = <<>> /\ Len(<<>>) = 0
    BY EmptySeq
  <2>5. AllAccepted(pipe[k].op, <<>>, 0)
    BY DEF AllAccepted
  <2>6. Given(pipe[k]) \o pipe[k].inner = Meant(pipe[k].op, pipe[k - 1].out)
    BY <2>2, <2>3, <2>4
  <2>7. Len(pipe[k - 1].out) = 0 /\ AllAccepted(pipe[k].op, pipe[k - 1].out, Len(pipe[k - 1].out))
    BY <2>2, <2>4, <2>5
  <2> DEFINE w == Wants(n + 1, FALSE, k)
  <2>8. ~ w
    BY <2>1
  <2> HIDE DEF w
  <2>9. pipe[k].i = Len(pipe[k - 1].out) + (IF w THEN 1 ELSE 0)
    BY <2>2, <2>7, <2>8
  <2>10. Link(pipe[k - 1], pipe[k], w)
    BY <2>2, <2>6, <2>7, <2>8, <2>9 DEF Link
  <2> QED
    BY <2>10 DEF w
<1>17. Left(pipe, n)
  <2>1. \A k \in n + 1 .. n : FALSE
    BY <1>3
  <2> QED
    BY <1>10, <2>1 DEF Left
<1>18. Linked(pipe, n, n + 1, FALSE)
  BY <1>16 DEF Linked
<1>19. Lazy(pipe, n, n + 1, FALSE)
  BY <1>13, <1>14, <1>15, <1>17, <1>18 DEF Lazy
<1>20. Lazy(pipe, pull, run, answered)
  BY <1>12, <1>19, Zenon
<1> QED
  BY <1>12, <1>20 DEF GenInv

LEMMA GenInvIsLazy == GenInv => StreamsAreLazyLists
<1> SUFFICES ASSUME GenInv PROVE StreamsAreLazyLists
  OBVIOUS
<1>1. Lazy(pipe, pull, run, answered)
  BY DEF GenInv
<1>2. Pipe(pipe) /\ Control(pipe, pull, run, answered) /\ Linked(pipe, pull, run, answered)
  BY <1>1 DEF Lazy
<1>3. DOMAIN pipe = 1 .. Len(pipe) /\ Len(pipe) \in Nat /\ pull \in 1 .. Len(pipe)
  BY <1>2, PipeIsPiped DEF Pipe, Control
<1>4. StreamIsExact
  <2>1. \A k \in 1 .. Len(pipe) : Exact(pipe, k)
    BY <1>1, LazyIsExact
  <2>2. Operations = Ops(pipe)
    BY DEF Operations, Ops
  <2> QED
    BY <1>3, <2>1, <2>2 DEF StreamIsExact, Exact
<1>5. ASSUME NEW k \in 2 .. pull
      PROVE  /\ pipe[k - 1].ready => run = k
             /\ pipe[k].op.name = "take" => Len(pipe[k - 1].out) = Len(Given(pipe[k]))
  <2>1. k \in 1 .. Len(pipe) /\ k - 1 \in 1 .. Len(pipe) /\ k - 1 \in 1 .. pull - 1 /\ k \in 2 .. Len(pipe)
        /\ (k - 1) + 1 = k
    BY <1>3
  <2>2. pipe[k - 1].ready => run = k
    BY <1>2, <2>1 DEF Control
  <2>3. ASSUME pipe[k].op.name = "take"
        PROVE  Len(pipe[k - 1].out) = Len(Given(pipe[k]))
    <3>1. Link(pipe[k - 1], pipe[k], Wants(run, answered, k))
      BY <1>2 DEF Linked
    <3>2. pipe[k] \in Stages /\ pipe[k - 1] \in Stages /\ Operation(pipe[k].op)
      BY <1>2, <2>1, ElementOfSeq DEF Pipe
    <3>3. pipe[k].inner = <<>> /\ Given(pipe[k]) \o pipe[k].inner = Meant(pipe[k].op, pipe[k - 1].out)
      BY <2>3, <3>1 DEF Link
    <3>4. Given(pipe[k]) \in Seq(Int) /\ pipe[k - 1].out \in Seq(Int)
      BY <3>2, GivenIs DEF Stages
    <3>5. Given(pipe[k]) = Meant(pipe[k].op, pipe[k - 1].out)
      BY <3>3, <3>4, ConcatEmptySeq
    <3>6. \A j \in 1 .. Len(pipe[k - 1].out) : Accepts(pipe[k].op, j, pipe[k - 1].out[j])
      BY <2>3, <3>1 DEF Link, AllAccepted
    <3>7. Len(Meant(pipe[k].op, pipe[k - 1].out)) = Len(pipe[k - 1].out)
      BY <2>3, <3>2, <3>4, <3>6, TakeKeeps
    <3> QED
      BY <3>5, <3>7
  <2> QED
    BY <2>2, <2>3
<1>6. StreamIsLazy
  BY <1>5 DEF StreamIsLazy
<1> QED
  BY <1>4, <1>6 DEF StreamsAreLazyLists

\* Every generator gives the values its pipeline means, in order, each once, and none before it
\* is asked for, whatever the source, the operations and the calls (has_next, next, for_each) of
\* its consumer: is_ready tells whether a value was fetched, and has_next never resumes over one.
THEOREM StreamsStayLazyLists == GenSpec => []StreamsAreLazyLists
<1>1. GenInit => GenInv
  BY GenInitHolds
<1>2. GenInv /\ [GenNext]_genVars => GenInv'
  BY GenNextKeeps
<1>3. GenInv => StreamsAreLazyLists
  BY GenInvIsLazy
<1> QED
  BY <1>1, <1>2, <1>3, PTL DEF GenSpec

(***************************************************************************)
(* Scheduler.                                                               *)
(***************************************************************************)
USE DelayAssumption, StopAssumption, NoneAssumption

\* The queue is a heap: its top is one of its earliest items.
Heap ==
  /\ top = None => others = {}
  /\ top \notin others
  /\ top # None => \A j \in others : at[top] <= at[j]

\* The call of execute for i has not pushed it yet.
Unpushed(i) == client[i] \in {"new", "push", "push_notify"}

\* What is queued, or copied by the worker, was pushed: its scheduled time no
\* longer changes.
Called ==
  /\ \A i \in Queue : ~Unpushed(i)
  /\ pc \in {"wait_for", "run"} => executable \in Items /\ ~Unpushed(executable)

\* The worker waits for the time of its copy, and runs it after that time.
Due ==
  /\ pc = "wait_for" => deadline = at[executable]
  /\ pc = "run" => at[executable] <= now

\* Inductive, whatever the delays are.
IInv == TypeOK /\ Heap /\ Called /\ Due

LEMMA EffectiveDelayNat == \A i \in Items : EffectiveDelay(i) \in Nat
  BY DEF EffectiveDelay

\* A pop removes the top and leaves a heap.
LEMMA PopTop ==
  ASSUME TypeOK, Heap, top # None, Pop, at' = at
  PROVE  Queue' = Queue \ {top} /\ Heap' /\ top' \in Items \cup {None} /\ others' \subseteq Items
<1>1. CASE others = {} /\ top' = None /\ UNCHANGED others
  BY <1>1 DEF Queue, Heap, TypeOK
<1>2. CASE \E i \in others : /\ \A j \in others : at[i] <= at[j]
                             /\ top' = i /\ others' = others \ {i}
  BY <1>2 DEF Queue, Heap, TypeOK
<1>3. QED BY <1>1, <1>2 DEF Pop

\* A push adds the new item and leaves a heap.
LEMMA PushItem ==
  ASSUME TypeOK, Heap, NEW i \in Items, i \notin Queue, NEW t \in Nat,
         Push(i, t), at' = [at EXCEPT ![i] = t]
  PROVE  Queue' = Queue \cup {i} /\ Heap' /\ top' \in Items /\ others' \subseteq Items
<1>1. at'[i] = t /\ \A j \in Queue : at'[j] = at[j] /\ at[j] \in Nat
  BY DEF TypeOK, Queue
<1>2. CASE top # None /\ at[top] <= t
  <2>1. top' = top /\ others' = others \cup {i} BY <1>2 DEF Push
  <2>2. QED BY <1>1, <1>2, <2>1 DEF Queue, Heap, TypeOK
<1>3. CASE top = None
  <2>1. top' = i /\ others' = {} BY <1>3 DEF Push, Queue
  <2>2. QED BY <1>3, <2>1 DEF Queue, Heap, TypeOK
<1>4. CASE top # None /\ ~(at[top] <= t)
  <2>1. top' = i /\ others' = Queue BY <1>4 DEF Push
  <2>2. \A j \in Queue : t <= at[j] BY <1>4, <1>1 DEF Queue, Heap
  <2>3. QED BY <1>1, <1>4, <2>1, <2>2 DEF Queue, Heap, TypeOK
<1>5. QED BY <1>2, <1>3, <1>4

\* The worker's step from the top of the queue preserves the invariant.
LEMMA TakeTopInductive ==
  ASSUME IInv, TakeTop, UNCHANGED <<now, is_active, at, queue_lock, client, stop, runs>>
  PROVE  IInv'
<1>1. top # None /\ executable' = top /\ notified' = FALSE
  BY DEF TakeTop
<1>2. top \in Items /\ top \in Queue BY <1>1 DEF IInv, TypeOK, Queue
<1>3. CASE at[top] > now
  <2>1. pc' = "wait_for" /\ deadline' = at[top] /\ UNCHANGED <<top, others>>
    BY <1>3 DEF TakeTop
  <2>2. TypeOK' BY <1>1, <1>2, <2>1 DEF IInv, TypeOK
  <2>3. Heap' /\ Called' BY <1>1, <1>2, <2>1 DEF IInv, Heap, Called, Unpushed, Queue
  <2>4. Due' BY <1>1, <2>1 DEF Due
  <2>5. QED BY <2>2, <2>3, <2>4 DEF IInv
<1>4. CASE ~(at[top] > now)
  <2>1. pc' = "run" /\ Pop /\ UNCHANGED deadline BY <1>4 DEF TakeTop
  <2>2. Queue' = Queue \ {top} /\ Heap' /\ top' \in Items \cup {None} /\ others' \subseteq Items
    BY <1>1, <2>1, PopTop DEF IInv
  <2>3. TypeOK' BY <1>1, <1>2, <2>1, <2>2 DEF IInv, TypeOK
  <2>4. Called' BY <1>1, <1>2, <2>2 DEF IInv, Called, Unpushed
  <2>5. Due' BY <1>1, <1>2, <1>4, <2>1 DEF Due, IInv, TypeOK
  <2>6. QED BY <2>2, <2>3, <2>4, <2>5 DEF IInv
<1>5. QED BY <1>3, <1>4

LEMMA Inductive == IInv /\ [Next]_vars => IInv'
<1> SUFFICES ASSUME IInv, [Next]_vars PROVE IInv'
  OBVIOUS
<1>1. CASE Tick
  <2>1. now' \in Nat /\ now <= now' BY <1>1 DEF Tick, IInv, TypeOK
  <2>2. TypeOK' BY <1>1, <2>1 DEF Tick, IInv, TypeOK, qVars, wVars
  <2>3. Heap' /\ Called' BY <1>1 DEF Tick, IInv, Heap, Called, Unpushed, Queue, qVars, wVars
  <2>4. Due' BY <1>1, <2>1 DEF Tick, IInv, TypeOK, Due, Called, Unpushed, qVars, wVars
  <2>5. QED BY <2>2, <2>3, <2>4 DEF IInv
<1>21. CASE \E i \in Items : ExecuteTest(i)
  <2> PICK i \in Items : ExecuteTest(i) BY <1>21
  <2>1. /\ UNCHANGED <<now, is_active, top, others, at, stop, wVars, runs>>
        /\ client[i] = "new" /\ queue_lock' \in Items \cup {None}
    BY DEF ExecuteTest, IInv, TypeOK
  <2>2. \E s \in ClientStates : client' = [client EXCEPT ![i] = s]
    <3>1. CASE is_active
      <4>1. client' = [client EXCEPT ![i] = IF NeedNotify(i) THEN "push_notify" ELSE "push"]
        BY <3>1 DEF ExecuteTest
      <4>2. QED BY <4>1 DEF ClientStates
    <3>2. CASE ~is_active BY <3>2 DEF ExecuteTest, ClientStates
    <3>3. QED BY <3>1, <3>2
  <2>3. /\ client' \in [Items -> ClientStates]
        /\ \A j \in Items \ {i} : client'[j] = client[j]
    BY <2>2 DEF IInv, TypeOK
  <2>4. TypeOK' BY <2>1, <2>3 DEF IInv, TypeOK, wVars
  <2>5. \A j \in Items : ~Unpushed(j) => ~Unpushed(j)' BY <2>1, <2>3 DEF Unpushed
  <2>6. Queue \subseteq Items /\ Queue' = Queue BY <2>1 DEF IInv, TypeOK, Queue
  <2>7. Called' BY <2>1, <2>5, <2>6 DEF IInv, Called, Unpushed, wVars
  <2>8. Heap' /\ Due' BY <2>1 DEF IInv, Heap, Due, wVars
  <2>9. QED BY <2>4, <2>7, <2>8 DEF IInv
<1>22. CASE \E i \in Items : ExecutePush(i)
  <2> PICK i \in Items : ExecutePush(i) BY <1>22
  <2> DEFINE t == now + EffectiveDelay(i)
  <2>1. /\ at' = [at EXCEPT ![i] = t] /\ Push(i, t)
        /\ client' = [client EXCEPT ![i] = IF @ = "push_notify" THEN "notify" ELSE "returned"]
        /\ client[i] \in {"push", "push_notify"}
    BY DEF ExecutePush
  <2>2. t \in Nat BY EffectiveDelayNat DEF IInv, TypeOK
  <2>3. i \notin Queue BY <2>1 DEF IInv, Called, Unpushed
  <2>4. Queue' = Queue \cup {i} /\ Heap' /\ top' \in Items /\ others' \subseteq Items
    <3> HIDE DEF t
    <3> QED BY <2>1, <2>2, <2>3, PushItem DEF IInv
  <2>5. queue_lock' = None /\ UNCHANGED <<now, is_active, stop, wVars, runs>> BY DEF ExecutePush
  <2>6. at' \in [Items -> Nat]
    <3> HIDE DEF t
    <3> QED BY <2>1, <2>2 DEF IInv, TypeOK
  <2>7. /\ client' \in [Items -> ClientStates]
        /\ client'[i] \in {"notify", "returned"} /\ \A j \in Items \ {i} : client'[j] = client[j]
    BY <2>1 DEF IInv, TypeOK, ClientStates
  <2>8. TypeOK' BY <2>4, <2>5, <2>6, <2>7 DEF IInv, TypeOK, wVars
  <2>9. Called'
    <3>1. Queue \subseteq Items BY DEF IInv, TypeOK, Queue
    <3>2. QED BY <2>4, <2>5, <2>7, <3>1 DEF IInv, Called, Unpushed, wVars
  <2>10. Due'
    <3>1. pc \in {"wait_for", "run"} => executable \in Items \ {i}
      BY <2>1 DEF IInv, Called, Unpushed
    <3>2. pc \in {"wait_for", "run"} => at'[executable] = at[executable]
      <4> HIDE DEF t
      <4> QED BY <3>1, <2>1 DEF IInv, TypeOK
    <3>3. QED BY <3>2, <2>5 DEF IInv, Due, wVars
  <2>11. QED BY <2>4, <2>8, <2>9, <2>10 DEF IInv
<1>3. CASE \E i \in Items : NotifyOne(i)
  <2> PICK i \in Items : NotifyOne(i) BY <1>3
  <2>1. /\ client' = [client EXCEPT ![i] = "returned"]
        /\ UNCHANGED <<now, is_active, qVars, stop, pc, executable, deadline, runs>>
    BY DEF NotifyOne
  <2>2. notified' \in BOOLEAN BY DEF NotifyOne
  <2>3. TypeOK' BY <2>1, <2>2 DEF IInv, TypeOK, ClientStates, qVars
  <2>4. \A j \in Items : ~Unpushed(j) => ~Unpushed(j)'
    BY <2>1 DEF IInv, TypeOK, Unpushed
  <2>5. Queue \subseteq Items BY DEF IInv, TypeOK, Queue
  <2>6. Called' BY <2>1, <2>4, <2>5 DEF IInv, Called, Unpushed, Queue, qVars
  <2>7. Heap' /\ Due' BY <2>1 DEF IInv, Heap, Due, qVars
  <2>8. QED BY <2>3, <2>6, <2>7 DEF IInv
<1>4. CASE \E c \in StopCalls : StoreInactive(c)
  BY <1>4 DEF StoreInactive, IInv, TypeOK, Heap, Called, Unpushed, Due, Queue, qVars, wVars
<1>5. CASE ClearQueue
  BY <1>5 DEF ClearQueue, IInv, TypeOK, Heap, Called, Unpushed, Due, Queue, wVars
<1>6. CASE NotifyAll
  <2>1. notified' \in BOOLEAN BY <1>6 DEF NotifyAll
  <2>2. QED BY <1>6, <2>1 DEF NotifyAll, IInv, TypeOK, Heap, Called, Unpushed, Due, Queue, qVars
<1>7. CASE LoopTest
  <2>1. pc' \in {"lock", "exited"} BY <1>7 DEF LoopTest
  <2>2. QED BY <1>7, <2>1 DEF LoopTest, IInv, TypeOK, Heap, Called, Unpushed, Due, Queue, qVars
<1>8. CASE LockQueue
  <2>1. CASE TakeTop BY <1>8, <2>1, TakeTopInductive DEF LockQueue
  <2>2. CASE pc' = "wait" /\ notified' = FALSE /\ UNCHANGED <<top, others, executable, deadline>>
    BY <1>8, <2>2 DEF LockQueue, IInv, TypeOK, Heap, Called, Unpushed, Due, Queue
  <2>3. QED BY <1>8, <2>1, <2>2 DEF LockQueue
<1>9. CASE WaitReturns
  <2>1. CASE TakeTop BY <1>9, <2>1, TakeTopInductive DEF WaitReturns
  <2>2. CASE pc' = "test" /\ UNCHANGED <<top, others, executable, deadline, notified>>
    BY <1>9, <2>2 DEF WaitReturns, IInv, TypeOK, Heap, Called, Unpushed, Due, Queue
  <2>3. QED BY <1>9, <2>1, <2>2 DEF WaitReturns
<1>10. CASE WaitForReturns
  <2>1. CASE pc' \in {"test", "undefined"} /\ UNCHANGED <<top, others>>
    BY <1>10, <2>1 DEF WaitForReturns, IInv, TypeOK, Heap, Called, Unpushed, Due, Queue
  <2>2. CASE now >= deadline /\ top # None /\ pc' = "run" /\ Pop
    <3>1. Queue' = Queue \ {top} /\ Heap' /\ top' \in Items \cup {None} /\ others' \subseteq Items
      BY <1>10, <2>2, PopTop DEF IInv, WaitForReturns
    <3>2. TypeOK' BY <1>10, <2>2, <3>1 DEF WaitForReturns, IInv, TypeOK
    <3>3. Called' BY <1>10, <2>2, <3>1 DEF WaitForReturns, IInv, Called, Unpushed
    <3>4. Due' BY <1>10, <2>2 DEF WaitForReturns, IInv, Due, TypeOK
    <3>5. QED BY <3>1, <3>2, <3>3, <3>4 DEF IInv
  <2>3. QED BY <1>10, <2>1, <2>2 DEF WaitForReturns
<1>11. CASE Run
  <2>1. executable \in Items BY <1>11 DEF Run, IInv, Called, Unpushed
  <2>2. runs' \in [Items -> Nat] BY <1>11, <2>1 DEF Run, IInv, TypeOK
  <2>3. QED BY <1>11, <2>2 DEF Run, IInv, TypeOK, Heap, Called, Unpushed, Due, Queue, qVars
<1>12. CASE UNCHANGED vars
  BY <1>12 DEF vars, IInv, TypeOK, Heap, Called, Unpushed, Due, Queue, qVars, wVars
<1>13. QED
  BY <1>1, <1>21, <1>22, <1>3, <1>4, <1>5, <1>6, <1>7, <1>8, <1>9, <1>10, <1>11, <1>12
  DEF Next, Client, Worker

LEMMA Initial == Init => IInv
<1> SUFFICES ASSUME Init PROVE IInv
  OBVIOUS
<1>1. TypeOK BY DEF Init, TypeOK, ClientStates
<1>2. Heap /\ Due BY DEF Init, Heap, Due
<1>3. Called BY DEF Init, Called, Queue
<1>4. QED BY <1>1, <1>2, <1>3 DEF IInv

LEMMA Invariant == Spec => []IInv
  BY Initial, Inductive, PTL DEF Spec

\* Every reachable state of the Scheduler has its types, negative delays
\* included: scheduled times stay natural numbers.
THEOREM SchedulerTypes == Spec => []TypeOK
<1>1. IInv => TypeOK BY DEF IInv
<1>2. QED BY <1>1, Invariant, PTL

\* A step that raises the count of a function is Run, of the worker's copy.
LEMMA OnlyRunRuns ==
  ASSUME IInv, [Next]_vars, runs' # runs
  PROVE  Run
  BY DEF Next, Client, Worker, Tick, ExecuteTest, ExecutePush, NotifyOne, StoreInactive, ClearQueue,
         NotifyAll, LoopTest, LockQueue, WaitReturns, WaitForReturns, vars

\* Whatever the delays are, no function runs before its scheduled time: the
\* worker runs the copy whose time it waited for, even when it popped another.
THEOREM RunsNotEarly == Spec => NotEarly
<1>1. ASSUME IInv, [Next]_vars
      PROVE  [\A i \in Items : runs'[i] > runs[i] => at[i] <= now]_vars
  <2>1. CASE runs' = runs
    <3>1. \A i \in Items : ~(runs'[i] > runs[i]) BY <1>1, <2>1 DEF IInv, TypeOK
    <3>2. QED BY <3>1
  <2>2. CASE runs' # runs
    <3>1. Run BY <1>1, <2>2, OnlyRunRuns
    <3>2. \A i \in Items : runs'[i] > runs[i] => i = executable
      BY <1>1, <3>1 DEF Run, IInv, TypeOK
    <3>3. at[executable] <= now BY <1>1, <3>1 DEF Run, IInv, Due
    <3>4. QED BY <3>2, <3>3
  <2>3. QED BY <2>1, <2>2
<1>2. QED BY <1>1, Invariant, PTL DEF Spec, NotEarly

------------------------------------------------------------------------------
(* SleepService, whatever the delays are.                                   *)

\* When the sleep of a queued item began.
Begun(i) == at[i] - EffectiveDelay(i)

\* No sleep in the queue began later than now.
Horizon == \A i \in Queue : Begun(i) <= now

\* is_active is lowered once, and the queue is cleared only after that.
Shutdown == stop # "no" => ~is_active

\* During wait_for the copy stays in the queue, unless shutdown cleared it, and
\* only a sleep that began no earlier and is over sooner can get before it.
Awaited ==
  pc = "wait_for" =>
    \/ Queue = {} /\ ~is_active /\ queue_lock = None
    \/ /\ executable \in Queue
       /\ top # executable =>
            at[top] < at[executable] /\ Begun(executable) <= Begun(top)

\* Who has to push holds the lock.
Locked == \A i \in Items : client[i] \in {"push", "push_notify"} => queue_lock = i

\* What has run is no longer new.
Fresh == \A i \in Items : Unpushed(i) => runs[i] = 0

SleepInv == Horizon /\ Shutdown /\ Awaited /\ Locked /\ Fresh

LEMMA SleepInitial == Init => SleepInv
  BY DEF Init, SleepInv, Horizon, Shutdown, Awaited, Locked, Fresh, Unpushed, Queue

\* The turns of an item: its place in the queue, and the worker's copy of it.
LEMMA TurnsAre ==
  /\ Turns \in [Items -> Nat]
  /\ \A i \in Items : Turns[i] = (IF i \in Queue THEN 1 ELSE 0)
                                   + (IF pc = "run" /\ executable = i THEN 1 ELSE 0)
  BY DEF Turns

\* A step that moves neither changes no turn.
LEMMA SameTurns ==
  ASSUME Queue' = Queue, pc' # "run", pc # "run"
  PROVE  Turns' = Turns
<1>1. \A i \in Items : Turns'[i] = Turns[i]
  BY TurnsAre DEF Turns
<1>2. Turns = [i \in Items |-> Turns[i]] /\ Turns' = [i \in Items |-> Turns'[i]]
  BY DEF Turns
<1>3. QED BY <1>1, <1>2

\* What a step from the top to the wait or to the run does to the queue.
LEMMA TakeTopSleeps ==
  ASSUME IInv, SleepInv, TakeTop, pc # "run",
         UNCHANGED <<now, is_active, at, queue_lock, client, stop, runs>>
  PROVE  SleepInv' /\ Turns' = Turns
<1>1. top # None /\ executable' = top BY DEF TakeTop
<1>2. top \in Queue /\ Queue \subseteq Items BY <1>1 DEF IInv, TypeOK, Queue
<1>3. CASE at[top] > now
  <2>1. pc' = "wait_for" /\ UNCHANGED <<top, others>> BY <1>3 DEF TakeTop
  <2>2. Queue' = Queue BY <2>1 DEF Queue
  <2>3. Awaited' BY <1>1, <1>2, <2>1, <2>2 DEF Awaited
  <2>4. Horizon' /\ Shutdown' /\ Locked' /\ Fresh'
    BY <2>2 DEF SleepInv, Horizon, Begun, Shutdown, Locked, Fresh, Unpushed, EffectiveDelay
  <2>5. Turns' = Turns BY <2>1, <2>2, SameTurns
  <2>6. QED BY <2>3, <2>4, <2>5 DEF SleepInv
<1>4. CASE ~(at[top] > now)
  <2>1. pc' = "run" /\ Pop BY <1>4 DEF TakeTop
  <2>2. Queue' = Queue \ {top} BY <1>1, <2>1, PopTop DEF IInv
  <2>3. Awaited' BY <2>1 DEF Awaited
  <2>4. Horizon' /\ Shutdown' /\ Locked' /\ Fresh'
    BY <2>2 DEF SleepInv, Horizon, Begun, Shutdown, Locked, Fresh, Unpushed, EffectiveDelay
  <2>5. \A i \in Items : Turns'[i] = Turns[i]
    BY <1>1, <1>2, <2>1, <2>2 DEF Turns
  <2>6. Turns' = Turns BY <2>5 DEF Turns
  <2>7. QED BY <2>3, <2>4, <2>6 DEF SleepInv
<1>5. QED BY <1>3, <1>4

\* The end of wait_for at its deadline: the queue gives up its top, the worker
\* runs its copy.  If they differ, the copy overtakes the top.
LEMMA WaitForTakes ==
  ASSUME IInv, SleepInv, pc = "wait_for", now >= deadline, top # None, Pop, pc' = "run",
         UNCHANGED <<now, is_active, at, queue_lock, client, stop, executable, runs>>
  PROVE  SleepInv' /\ (Turns' = Turns \/ Abstract!Overtake(executable, top))
<1>1. Queue' = Queue \ {top} BY PopTop DEF IInv
<1>2. top \in Queue /\ executable \in Queue /\ Queue \subseteq Items
  BY DEF IInv, TypeOK, Queue, SleepInv, Awaited
<1>3. Awaited' BY DEF Awaited
<1>4. Horizon' /\ Shutdown' /\ Locked' /\ Fresh'
  BY <1>1 DEF SleepInv, Horizon, Begun, Shutdown, Locked, Fresh, Unpushed, EffectiveDelay
<1>5. /\ Turns \in [Items -> Nat] /\ Turns' \in [Items -> Nat]
      /\ \A i \in Items : Turns[i] = IF i \in Queue THEN 1 ELSE 0
      /\ \A i \in Items : Turns'[i] = (IF i \in Queue \ {top} THEN 1 ELSE 0)
                                        + (IF executable = i THEN 1 ELSE 0)
  BY <1>1 DEF Turns
<1>6. CASE top = executable
  <2>1. \A i \in Items : Turns'[i] = Turns[i] BY <1>2, <1>5, <1>6
  <2>2. Turns' = Turns BY <2>1 DEF Turns
  <2>3. QED BY <1>3, <1>4, <2>2 DEF SleepInv
<1>7. CASE top # executable
  <2>1. at[top] < at[executable] /\ Begun(executable) <= Begun(top) /\ at[executable] <= now
    BY <1>2, <1>7 DEF SleepInv, Awaited, IInv, Due
  <2>2. Turns[executable] = 1 /\ Turns[top] = 1
    BY <1>2, <1>5
  <2>3. \A i \in Items : Turns'[i] = IF i = top THEN 0 ELSE IF i = executable THEN 2 ELSE Turns[i]
    BY <1>2, <1>5, <1>7
  <2>4. Turns' = [Turns EXCEPT ![executable] = Turns[executable] + 1, ![top] = Turns[top] - 1]
    <3> DEFINE G == [Turns EXCEPT ![executable] = Turns[executable] + 1, ![top] = Turns[top] - 1]
    <3>1. \A i \in Items : G[i] = Turns'[i]
      BY <1>2, <1>5, <1>7, <2>2, <2>3
    <3>2. G = [i \in Items |-> G[i]] BY <1>5
    <3>3. Turns' = [i \in Items |-> Turns'[i]] BY <1>5
    <3> HIDE DEF G
    <3>4. G = Turns' BY <3>1, <3>2, <3>3
    <3>5. QED BY <3>4 DEF G
  <2>5. Abstract!Began(executable) <= Abstract!Began(top)
    BY <1>2, <2>1 DEF Abstract!Began, Begun
  <2>6. Abstract!Overtake(executable, top)
    BY <1>7, <2>1, <2>2, <2>4, <2>5 DEF Abstract!Overtake
  <2>7. QED BY <1>3, <1>4, <2>6 DEF SleepInv
<1>8. QED BY <1>6, <1>7

\* Every step keeps SleepInv and is a step of SleepService, or changes nothing of it.
LEMMA SleepStep ==
  ASSUME IInv, IInv', SleepInv, [Next]_vars
  PROVE  SleepInv' /\ [Abstract!Next]_(Abstract!vars)
<1> USE DEF SleepInv
<1>0. Queue \subseteq Items /\ now \in Nat /\ at \in [Items -> Nat]
  BY DEF IInv, TypeOK, Queue
<1>1. CASE Tick
  <2>1. Queue' = Queue /\ now' = now + 1 /\ UNCHANGED <<is_active, qVars, client, stop, wVars, runs>>
    BY <1>1 DEF Tick, Queue, qVars
  <2>2. Horizon'
    BY <1>0, <2>1, EffectiveDelayNat DEF Horizon, Begun, EffectiveDelay, qVars
  <2>3. Shutdown' /\ Awaited' /\ Locked' /\ Fresh'
    BY <2>1 DEF Shutdown, Awaited, Begun, EffectiveDelay, Locked, Fresh, Unpushed, qVars, wVars
  <2>4. Turns' = Turns BY <2>1 DEF Turns, wVars
  <2>5. Abstract!Tick BY <2>1, <2>4 DEF Abstract!Tick, qVars
  <2>6. QED BY <2>2, <2>3, <2>5 DEF Abstract!Next
<1>21. CASE \E i \in Items : ExecuteTest(i)
  <2> PICK i \in Items : ExecuteTest(i) BY <1>21
  <2>1. UNCHANGED <<now, is_active, top, others, at, stop, wVars, runs>> /\ client[i] = "new"
    BY DEF ExecuteTest
  <2>2. Queue' = Queue BY <2>1 DEF Queue
  <2>3. Horizon' /\ Shutdown' BY <2>1, <2>2 DEF Horizon, Begun, Shutdown, EffectiveDelay
  <2>4. \/ is_active /\ queue_lock' = i /\ queue_lock = None
        \/ ~is_active /\ UNCHANGED queue_lock
    BY DEF ExecuteTest
  <2>5. Awaited' BY <2>1, <2>2, <2>4 DEF Awaited, Begun, EffectiveDelay, wVars
  <2>6. \A j \in Items \ {i} : client'[j] = client[j] BY DEF ExecuteTest, IInv, TypeOK
  <2>7. \/ queue_lock' = i /\ queue_lock = None
        \/ UNCHANGED queue_lock /\ client'[i] = "rejected"
    BY DEF ExecuteTest, IInv, TypeOK
  <2>8. Locked' BY <2>6, <2>7 DEF Locked
  <2>9. Fresh' BY <2>1, <2>6 DEF Fresh, Unpushed
  <2>10. UNCHANGED Abstract!vars BY <2>1, <2>2 DEF Abstract!vars, Turns, wVars
  <2>11. QED BY <2>3, <2>5, <2>8, <2>9, <2>10
<1>22. CASE \E i \in Items : ExecutePush(i)
  <2> PICK i \in Items : ExecutePush(i) BY <1>22
  <2> DEFINE t == now + EffectiveDelay(i)
  <2>1. /\ at' = [at EXCEPT ![i] = t] /\ Push(i, t) /\ queue_lock' = None
        /\ client' = [client EXCEPT ![i] = IF @ = "push_notify" THEN "notify" ELSE "returned"]
        /\ client[i] \in {"push", "push_notify"} /\ UNCHANGED <<now, is_active, stop, wVars, runs>>
    BY DEF ExecutePush
  <2>2. t \in Nat /\ i \notin Queue /\ runs[i] = 0
    BY <2>1, EffectiveDelayNat DEF IInv, TypeOK, Called, Fresh, Unpushed
  <2>3. Queue' = Queue \cup {i}
    <3> HIDE DEF t
    <3> QED BY <2>1, <2>2, PushItem DEF IInv
  <2>4. at'[i] = t /\ \A j \in Items \ {i} : at'[j] = at[j] /\ client'[j] = client[j]
    <3> HIDE DEF t
    <3> QED BY <2>1 DEF IInv, TypeOK
  <2>5. client'[i] \in {"notify", "returned"} BY <2>1 DEF IInv, TypeOK
  <2>51. /\ Begun(i)' = now /\ \A j \in Queue : Begun(j)' = Begun(j)
    BY <1>0, <2>2, <2>4, EffectiveDelayNat DEF Begun, EffectiveDelay
  <2>6. Horizon' BY <1>0, <2>1, <2>3, <2>51 DEF Horizon
  <2>7. queue_lock = i BY <2>1 DEF Locked
  <2>8. Awaited'
    <3> SUFFICES ASSUME pc = "wait_for"
                 PROVE  /\ executable \in Queue
                        /\ top' # executable =>
                             at'[top'] < at'[executable] /\ Begun(executable)' <= Begun(top)'
      BY <2>1, <2>3 DEF Awaited, wVars
    <3>1. executable \in Queue BY <2>7 DEF Awaited
    <3>2. at'[executable] = at[executable] /\ Begun(executable)' = Begun(executable)
      <4>1. executable' = executable /\ executable # i BY <2>1, <2>2, <3>1 DEF wVars
      <4>2. at'[executable] = at[executable] BY <1>0, <2>4, <3>1, <4>1
      <4>3. QED BY <4>1, <4>2 DEF Begun, EffectiveDelay
    <3>3. top \in Queue BY <3>1 DEF Queue
    <3>4. top = executable \/ (at[top] < at[executable] /\ Begun(executable) <= Begun(top))
      BY <2>7 DEF Awaited
    <3>5. CASE top' = top
      <4>1. at'[top] = at[top] /\ Begun(top)' = Begun(top)
        BY <1>0, <2>2, <2>4, <3>3, <3>5 DEF Begun, EffectiveDelay
      <4>2. QED BY <3>1, <3>2, <3>4, <3>5, <4>1
    <3>6. CASE top' # top
      <4>1. top' = i /\ t < at[top]
        <5> HIDE DEF t
        <5>1. ~(at[top] <= t) /\ top' = i BY <2>1, <3>3, <3>6 DEF Push, Queue
        <5>2. at[top] \in Nat BY <1>0, <3>3
        <5>3. QED BY <2>2, <5>1, <5>2
      <4>2. at[top] <= at[executable]
        BY <1>0, <3>1, <3>3, <3>4
      <4>3. at'[top'] < at'[executable]
        <5> HIDE DEF t
        <5>1. at[top] \in Nat /\ at[executable] \in Nat BY <1>0, <3>1, <3>3
        <5>2. QED BY <2>2, <2>4, <3>2, <4>1, <4>2, <5>1
      <4>4. Begun(executable) <= now BY <3>1 DEF Horizon
      <4>5. Begun(top)' = now
        BY <2>51, <4>1 DEF Begun, EffectiveDelay
      <4>6. QED BY <3>1, <3>2, <4>3, <4>4, <4>5
    <3>7. QED BY <3>5, <3>6
  <2>9. pc = "run" => executable \in Items \ {i} BY <2>1 DEF IInv, Called, Unpushed
  <2>10. Fresh' BY <2>1, <2>4, <2>5 DEF Fresh, Unpushed
  <2>11. Shutdown' BY <2>1 DEF Shutdown
  <2>12. Locked' BY <2>4, <2>5, <2>7 DEF Locked
  <2>13. Turns[i] = 0 /\ Turns' = [Turns EXCEPT ![i] = 1]
    <3> DEFINE G == [Turns EXCEPT ![i] = 1]
    <3>1. pc' = pc /\ executable' = executable BY <2>1 DEF wVars
    <3>2. Turns[i] = 0 BY <2>2, <2>9, TurnsAre
    <3>3. \A j \in Items : G[j] = Turns'[j]
      <4>1. \A j \in Items : G[j] = IF j = i THEN 1 ELSE Turns[j] BY DEF Turns
      <4>2. \A j \in Items : Turns'[j] = IF j = i THEN 1 ELSE Turns[j]
        BY <2>2, <2>3, <2>9, <3>1 DEF Turns
      <4>3. QED BY <4>1, <4>2
    <3>4. G = [j \in Items |-> G[j]] /\ Turns' = [j \in Items |-> Turns'[j]] BY DEF Turns
    <3> HIDE DEF G
    <3>5. G = Turns' BY <3>3, <3>4
    <3>6. QED BY <3>2, <3>5 DEF G
  <2>14. Abstract!Accept(i)
    <3>1. at' = [at EXCEPT ![i] = now + [j \in Items |-> EffectiveDelay(j)][i]] BY <2>1
    <3>2. QED BY <2>1, <2>2, <2>13, <3>1 DEF Abstract!Accept
  <2>15. QED BY <2>6, <2>8, <2>10, <2>11, <2>12, <2>14 DEF Abstract!Next
<1>3. CASE \E i \in Items : NotifyOne(i)
  <2> PICK i \in Items : NotifyOne(i) BY <1>3
  <2>1. /\ client' = [client EXCEPT ![i] = "returned"]
        /\ UNCHANGED <<now, is_active, qVars, stop, pc, executable, deadline, runs>>
    BY DEF NotifyOne
  <2>2. \A j \in Items \ {i} : client'[j] = client[j] BY <2>1 DEF IInv, TypeOK
  <2>21. client'[i] = "returned" BY <2>1 DEF IInv, TypeOK
  <2>3. Queue' = Queue BY <2>1 DEF Queue, qVars
  <2>4. SleepInv'
    BY <2>1, <2>2, <2>21, <2>3
    DEF Horizon, Begun, Shutdown, Awaited, Locked, Fresh, Unpushed, EffectiveDelay, qVars
  <2>5. UNCHANGED Abstract!vars BY <2>1, <2>3 DEF Abstract!vars, Turns, qVars
  <2>6. QED BY <2>4, <2>5
<1>4. CASE \E c \in StopCalls : StoreInactive(c)
  <2>1. /\ is_active' = FALSE /\ stop = "no"
        /\ UNCHANGED <<now, qVars, client, wVars, runs>>
    BY <1>4 DEF StoreInactive
  <2>2. Queue' = Queue BY <2>1 DEF Queue, qVars
  <2>3. SleepInv'
    BY <2>1, <2>2
    DEF Horizon, Begun, Shutdown, Awaited, Locked, Fresh, Unpushed, EffectiveDelay, qVars, wVars
  <2>4. Turns' = Turns BY <2>1, <2>2 DEF Turns, wVars
  <2>5. CASE is_active
    <3>1. Abstract!Stop BY <2>1, <2>4, <2>5 DEF Abstract!Stop, qVars
    <3>2. QED BY <2>3, <3>1 DEF Abstract!Next
  <2>6. CASE ~is_active
    <3>1. is_active' = is_active BY <2>1, <2>6 DEF IInv, TypeOK
    <3>2. QED BY <2>1, <2>3, <2>4, <3>1 DEF Abstract!vars, qVars
  <2>7. QED BY <2>5, <2>6
<1>5. CASE ClearQueue
  <2>1. /\ top' = None /\ stop = "clear" /\ stop' = "notify" /\ queue_lock = None
        /\ UNCHANGED <<now, is_active, at, queue_lock, client, wVars, runs>>
    BY <1>5 DEF ClearQueue
  <2>2. Queue' = {} BY <2>1 DEF Queue
  <2>3. ~is_active BY <2>1 DEF Shutdown
  <2>4. SleepInv' BY <2>1, <2>2, <2>3 DEF Horizon, Shutdown, Awaited, Locked, Fresh, Unpushed, wVars
  <2>5. Turns' = [i \in Items |-> IF i \in Queue THEN Turns[i] - 1 ELSE Turns[i]]
    BY <2>1, <2>2 DEF Turns, wVars
  <2>6. \A i \in Queue : Turns[i] > 0 BY <1>0, TurnsAre
  <2>7. Abstract!Drop(Queue) BY <2>1, <2>3, <2>5, <2>6 DEF Abstract!Drop
  <2>8. QED BY <1>0, <2>4, <2>7 DEF Abstract!Next
<1>6. CASE NotifyAll
  <2>1. /\ stop = "notify" /\ UNCHANGED <<now, is_active, qVars, client, pc, executable, deadline, runs>>
    BY <1>6 DEF NotifyAll
  <2>2. Queue' = Queue BY <2>1 DEF Queue, qVars
  <2>3. SleepInv'
    BY <2>1, <2>2
    DEF Horizon, Begun, Shutdown, Awaited, Locked, Fresh, Unpushed, EffectiveDelay, qVars
  <2>4. UNCHANGED Abstract!vars BY <2>1, <2>2 DEF Abstract!vars, Turns, qVars
  <2>5. QED BY <2>3, <2>4
<1>7. CASE LoopTest
  <2>1. /\ pc = "test" /\ pc' \in {"lock", "exited"}
        /\ UNCHANGED <<now, is_active, qVars, client, stop, executable, runs>>
    BY <1>7 DEF LoopTest
  <2>2. Queue' = Queue BY <2>1 DEF Queue, qVars
  <2>3. SleepInv'
    BY <2>1, <2>2
    DEF Horizon, Begun, Shutdown, Awaited, Locked, Fresh, Unpushed, EffectiveDelay, qVars
  <2>4. Turns' = Turns BY <2>1, <2>2, SameTurns
  <2>5. UNCHANGED Abstract!vars BY <2>1, <2>4 DEF Abstract!vars, qVars
  <2>6. QED BY <2>3, <2>5
<1>8. ASSUME TakeTop, pc # "run", UNCHANGED <<now, is_active, at, queue_lock, client, stop, runs>>
      PROVE  SleepInv' /\ UNCHANGED Abstract!vars
  BY <1>8, TakeTopSleeps DEF Abstract!vars
<1>9. ASSUME pc # "run", pc' \in {"wait", "test", "undefined"},
             UNCHANGED <<now, is_active, at, queue_lock, client, stop, runs, top, others, executable>>
      PROVE  SleepInv' /\ UNCHANGED Abstract!vars
  <2>1. Queue' = Queue BY <1>9 DEF Queue
  <2>2. SleepInv'
    BY <1>9, <2>1 DEF Horizon, Begun, Shutdown, Awaited, Locked, Fresh, Unpushed, EffectiveDelay
  <2>3. Turns' = Turns BY <1>9, <2>1, SameTurns
  <2>4. QED BY <1>9, <2>2, <2>3 DEF Abstract!vars
<1>10. CASE LockQueue BY <1>8, <1>9, <1>10 DEF LockQueue
<1>11. CASE WaitReturns BY <1>8, <1>9, <1>11 DEF WaitReturns
<1>12. CASE WaitForReturns
  <2>1. /\ pc = "wait_for"
        /\ UNCHANGED <<now, is_active, at, queue_lock, client, stop, executable, deadline, notified, runs>>
    BY <1>12 DEF WaitForReturns
  <2>2. CASE pc' \in {"test", "undefined"} /\ UNCHANGED <<top, others>>
    BY <1>9, <2>1, <2>2
  <2>3. CASE now >= deadline /\ top # None /\ pc' = "run" /\ Pop
    <3>1. SleepInv' /\ (Turns' = Turns \/ Abstract!Overtake(executable, top))
      BY <2>1, <2>3, WaitForTakes
    <3>2. CASE Turns' = Turns BY <2>1, <3>1, <3>2 DEF Abstract!vars
    <3>3. CASE Abstract!Overtake(executable, top)
      <4>1. top \in Items /\ executable \in Items
        BY <2>1, <2>3 DEF IInv, TypeOK, Called
      <4>2. QED BY <3>1, <3>3, <4>1 DEF Abstract!Next
    <3>4. QED BY <3>1, <3>2, <3>3
  <2>4. QED BY <1>12, <2>2, <2>3 DEF WaitForReturns
<1>13. CASE Run
  <2> DEFINE e == executable
  <2>1. /\ runs' = [runs EXCEPT ![e] = @ + 1] /\ pc = "run" /\ pc' = "test"
        /\ UNCHANGED <<now, is_active, qVars, client, stop>>
    BY <1>13 DEF Run
  <2>2. e \in Items /\ ~Unpushed(e) /\ at[e] <= now
    BY <2>1 DEF IInv, Called, Due
  <2>3. Queue' = Queue BY <2>1 DEF Queue, qVars
  <2>4. \A i \in Items \ {e} : runs'[i] = runs[i]
    BY <2>1 DEF IInv, TypeOK
  <2>5. SleepInv'
    BY <2>1, <2>2, <2>3, <2>4
    DEF Horizon, Begun, Shutdown, Awaited, Locked, Fresh, Unpushed, EffectiveDelay, qVars
  <2>6. Turns[e] > 0 BY <2>1, <2>2, TurnsAre
  <2>7. Turns' = [Turns EXCEPT ![e] = @ - 1]
    <3> DEFINE G == [Turns EXCEPT ![e] = @ - 1]
    <3>1. \A i \in Items : G[i] = IF i = e THEN Turns[i] - 1 ELSE Turns[i] BY DEF Turns
    <3>2. \A i \in Items : Turns'[i] = IF i = e THEN Turns[i] - 1 ELSE Turns[i]
      BY <2>1, <2>2, <2>3 DEF Turns
    <3>3. G = [i \in Items |-> G[i]] /\ Turns' = [i \in Items |-> Turns'[i]] BY DEF Turns
    <3> HIDE DEF G
    <3>4. G = Turns' BY <3>1, <3>2, <3>3
    <3>5. QED BY <3>4 DEF G
  <2>8. Abstract!Wake(e) BY <2>1, <2>2, <2>6, <2>7 DEF Abstract!Wake, qVars
  <2>9. QED BY <2>2, <2>5, <2>8 DEF Abstract!Next
<1>14. CASE UNCHANGED vars
  <2>1. Queue' = Queue BY <1>14 DEF vars, qVars, Queue
  <2>2. Turns' = Turns BY <1>14, <2>1 DEF vars, wVars, Turns
  <2>3. QED
    BY <1>14, <2>1, <2>2 DEF vars, qVars, wVars, Horizon, Begun, Shutdown, Awaited, Locked, Fresh,
       Unpushed, EffectiveDelay, Abstract!vars
<1>15. QED
  BY <1>1, <1>21, <1>22, <1>3, <1>4, <1>5, <1>6, <1>7, <1>10, <1>11, <1>12, <1>13, <1>14
  DEF Next, Client, Worker

\* Whatever the delays are, the Scheduler implements SleepService: an accepted
\* function has one turn and does not run before its time, and its turn is lost
\* only after a shutdown or to a longer sleep, although the worker pops the
\* queue after a wait in which clients push and shutdown clears.
THEOREM SchedulerImplementsSleeps == Spec => ImplementsSleeps
<1>1. Init => Abstract!Init
  BY DEF Init, Abstract!Init, Turns, Queue
<1>2. IInv /\ IInv' /\ SleepInv /\ [Next]_vars => SleepInv' /\ [Abstract!Next]_(Abstract!vars)
  BY SleepStep
<1>3. QED BY <1>1, <1>2, SleepInitial, Invariant, PTL DEF Spec, ImplementsSleeps, Abstract!Spec

------------------------------------------------------------------------------
(* Notifications, whatever the delays are.                                  *)

\* A call of execute has pushed its item and has yet to notify.
Telling == \E i \in Items : client[i] = "notify"

\* Who pushes without a notification found an earlier item at the top, which
\* stays there until the push.
Urgent == \A i \in Items : client[i] = "push" => top # None /\ at[top] <= now + EffectiveDelay(i)

\* No notification of an accepted call is lost: a worker that waits although
\* an item is queued, or longer than until the item that is due first, is
\* notified, or about to be.
NoLostNotification ==
  top # None /\ (pc = "wait" \/ (pc = "wait_for" /\ at[top] < deadline)) => notified \/ Telling

WakeInv == Locked /\ Urgent /\ NoLostNotification

LEMMA WakeInitial == Init => WakeInv
  BY DEF Init, WakeInv, Locked, Urgent, NoLostNotification

\* A worker that takes the top does not wait, or waits no longer than for it.
LEMMA TakeTopWakes ==
  ASSUME IInv, WakeInv, TakeTop, queue_lock = None,
         UNCHANGED <<now, is_active, at, queue_lock, client, stop, runs>>
  PROVE  WakeInv'
<1>1. Locked' /\ \A i \in Items : client'[i] # "push"
  BY DEF WakeInv, Locked
<1>2. Urgent' BY <1>1 DEF Urgent
<1>3. pc' = "run" \/ (pc' = "wait_for" /\ deadline' = at[top] /\ top' = top)
  BY DEF TakeTop
<1>4. NoLostNotification'
  <2>1. CASE pc' = "run" BY <2>1 DEF NoLostNotification
  <2>2. CASE pc' = "wait_for" /\ deadline' = at[top] /\ top' = top
    <3>1. top # None => at'[top'] \in Nat /\ deadline' = at'[top'] BY <2>2 DEF IInv, TypeOK
    <3>2. QED BY <2>2, <3>1 DEF NoLostNotification
  <2>3. QED BY <1>3, <2>1, <2>2
<1>5. QED BY <1>1, <1>2, <1>4 DEF WakeInv

\* A step that leaves the queue and the calls alone, and starts no wait.
LEMMA AsideWakes ==
  ASSUME IInv, WakeInv, UNCHANGED <<now, top, at, queue_lock, client>>,
         pc' = pc \/ pc' \notin {"wait", "wait_for"}, deadline' = deadline, notified => notified'
  PROVE  WakeInv'
<1>1. Locked' BY DEF WakeInv, Locked
<1>2. Urgent' BY DEF WakeInv, Urgent, EffectiveDelay
<1>3. NoLostNotification' BY DEF WakeInv, NoLostNotification, Telling
<1>4. QED BY <1>1, <1>2, <1>3 DEF WakeInv

LEMMA WakeInductive == IInv /\ WakeInv /\ [Next]_vars => WakeInv'
<1> SUFFICES ASSUME IInv, WakeInv, [Next]_vars PROVE WakeInv'
  OBVIOUS
<1>0. now \in Nat /\ (top # None => top \in Items /\ at[top] \in Nat) BY DEF IInv, TypeOK
<1>1. CASE Tick
  <2>1. now' = now + 1 /\ UNCHANGED <<top, at, queue_lock, client, pc, deadline, notified>>
    BY <1>1 DEF Tick, qVars, wVars
  <2>2. Locked' BY <2>1 DEF WakeInv, Locked
  <2>3. Urgent'
    <3>1. ASSUME NEW i \in Items, client[i] = "push"
          PROVE  top # None /\ at[top] <= now + 1 + EffectiveDelay(i)
      BY <1>0, <3>1, EffectiveDelayNat DEF WakeInv, Urgent
    <3>2. QED BY <2>1, <3>1 DEF Urgent, EffectiveDelay
  <2>4. NoLostNotification' BY <2>1 DEF WakeInv, NoLostNotification, Telling
  <2>5. QED BY <2>2, <2>3, <2>4 DEF WakeInv
<1>21. CASE \E i \in Items : ExecuteTest(i)
  <2> PICK i \in Items : ExecuteTest(i) BY <1>21
  <2>1. /\ UNCHANGED <<now, top, others, at, pc, deadline, notified>>
        /\ client[i] = "new" /\ queue_lock = None
        /\ \A j \in Items \ {i} : client'[j] = client[j]
    BY DEF ExecuteTest, IInv, TypeOK, wVars
  <2>2. \A j \in Items : client[j] \notin {"push", "push_notify"} BY <2>1 DEF WakeInv, Locked
  <2>3. \/ queue_lock' = i /\ client'[i] = IF NeedNotify(i) THEN "push_notify" ELSE "push"
        \/ client'[i] = "rejected"
    BY DEF ExecuteTest, IInv, TypeOK
  <2>4. Locked' BY <2>1, <2>2, <2>3 DEF Locked
  <2>5. Urgent'
    <3>1. client'[i] = "push" => ~NeedNotify(i) BY <2>3
    <3>2. client'[i] = "push" => top # None /\ at[top] <= now + EffectiveDelay(i)
      BY <1>0, <3>1, EffectiveDelayNat DEF NeedNotify
    <3>3. QED BY <2>1, <2>2, <3>2 DEF Urgent, EffectiveDelay
  <2>6. Telling => Telling' BY <2>1 DEF Telling
  <2>7. NoLostNotification' BY <2>1, <2>6 DEF WakeInv, NoLostNotification
  <2>8. QED BY <2>4, <2>5, <2>7 DEF WakeInv
<1>22. CASE \E i \in Items : ExecutePush(i)
  <2> PICK i \in Items : ExecutePush(i) BY <1>22
  <2> DEFINE t == now + EffectiveDelay(i)
  <2>1. /\ at' = [at EXCEPT ![i] = t] /\ Push(i, t) /\ queue_lock' = None
        /\ client' = [client EXCEPT ![i] = IF @ = "push_notify" THEN "notify" ELSE "returned"]
        /\ client[i] \in {"push", "push_notify"} /\ UNCHANGED <<now, pc, deadline, notified>>
    BY DEF ExecutePush, wVars
  <2>2. client'[i] \in {"notify", "returned"} /\ \A j \in Items \ {i} : client'[j] = client[j]
    BY <2>1 DEF IInv, TypeOK
  <2>3. \A j \in Items \ {i} : client[j] \notin {"push", "push_notify"} BY <2>1 DEF WakeInv, Locked
  <2>4. Locked' /\ Urgent' BY <2>2, <2>3 DEF Locked, Urgent
  <2>5. CASE client[i] = "push_notify"
    <3>1. client'[i] = "notify" BY <2>1, <2>5 DEF IInv, TypeOK
    <3>2. Telling' BY <3>1 DEF Telling
    <3>3. QED BY <2>4, <3>2 DEF WakeInv, NoLostNotification
  <2>6. CASE client[i] = "push"
    <3>1. top # None /\ at[top] <= t BY <2>6 DEF WakeInv, Urgent
    <3>2. top' = top BY <2>1, <3>1 DEF Push
    <3>3. top # i BY <2>6, <3>1 DEF IInv, Called, Unpushed, Queue
    <3>4. at'[top'] = at[top]
      <4> HIDE DEF t
      <4> QED BY <1>0, <2>1, <3>1, <3>2, <3>3 DEF IInv, TypeOK
    <3>5. Telling => Telling' BY <2>2, <2>6 DEF Telling
    <3>6. NoLostNotification' BY <2>1, <3>1, <3>2, <3>4, <3>5 DEF WakeInv, NoLostNotification
    <3>7. QED BY <2>4, <3>6 DEF WakeInv
  <2>7. QED BY <2>1, <2>5, <2>6
<1>3. CASE \E i \in Items : NotifyOne(i)
  <2> PICK i \in Items : NotifyOne(i) BY <1>3
  <2>1. /\ UNCHANGED <<now, top, at, queue_lock, pc, deadline>> /\ client'[i] = "returned"
        /\ \A j \in Items \ {i} : client'[j] = client[j]
        /\ pc \in {"wait", "wait_for"} => notified'
    BY DEF NotifyOne, Waiting, qVars, IInv, TypeOK
  <2>2. Locked' BY <2>1 DEF WakeInv, Locked
  <2>3. Urgent' BY <2>1 DEF WakeInv, Urgent, EffectiveDelay
  <2>4. NoLostNotification' BY <2>1 DEF NoLostNotification
  <2>5. QED BY <2>2, <2>3, <2>4 DEF WakeInv
<1>4. CASE \E c \in StopCalls : StoreInactive(c)
  BY <1>4, AsideWakes DEF StoreInactive, qVars, wVars
<1>5. CASE ClearQueue
  <2>1. /\ top' = None /\ queue_lock = None
        /\ UNCHANGED <<at, queue_lock, client>>
    BY <1>5 DEF ClearQueue
  <2>2. \A j \in Items : client'[j] \notin {"push", "push_notify"} BY <2>1 DEF WakeInv, Locked
  <2>3. QED BY <2>1, <2>2 DEF WakeInv, Locked, Urgent, NoLostNotification
<1>6. CASE NotifyAll
  <2>1. notified => notified' BY <1>6 DEF NotifyAll
  <2>2. QED BY <1>6, <2>1, AsideWakes DEF NotifyAll, qVars
<1>7. CASE LoopTest
  <2>1. pc' \in {"lock", "exited"} BY <1>7 DEF LoopTest
  <2>2. QED BY <1>7, <2>1, AsideWakes DEF LoopTest, qVars
<1>8. CASE LockQueue
  <2>1. CASE TakeTop BY <1>8, <2>1, TakeTopWakes DEF LockQueue
  <2>2. CASE top = None /\ UNCHANGED <<top, others, executable, deadline>>
    BY <1>8, <2>2 DEF LockQueue, WakeInv, Locked, Urgent, NoLostNotification
  <2>3. QED BY <1>8, <2>1, <2>2 DEF LockQueue
<1>9. CASE WaitReturns
  <2>1. CASE TakeTop BY <1>9, <2>1, TakeTopWakes DEF WaitReturns
  <2>2. CASE pc' = "test" /\ UNCHANGED <<top, others, executable, deadline, notified>>
    BY <1>9, <2>2, AsideWakes DEF WaitReturns
  <2>3. QED BY <1>9, <2>1, <2>2 DEF WaitReturns
<1>10. CASE WaitForReturns
  <2>1. /\ queue_lock = None /\ UNCHANGED <<at, queue_lock, client>>
        /\ pc' \in {"test", "run", "undefined"}
    BY <1>10 DEF WaitForReturns
  <2>2. \A j \in Items : client'[j] \notin {"push", "push_notify"} BY <2>1 DEF WakeInv, Locked
  <2>3. QED BY <2>1, <2>2 DEF WakeInv, Locked, Urgent, NoLostNotification
<1>11. CASE Run
  BY <1>11, AsideWakes DEF Run, qVars
<1>12. CASE UNCHANGED vars
  BY <1>12, AsideWakes DEF vars, qVars, wVars
<1>13. QED
  BY <1>1, <1>21, <1>22, <1>3, <1>4, <1>5, <1>6, <1>7, <1>8, <1>9, <1>10, <1>11, <1>12
  DEF Next, Client, Worker

\* execute notifies only when the new item becomes the top, and after the
\* unlock; yet the worker never sleeps past the time of an item that is queued
\* unless a notification is under way, whatever the delays are.
THEOREM NoNotificationIsLost == Spec => []NoLostNotification
<1>1. Spec => [](IInv /\ WakeInv)
  BY Initial, Inductive, WakeInitial, WakeInductive, PTL DEF Spec
<1>2. WakeInv => NoLostNotification BY DEF WakeInv
<1>3. QED BY <1>1, <1>2, PTL
==============================================================================
