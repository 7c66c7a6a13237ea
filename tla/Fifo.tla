--------------------------------- MODULE Fifo ---------------------------------
(***************************************************************************)
(* What a channel promises: values are handed to readers in the order in   *)
(* which they were written, each one at most once.  The writer of a value  *)
(* that is not handed over yet may be destroyed, which withdraws the value, *)
(* and closing the channel drops what is left.                              *)
(***************************************************************************)
EXTENDS Sequences, SequencesExt

CONSTANT Values

VARIABLES
  pending,   \* written, not yet handed over, in the order of the writes
  delivered  \* handed over to readers, in that order

vars == <<pending, delivered>>

Init == pending = <<>> /\ delivered = <<>>

Written == ToSet(pending) \cup ToSet(delivered)

Write(v) ==
  /\ v \notin Written
  /\ pending' = Append(pending, v) /\ UNCHANGED delivered

Deliver ==
  /\ pending # <<>>
  /\ pending' = Tail(pending) /\ delivered' = Append(delivered, Head(pending))

\* A reader was waiting for the value.
WriteThrough(v) ==
  /\ pending = <<>> /\ v \notin Written
  /\ delivered' = Append(delivered, v) /\ UNCHANGED pending

Withdraw(k) == pending' = RemoveAt(pending, k) /\ UNCHANGED delivered

DropAll == pending' = <<>> /\ UNCHANGED delivered

Next == \/ \E v \in Values : Write(v) \/ WriteThrough(v)
        \/ \E k \in DOMAIN pending : Withdraw(k)
        \/ Deliver
        \/ DropAll

Spec == Init /\ [][Next]_vars
==============================================================================
