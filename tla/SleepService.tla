----------------------------- MODULE SleepService -----------------------------
(***************************************************************************)
(* What co_await of a duration promises: a sleep that was accepted has one *)
(* turn to end, and does not end before its time.  It loses its turn only  *)
(* to a sleep that began no later and takes longer, once that one is due,  *)
(* or after a shutdown.  Sleeps of equal length never do.                  *)
(***************************************************************************)
EXTENDS Integers

CONSTANTS
  Sleeps,
  Duration   \* of each sleep

VARIABLES
  time,      \* the clock
  open,      \* there was no shutdown
  due,       \* when each accepted sleep may end
  turns,     \* how often each sleep is still to end
  wakes      \* how often it has ended

vars == <<time, open, due, turns, wakes>>

Init ==
  /\ time = 0 /\ open = TRUE /\ due = [s \in Sleeps |-> 0]
  /\ turns = [s \in Sleeps |-> 0] /\ wakes = [s \in Sleeps |-> 0]

Tick == time' = time + 1 /\ UNCHANGED <<open, due, turns, wakes>>

Stop == open /\ open' = FALSE /\ UNCHANGED <<time, due, turns, wakes>>

Accept(s) ==
  /\ turns[s] = 0 /\ wakes[s] = 0
  /\ turns' = [turns EXCEPT ![s] = 1]
  /\ due' = [due EXCEPT ![s] = time + Duration[s]]
  /\ UNCHANGED <<time, open, wakes>>

Wake(s) ==
  /\ turns[s] > 0 /\ due[s] <= time
  /\ turns' = [turns EXCEPT ![s] = @ - 1]
  /\ wakes' = [wakes EXCEPT ![s] = @ + 1]
  /\ UNCHANGED <<time, open, due>>

Began(s) == due[s] - Duration[s]

Overtake(s, t) ==
  /\ turns[s] > 0 /\ turns[t] > 0
  /\ due[t] < due[s] /\ due[s] <= time
  /\ Began(s) <= Began(t)
  /\ turns' = [turns EXCEPT ![s] = @ + 1, ![t] = @ - 1]
  /\ UNCHANGED <<time, open, due, wakes>>

Drop(S) ==
  /\ ~open
  /\ \A s \in S : turns[s] > 0
  /\ turns' = [s \in Sleeps |-> IF s \in S THEN turns[s] - 1 ELSE turns[s]]
  /\ UNCHANGED <<time, open, due, wakes>>

Next ==
  \/ Tick
  \/ Stop
  \/ \E s \in Sleeps : Accept(s) \/ Wake(s)
  \/ \E s, t \in Sleeps : Overtake(s, t)
  \/ \E S \in SUBSET Sleeps : Drop(S)

Spec == Init /\ [][Next]_vars
==============================================================================
