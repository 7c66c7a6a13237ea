------------------------------ MODULE TimeSource ------------------------------
(***************************************************************************)
(* A TimeSource (time_source.cpp) with its attached clocks (clock.cpp).    *)
(* The user's thread attaches and detaches the node and clocks; the        *)
(* executor's thread runs on_parameter_event and clock_cb, one at a time   *)
(* because both subscriptions are in the node's default callback group.    *)
(* The reads and writes of use_sim_time in attachNode, and the publisher   *)
(* of parameter events, are in ParameterSystem.                            *)
(***************************************************************************)
EXTENDS Naturals, Sequences, ParameterLists

CONSTANTS
  Clocks,          \* clocks of type RCL_ROS_TIME
  MaxClockMsgs     \* bound: messages on /clock

User == "user"
Executor == "executor"
Threads == {User, Executor}
ClockValues == [active : BOOLEAN, time : 0..MaxClockMsgs]

VARIABLES
  attached,                \* node_base_ and the other interfaces are set
  parameter_subscription, clock_subscription,   \* they exist
  events, clock_msgs,      \* what their subscriptions hold, oldest first
  parameter_state,         \* SET_TRUE, SET_FALSE, UNSET or not yet any of them
  ros_time_active,
  last_msg,                \* time of last_msg_set_, 0 when there is none
  associated_clocks,
  clock,                   \* of each clock: override active, override time
  pc, todo,                \* of each thread: its step, the bools to apply
  ticks,                   \* messages sent on /clock
  skipped,                 \* history: last_msg_ was cached and not set
  leftover,                \* history: detachNode left the clocks active
  undefined                \* detachNode raced a callback

sourceVars == <<attached, parameter_subscription, clock_subscription, events, clock_msgs,
  parameter_state, ros_time_active, last_msg, associated_clocks, clock, pc, todo, ticks,
  skipped, leftover, undefined>>
interfaces == <<attached, parameter_subscription, leftover, undefined>>
flags == <<parameter_state, ros_time_active>>
clocks == <<associated_clocks, clock, skipped>>
queues == <<events, clock_msgs, clock_subscription, last_msg, ticks>>

SourceInit ==
  /\ attached = FALSE /\ parameter_subscription = FALSE /\ clock_subscription = FALSE
  /\ events = <<>> /\ clock_msgs = <<>>
  /\ parameter_state = "indeterminate"   \* no constructor initialises it
  /\ ros_time_active = FALSE /\ last_msg = 0
  /\ associated_clocks = {} /\ clock = [c \in Clocks |-> [active |-> FALSE, time |-> 0]]
  /\ pc = [t \in Threads |-> "idle"] /\ todo = [t \in Threads |-> <<>>]
  /\ ticks = 0 /\ skipped = FALSE /\ leftover = FALSE /\ undefined = FALSE

Goto(t, step) == pc' = [pc EXCEPT ![t] = step]

\* set_clock for the clocks S, under clock_list_lock_.
SetClocks(S, active, time) ==
  clock' = [c \in Clocks |-> IF c \in S THEN [active |-> active, time |-> time] ELSE clock[c]]

-------------------------------------------------------------------------------
AttachClock_Zero(c) ==
  /\ pc[User] = "idle" /\ c \notin associated_clocks
  /\ associated_clocks' = associated_clocks \cup {c}
  /\ SetClocks({c}, ros_time_active, 0)
  /\ UNCHANGED <<skipped, interfaces, flags, queues, pc, todo>>

\* The new clock takes the state and the last message of the time source.
AttachClock(c) ==
  /\ pc[User] = "idle" /\ c \notin associated_clocks
  /\ associated_clocks' = associated_clocks \cup {c}
  /\ SetClocks({c}, ros_time_active, last_msg)
  /\ UNCHANGED <<skipped, interfaces, flags, queues, pc, todo>>

\* The clock keeps its override.
DetachClock(c) ==
  /\ pc[User] = "idle" /\ c \in associated_clocks
  /\ associated_clocks' = associated_clocks \ {c}
  /\ UNCHANGED <<clock, skipped, interfaces, flags, queues, pc, todo>>

\* The callbacks of this module, from the moment the executor takes one.
InCallback == pc[Executor] \notin {"idle", "set", "serve"}

\* ros_time_active_ is cleared before disable_ros_time, which then returns at
\* once: attached clocks stay on the simulated time.  Nothing orders it with a
\* callback that runs.
DetachNode ==
  /\ pc[User] = "idle" /\ attached
  /\ attached' = FALSE /\ parameter_subscription' = FALSE /\ clock_subscription' = FALSE
  /\ events' = <<>> /\ clock_msgs' = <<>>
  /\ ros_time_active' = FALSE
  /\ leftover' = (leftover \/ ros_time_active)
  /\ undefined' = (undefined \/ InCallback)
  /\ UNCHANGED <<parameter_state, last_msg, clocks, pc, todo, ticks>>

-------------------------------------------------------------------------------
\* What on_parameter_event and attachNode do for use_sim_time: the parameter
\* state, then enable_ros_time or disable_ros_time, which change the flag
\* first and the clocks later, under the lock.
Apply(t, v) ==
  IF v THEN /\ parameter_state' = "SET_TRUE" /\ ros_time_active' = TRUE
            /\ Goto(t, IF ros_time_active THEN "create_sub" ELSE "enable")
       ELSE /\ parameter_state' = "SET_FALSE" /\ ros_time_active' = FALSE
            /\ Goto(t, IF ros_time_active THEN "disable" ELSE "destroy_sub")

\* enable_ros_time: the attached clocks go to the last message, or to zero.
EnableClocks(t) ==
  /\ pc[t] = "enable"
  /\ SetClocks(associated_clocks, TRUE, last_msg) /\ skipped' = FALSE
  /\ Goto(t, "create_sub")
  /\ UNCHANGED <<associated_clocks, interfaces, flags, queues, todo>>

DisableClocks(t) ==
  /\ pc[t] = "disable"
  /\ SetClocks(associated_clocks, FALSE, 0) /\ skipped' = FALSE
  /\ Goto(t, "destroy_sub")
  /\ UNCHANGED <<associated_clocks, interfaces, flags, queues, todo>>

CreateClockSub(t) ==
  /\ pc[t] = "create_sub"
  /\ clock_subscription' = TRUE
  /\ Goto(t, IF t = User THEN "subscribe" ELSE "match")
  /\ UNCHANGED <<interfaces, flags, clocks, events, clock_msgs, last_msg, ticks, todo>>

DestroyClockSub(t) ==
  /\ pc[t] = "destroy_sub"
  /\ clock_subscription' = FALSE /\ clock_msgs' = <<>>
  /\ Goto(t, "match")
  /\ UNCHANGED <<interfaces, flags, clocks, events, last_msg, ticks, todo>>

-------------------------------------------------------------------------------
SimTime == <<"use_sim_time">>

\* ParameterEventsFilter: the new and then the changed values of use_sim_time.
Matches(e) == WithNames(e.new \o e.changed, {SimTime})

\* The executor takes an event, and keeps the subscription while it runs it.
TakeEvent ==
  /\ pc[Executor] = "idle" /\ events # <<>>
  /\ todo' = [todo EXCEPT ![Executor] = <<Head(events)>>]
  /\ events' = Tail(events)
  /\ Goto(Executor, "event")
  /\ UNCHANGED <<interfaces, flags, clocks, clock_msgs, clock_subscription, last_msg, ticks>>

\* An event without this node's name is ignored.
OnParameterEvent ==
  LET e == todo[Executor][1]
  IN /\ pc[Executor] = "event"
     /\ todo' = [todo EXCEPT ![Executor] =
                   IF e.named THEN Append(Matches(e), [name |-> SimTime,
                     value |-> [type |-> "end", v |-> IF SimTime \in e.deleted THEN 1 ELSE 0]])
                   ELSE <<>>]
     /\ Goto(Executor, IF e.named THEN "match" ELSE "idle")
     /\ UNCHANGED <<interfaces, flags, clocks, queues>>

\* A value that is not a bool is skipped.
NextMatch ==
  LET value == Head(todo[Executor]).value
  IN /\ pc[Executor] = "match"
     /\ todo' = [todo EXCEPT ![Executor] = Tail(@)]
     /\ \/ value.type = "bool" /\ Apply(Executor, value.v = 1)
        \/ value.type \notin {"bool", "end"} /\ UNCHANGED <<flags, pc>>
        \/ /\ value.type = "end"
           /\ parameter_state' = IF value.v = 1 THEN "UNSET" ELSE parameter_state
           /\ Goto(Executor, "idle") /\ UNCHANGED ros_time_active
     /\ UNCHANGED <<interfaces, clocks, queues>>

-------------------------------------------------------------------------------
\* External: a publisher of /clock; only messages that arrive are counted.
Tick ==
  /\ ticks < MaxClockMsgs /\ clock_subscription
  /\ ticks' = ticks + 1 /\ clock_msgs' = Append(clock_msgs, ticks + 1)
  /\ UNCHANGED <<interfaces, flags, clocks, events, clock_subscription, last_msg, pc, todo>>

TakeClock ==
  /\ pc[Executor] = "idle" /\ clock_msgs # <<>>
  /\ todo' = [todo EXCEPT ![Executor] = <<Head(clock_msgs)>>]
  /\ clock_msgs' = Tail(clock_msgs)
  /\ Goto(Executor, "clock_cb")
  /\ UNCHANGED <<interfaces, flags, clocks, events, clock_subscription, last_msg, ticks>>

\* clock_cb enables ROS time when the parameter says so and it is not active.
ClockCb ==
  /\ pc[Executor] = "clock_cb"
  /\ IF ~ros_time_active /\ parameter_state = "SET_TRUE"
     THEN ros_time_active' = TRUE /\ Goto(Executor, "clock_enable")
     ELSE Goto(Executor, "clock_cache") /\ UNCHANGED ros_time_active
  /\ UNCHANGED <<parameter_state, interfaces, clocks, queues, todo>>

ClockEnable ==
  /\ pc[Executor] = "clock_enable"
  /\ SetClocks(associated_clocks, TRUE, last_msg) /\ skipped' = FALSE
  /\ Goto(Executor, "clock_cache")
  /\ UNCHANGED <<associated_clocks, interfaces, flags, queues, todo>>

\* The message is cached always and set only when the parameter is true.
ClockCache ==
  /\ pc[Executor] = "clock_cache"
  /\ last_msg' = Head(todo[Executor])
  /\ IF parameter_state = "SET_TRUE"
     THEN Goto(Executor, "clock_set") /\ UNCHANGED <<skipped, todo>>
     ELSE Goto(Executor, "idle") /\ skipped' = TRUE /\ todo' = [todo EXCEPT ![Executor] = <<>>]
  /\ UNCHANGED <<associated_clocks, clock, interfaces, flags, events, clock_msgs,
                 clock_subscription, ticks>>

ClockSet ==
  /\ pc[Executor] = "clock_set"
  /\ SetClocks(associated_clocks, TRUE, Head(todo[Executor])) /\ skipped' = FALSE
  /\ Goto(Executor, "idle") /\ todo' = [todo EXCEPT ![Executor] = <<>>]
  /\ UNCHANGED <<associated_clocks, interfaces, flags, queues>>

SourceSteps ==
  \/ \E t \in Threads : EnableClocks(t) \/ CreateClockSub(t)
  \/ DisableClocks(Executor) \/ DestroyClockSub(Executor)
  \/ TakeEvent \/ OnParameterEvent \/ NextMatch
  \/ Tick \/ TakeClock \/ ClockCb \/ ClockEnable \/ ClockCache \/ ClockSet
===============================================================================
