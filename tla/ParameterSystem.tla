---------------------------- MODULE ParameterSystem ----------------------------
(***************************************************************************)
(* A node with its parameters, the parameter service and a TimeSource, and *)
(* a remote AsyncParametersClient or SyncParametersClient.  The user's     *)
(* thread calls NodeParameters and the TimeSource; the node's executor     *)
(* runs requests, parameter events and /clock messages; the caller sends   *)
(* requests through Client (client.hpp), whose executor runs the answers.  *)
(***************************************************************************)
EXTENDS NodeParameters, TimeSource

CONSTANTS
  Defaults,      \* declarations: [name, value, descriptor]
  ParamLists,    \* lists of parameters that are set
  Requests,      \* requests: [service, list]
  MaxCalls,      \* bound: calls of the user's thread
  MaxRequests    \* bound: requests sent

\* The clients that have a call; describe_parameters has a client and none.
Services == {"set", "set_atomically", "get", "get_types", "list"}
Ids == 1..MaxRequests
Caller == "caller"
None == "none"
NoAnswer == -1

\* Names are sequences of strings (the provers must be told of one of them),
\* values have a type and a number, a range has its ends in order, and the
\* node has been given finitely many overrides.
Names == Seq({"use_sim_time"} \cup STRING)
Values == [type: {"not_set", "bool", "integer", "double", "string"}, v: Int]
Params == [name: Names, value: Values]
Descriptors == [read_only: BOOLEAN, range: Seq(Int)]
RangeOK(range) == range = <<>> \/ (Len(range) = 3 /\ range[1] <= range[2])

ASSUME ListsAssumption ==
  /\ MaxRequests \in Nat
  /\ ParamLists \subseteq Seq(Params)
  /\ Requests \subseteq [service: Services, list: Seq(Params)]
ASSUME DefaultsAssumption ==
  \A d \in Defaults :
    /\ d.name \in Names /\ d.value \in Values
    /\ d.descriptor \in Descriptors /\ RangeOK(d.descriptor.range)
ASSUME OverridesAssumption ==
  \A orders \in [DOMAIN YamlFiles -> Orders] :
    LET map == OverridesOf(orders)
    IN /\ IsFiniteSet(DOMAIN map) /\ DOMAIN map \subseteq Names
       /\ \A n \in DOMAIN map : map[n] \in Values

VARIABLES
  parameters,      \* parameters_
  callback,        \* an on-set callback is registered
  calls,           \* calls of the user's thread
  serving,         \* the request the executor answers, 0 when there is none
  got,             \* results so far of the one-by-one loop of each thread
  silent,          \* history: use_sim_time changed, no event told the source
  crashed,         \* an assertion failed, or undefined behaviour did it
  request,         \* request[k]: the kth request sent
  sent,
  mutex,           \* owner of pending_requests_mutex_ of each client
  pending,         \* pending_requests_ of the six clients, by sequence number
  caller,          \* where the calling thread is
  handling,        \* the answer whose callback runs, 0 when there is none
  inbox, answers,  \* requests and answers on their way
  future           \* future[k]: number of results in its answer

storeVars == <<parameters, callback, silent, crashed>>
clientVars == <<request, sent, mutex, pending, caller, handling, answers, future>>
serverVars == <<serving, got, inbox>>
vars == <<sourceVars, storeVars, clientVars, serverVars, calls, allow_undeclared, overrides>>

ParametersInit ==
  \E auto \in BOOLEAN :   \* automatically_declare_parameters_from_overrides
    parameters = [n \in IF auto THEN DOMAIN overrides ELSE {} |->
                    [NoInfo EXCEPT !.value = overrides[n]]]

Init ==
  /\ SourceInit /\ Overridden /\ ParametersInit /\ allow_undeclared \in BOOLEAN
  /\ callback = FALSE /\ calls = 0 /\ silent = FALSE /\ crashed = FALSE
  /\ serving = 0 /\ got = [t \in Threads |-> 0]
  /\ request = [k \in Ids |-> CHOOSE r \in Requests : TRUE] /\ sent = 0
  /\ mutex = [s \in Services |-> None] /\ pending = {} /\ caller = "idle"
  /\ handling = 0 /\ inbox = {} /\ answers = {} /\ future = [k \in Ids |-> NoAnswer]

-------------------------------------------------------------------------------
\* A call of NodeParameters: the new map, and its event to the subscription.
Store(o) ==
  /\ parameters' = o.map
  /\ events' = IF parameter_subscription THEN events \o o.published ELSE events

\* The time source learns of use_sim_time from events that name the node.
Perform(o) ==
  LET told == o.published # <<>> /\ o.published[1].named /\ parameter_subscription
      changed == ValueOf(o.map, SimTime) # ValueOf(parameters, SimTime)
  IN /\ Store(o)
     /\ silent' = IF told /\ SimTime \in NamesIn(o.published[1].new \o o.published[1].changed)
                  THEN FALSE ELSE silent \/ (changed /\ ~told)
     /\ crashed' = (o.result = "aborts")

\* The user's thread begins a call.
Call ==
  /\ pc[User] = "idle" /\ calls < MaxCalls /\ calls' = calls + 1
  /\ UNCHANGED <<clientVars, serverVars>>

otherSource == <<interfaces, flags, clocks, clock_msgs, clock_subscription, last_msg, ticks, pc, todo>>

CallDeclare(d) ==
  /\ Call /\ Perform(Declare(parameters, d.name, d.value, d.descriptor, callback))
  /\ UNCHANGED <<otherSource, callback>>

CallUndeclare(n) ==
  /\ Call /\ Perform(Undeclare(parameters, n)) /\ UNCHANGED <<otherSource, callback>>

CallSetAtomically(ps) ==
  /\ Call /\ Perform(SetAtomically(parameters, ps, callback)) /\ UNCHANGED <<otherSource, callback>>

\* set_parameters sets one by one and lets the mutex go in between.
CallSetParameters(ps) ==
  /\ Call /\ todo' = [todo EXCEPT ![User] = ps] /\ Goto(User, "set")
  /\ UNCHANGED <<storeVars, interfaces, flags, clocks, queues>>

\* Without the mutex; to none or to one that rejects Rejected.
CallSetCallback ==
  /\ Call /\ callback' = ~callback
  /\ UNCHANGED <<otherSource, events, parameters, silent, crashed>>

CallTimeSource ==
  /\ Call /\ (DetachNode \/ \E c \in Clocks : AttachClock(c) \/ DetachClock(c))
  /\ UNCHANGED storeVars

SetNext(t) ==
  LET o == SetAtomically(parameters, <<Head(todo[t])>>, callback)
  IN /\ pc[t] = "set" /\ todo[t] # <<>>
     /\ Perform(o)
     /\ todo' = [todo EXCEPT ![t] = IF o.result = "throws" /\ t = User THEN <<>> ELSE Tail(@)]
     /\ got' = [got EXCEPT ![t] = @ + 1]
     /\ UNCHANGED <<callback, pc, interfaces, flags, clocks, clock_msgs, clock_subscription,
                    last_msg, ticks, serving, inbox, calls, clientVars>>

SetReturns ==
  /\ pc[User] = "set" /\ todo[User] = <<>>
  /\ Goto(User, "idle") /\ got' = [got EXCEPT ![User] = 0]
  /\ UNCHANGED <<storeVars, interfaces, flags, clocks, queues, todo, serving, inbox, calls, clientVars>>

-------------------------------------------------------------------------------
\* attachNode: has_parameter, then declare_parameter or get_parameter, then
\* enable_ros_time, then the subscription to parameter events.
AttachNode ==
  /\ Call /\ ~attached /\ attached' = TRUE
  /\ Goto(User, IF SimTime \in DOMAIN parameters THEN "get" ELSE "declare")
  /\ UNCHANGED <<storeVars, parameter_subscription, leftover, undefined, flags, clocks, queues, todo>>

\* A value of another type than bool is only logged.  An exception leaves
\* the interfaces set.
UseSimTime(value) ==
  IF value = [type |-> "bool", v |-> 1]
  THEN Apply(User, TRUE)
  ELSE Goto(User, "subscribe") /\ UNCHANGED flags

AttachDeclares ==
  LET o == Declare(parameters, SimTime, [type |-> "bool", v |-> 0], DefaultDescriptor, callback)
  IN /\ pc[User] = "declare"
     /\ Store(o) /\ silent' = FALSE
     /\ IF o.result = "ok" THEN UseSimTime(o.map[SimTime].value)
        ELSE Goto(User, "idle") /\ UNCHANGED flags
     /\ UNCHANGED <<callback, crashed, interfaces, clocks, clock_msgs, clock_subscription,
                    last_msg, ticks, todo, clientVars, serverVars, calls>>

AttachGets ==
  /\ pc[User] = "get"
  /\ IF ValueOf(parameters, SimTime) = NotSet /\ ~allow_undeclared
     THEN Goto(User, "idle") /\ UNCHANGED flags
     ELSE UseSimTime(ValueOf(parameters, SimTime))
  /\ silent' = FALSE
  /\ UNCHANGED <<parameters, callback, crashed, interfaces, clocks, queues, todo, clientVars,
                 serverVars, calls>>

Subscribe ==
  /\ pc[User] = "subscribe"
  /\ parameter_subscription' = TRUE /\ Goto(User, "idle")
  /\ UNCHANGED <<storeVars, attached, leftover, undefined, flags, clocks, queues, todo,
                 clientVars, serverVars, calls>>

-------------------------------------------------------------------------------
\* The parameter service: set_parameters one by one, the others at once.
TakeRequest ==
  /\ pc[Executor] = "idle"
  /\ \E k \in inbox :
       LET set == request[k].service = "set"
       IN /\ serving' = k /\ inbox' = inbox \ {k}
          /\ Goto(Executor, IF set THEN "set" ELSE "serve")
          /\ todo' = [todo EXCEPT ![Executor] = IF set THEN request[k].list ELSE <<>>]
  /\ UNCHANGED <<storeVars, interfaces, flags, clocks, queues, got, calls, clientVars>>

Respond(size) ==
  /\ answers' = answers \cup {[id |-> serving, size |-> size]}
  /\ serving' = 0 /\ got' = [got EXCEPT ![Executor] = 0] /\ Goto(Executor, "idle")
  /\ UNCHANGED <<interfaces, flags, clocks, clock_msgs, clock_subscription, last_msg, ticks,
                 todo, inbox, calls, request, sent, mutex, pending, caller, handling, future>>

ServeSet ==
  /\ pc[Executor] = "set" /\ todo[Executor] = <<>>
  /\ Respond(got[Executor]) /\ UNCHANGED <<storeVars, events>>

ServeAtomically ==
  /\ pc[Executor] = "serve" /\ request[serving].service = "set_atomically"
  /\ Perform(SetAtomically(parameters, request[serving].list, callback))
  /\ Respond(1) /\ UNCHANGED callback

\* NOT_SET for an unknown name.
GetAnswer(list) == Len(list)

\* Nothing when one of the names is unknown and may not be; describe too.
TypesAnswer(list) == IF Known(parameters, NamesIn(list)) THEN Len(list) ELSE 0

ListAnswer(list) == Cardinality(ListParameters(parameters, NamesIn(list), 1))

AnswerSize(r) ==
  CASE r.service = "get" -> GetAnswer(r.list)
    [] r.service = "list" -> ListAnswer(r.list)
    [] OTHER -> TypesAnswer(r.list)

ServeQuery ==
  /\ pc[Executor] = "serve" /\ request[serving].service # "set_atomically"
  /\ Respond(AnswerSize(request[serving])) /\ UNCHANGED <<storeVars, events>>

-------------------------------------------------------------------------------
\* async_send_request holds the mutex while it sends and stores the promise.
SendRequest(r) ==
  /\ caller = "idle" /\ sent < MaxRequests /\ mutex[r.service] = None
  /\ mutex' = [mutex EXCEPT ![r.service] = Caller]
  /\ sent' = sent + 1 /\ request' = [request EXCEPT ![sent + 1] = r]
  /\ inbox' = inbox \cup {sent + 1}
  /\ caller' = "store"
  /\ UNCHANGED <<sourceVars, storeVars, serving, got, calls, pending, handling, answers, future>>

StorePending ==
  /\ caller = "store"
  /\ pending' = pending \cup {sent}
  /\ mutex' = [mutex EXCEPT ![request[sent].service] = None]
  /\ caller' \in {"idle", "spin"}   \* AsyncParametersClient, SyncParametersClient
  /\ UNCHANGED <<sourceVars, storeVars, serverVars, calls, request, sent, handling, answers, future>>

\* SyncParametersClient spins, without a time limit, until its future is set.
SpinReturns ==
  /\ caller = "spin" /\ future[sent] # NoAnswer
  /\ caller' = "idle"
  /\ UNCHANGED <<sourceVars, storeVars, serverVars, calls, request, sent, mutex, pending,
                 handling, answers, future>>

HandleResponse_NoLock ==
  /\ handling = 0
  /\ \E a \in answers :
       IF a.id \in pending
       THEN handling' = a.id /\ pending' = pending \ {a.id} /\ UNCHANGED answers
       ELSE answers' = answers \ {a} /\ UNCHANGED <<handling, pending>>
  /\ UNCHANGED <<sourceVars, storeVars, serverVars, calls, request, sent, mutex, caller, future>>

\* handle_response forgets the promise under the mutex; an answer that is not
\* pending is ignored.
HandleResponse ==
  /\ handling = 0
  /\ \E a \in answers :
       /\ mutex[request[a.id].service] = None
       /\ IF a.id \in pending
          THEN handling' = a.id /\ pending' = pending \ {a.id} /\ UNCHANGED answers
          ELSE answers' = answers \ {a} /\ UNCHANGED <<handling, pending>>
  /\ UNCHANGED <<sourceVars, storeVars, serverVars, calls, request, sent, mutex, caller, future>>

\* The callbacks that AsyncParametersClient gives its clients.  That of
\* get_parameter_types appends to the vector it runs over, which is undefined
\* unless it is empty, and leaves its own result empty; the others pass the
\* answer on.
GetResult(a) == a.size
GetTypesResult(a) == 0
SetResult(a) == a.size
SetAtomicallyResult(a) == 1
ListResult(a) == a.size

\* The promise is set and the callback called, the mutex released.
Complete ==
  /\ handling # 0
  /\ \E a \in answers :
       LET service == request[handling].service
       IN /\ a.id = handling
          /\ answers' = answers \ {a}
          /\ future' = [future EXCEPT ![handling] =
               CASE service = "get" -> GetResult(a)
                 [] service = "get_types" -> GetTypesResult(a)
                 [] service = "set" -> SetResult(a)
                 [] service = "set_atomically" -> SetAtomicallyResult(a)
                 [] service = "list" -> ListResult(a)]
          /\ crashed' \in IF service = "get_types" /\ a.size > 0 THEN BOOLEAN ELSE {FALSE}
  /\ handling' = 0
  /\ UNCHANGED <<sourceVars, parameters, callback, silent, serverVars, calls, request, sent,
                 mutex, pending, caller>>

-------------------------------------------------------------------------------
SourceStep ==
  SourceSteps /\ UNCHANGED <<storeVars, clientVars, serverVars, calls>>

Next ==
  /\ ~undefined /\ ~crashed /\ UNCHANGED <<allow_undeclared, overrides>>
  /\ \/ \E d \in Defaults : CallDeclare(d) \/ CallUndeclare(d.name)
     \/ \E ps \in ParamLists : CallSetAtomically(ps) \/ CallSetParameters(ps)
     \/ CallSetCallback \/ CallTimeSource
     \/ \E t \in Threads : SetNext(t)
     \/ SetReturns
     \/ AttachNode \/ AttachDeclares \/ AttachGets \/ Subscribe
     \/ TakeRequest \/ ServeSet \/ ServeAtomically \/ ServeQuery
     \/ \E r \in Requests : SendRequest(r)
     \/ StorePending \/ SpinReturns \/ HandleResponse \/ Complete
     \/ SourceStep

Spec == Init /\ [][Next]_vars

-------------------------------------------------------------------------------
InfoOK(i) ==
  /\ i.value.type \in {"not_set", "bool", "integer"} /\ i.value.v \in Int
  /\ i.descriptor.read_only \in BOOLEAN /\ Len(i.descriptor.range) \in {0, 3}

\* The type of the state.
TypeOK ==
  /\ \A n \in DOMAIN parameters : InfoOK(parameters[n])
  /\ clock \in [Clocks -> ClockValues] /\ associated_clocks \subseteq Clocks
  /\ last_msg \in 0..MaxClockMsgs
  /\ pending \subseteq 1..sent /\ inbox \subseteq 1..sent
  /\ \A s \in Services : mutex[s] \in {None, Caller}
  /\ (caller = "store" <=> \E s \in Services : mutex[s] = Caller)
  /\ \A k \in Ids : future[k] >= NoAnswer

\* A parameter with a range has a value in it after every sequence of
\* declarations, sets, undeclarations, overrides and implicit declarations.
ValuesInRange ==
  \A n \in DOMAIN parameters :
    LET r == parameters[n].descriptor.range
        value == parameters[n].value
    IN (r # <<>> /\ value.type = "integer") => r[1] <= value.v /\ value.v <= r[2]

\* node.hpp on set_parameters_atomically: all values are set or none.  From
\* every map the node can have, a successful call gives each name its last
\* value and removes what is given NOT_SET; any other call leaves every value.
\* Lists that give a name a value after NOT_SET are excepted: the code removes
\* the name.  A list that gives a name NOT_SET twice is not promised anything:
\* the call ends the program.
SetIsAtomic ==
  \A ps \in ParamLists :
    LET o == SetAtomically(parameters, ps, callback)
        revived == \E i, j \in DOMAIN ps : i < j /\ ps[i].name = ps[j].name
                                           /\ ps[i].value = NotSet /\ ps[j].value # NotSet
    IN IF o.result = "ok"
       THEN revived \/ [n \in DOMAIN o.map |-> o.map[n].value] = Promised(parameters, ps)
       ELSE \A n \in DOMAIN o.map : ValueOf(o.map, n) = ValueOf(parameters, n)

\* A parameter that was declared read-only keeps its value and its descriptor
\* through every further declaration, undeclaration and list of values, other
\* names in the list or not.
ReadOnlyKept ==
  LET Outcomes == {SetAtomically(parameters, ps, callback) : ps \in ParamLists}
           \cup {Declare(parameters, d.name, d.value, d.descriptor, callback) : d \in Defaults}
           \cup {Undeclare(parameters, d.name) : d \in Defaults}
  IN \A n \in {m \in DOMAIN parameters : parameters[m].descriptor.read_only} :
       \A o \in Outcomes : n \in DOMAIN o.map /\ o.map[n] = parameters[n]

\* has_parameter of the remote client answers for the name itself, not for
\* names below it.
HasParameterIsExact ==
  \A d \in Defaults : HasParameter(parameters, d.name) <=> d.name \in DOMAIN parameters

Enabling == {"enable", "disable", "clock_enable", "clock_set"}

\* When no thread is in between, the attached clocks have the time of the
\* source: on ROS time at the last /clock message, or off it, whenever they
\* were attached.  Excepted are messages that came while use_sim_time was
\* deleted, and clocks of a node that was detached.
ClocksFollow ==
  (\A t \in Threads : pc[t] \notin Enabling) /\ ~undefined =>
    /\ (ros_time_active /\ ~skipped /\ ~leftover) =>
         \A c \in associated_clocks : clock[c] = [active |-> TRUE, time |-> last_msg]
    /\ (~ros_time_active /\ ~leftover) => \A c \in associated_clocks : ~clock[c].active

Attaching == {"get", "declare", "enable", "create_sub", "subscribe"}

\* When every event is handled, ROS time is active and /clock subscribed if
\* and only if use_sim_time is true, unless its last change was one the
\* events do not tell: undeclare_parameter, declare_parameter, or a change
\* while attachNode had read the value and not subscribed.
SimTimeFollows ==
  LET value == ValueOf(parameters, SimTime)
  IN (/\ parameter_subscription /\ ~silent /\ ~undefined /\ events = <<>>
      /\ ~InCallback /\ pc[User] \notin Attaching
      /\ value.type = "bool")
     => ros_time_active = (value.v = 1) /\ clock_subscription = (value.v = 1)

\* The client pairs the results with its request by position: there are as
\* many as it asked for, also when the service refuses some.
AnswersFit ==
  \A k \in Ids :
    future[k] # NoAnswer /\ request[k].service \in {"set", "get"} =>
      future[k] = Len(request[k].list)

\* No answer is ignored, however soon it comes: of a request whose future is
\* not set, the request or the answer is under way, and the promise is in
\* pending_requests_ or at hand.
NoAnswerLost ==
  \A k \in 1..sent :
    future[k] = NoAnswer =>
      /\ k \in inbox \/ serving = k \/ \E a \in answers : a.id = k
      /\ k \in pending \/ handling = k \/ (caller = "store" /\ k = sent)

\* The store keeps what its interface promises of names, values and lists.
StoreKept == ValuesInRange /\ SetIsAtomic /\ ReadOnlyKept /\ HasParameterIsExact

\* The time source does what use_sim_time and /clock say.
TimeFollows == ClocksFollow /\ SimTimeFollows

\* Every request of a client is answered, in full.
RequestsAnswered == AnswersFit /\ NoAnswerLost
===============================================================================
