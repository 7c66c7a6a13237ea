------------------------------- MODULE Generator -------------------------------
(***************************************************************************)
(* Generator (generator.hpp): a coroutine that yields values to has_next    *)
(* and next, and the generators take, take_while, map and flat_map derive   *)
(* from it.  A pipeline is a sequence of stages, the first made by from and *)
(* each of the others from the one before; the consumer holds one of them.  *)
(*                                                                         *)
(* A stage resumes the one before it from inside its own body, so of the    *)
(* stages and the consumer one runs, and those after it wait for its value. *)
(* The values are numbers, and f is a function on those it does not throw   *)
(* for.  A generator whose source is destroyed or moved first is left out.  *)
(***************************************************************************)
EXTENDS Integers, SequencesExt

CONSTANTS
  Sources,     \* the arguments of from
  Pipelines    \* the operations applied to it, in order

Operation(op) ==
  \/ op.name = "take" /\ op.n \in Int
  \/ op.name = "take_while" /\ op.f \subseteq Int
  \/ op.name = "map" /\ DOMAIN op.f \subseteq Int /\ op.f \in [DOMAIN op.f -> Int]
  \/ op.name = "flat_map" /\ DOMAIN op.f \subseteq Int /\ op.f \in [DOMAIN op.f -> Seq(Int)]

ASSUME GeneratorsAssumption ==
  /\ Sources \subseteq Seq(Int)
  /\ \A ops \in Pipelines :
       Len(ops) \in Nat /\ DOMAIN ops = 1 .. Len(ops) /\ \A k \in DOMAIN ops : Operation(ops[k])

VARIABLES
  pipe,      \* the stages
  pull,      \* the stage the consumer calls
  call,      \* what it calls, or ""
  run,       \* the stage whose body runs, or the consumer, who is the one after pull
  answered   \* it has called has_next of its source, which has returned

genVars == <<pipe, pull, call, run, answered>>

\* ready and value are of the promise, done of the handle, i and inner of the body; out is
\* history: what next has returned, to the consumer or to the next stage.
Stage(op) ==
  [op |-> op, ready |-> FALSE, done |-> FALSE, value |-> 0, i |-> 0, inner |-> <<>>, out |-> <<>>]

GenInit ==
  /\ \E s \in Sources, ops \in Pipelines :
       pipe = [k \in 1 .. Len(ops) + 1 |->
                 Stage(IF k = 1 THEN [name |-> "from", list |-> s] ELSE ops[k - 1])]
  /\ pull = Len(pipe) /\ run = pull + 1
  /\ call = "" /\ answered = FALSE

-------------------------------------------------------------------------------
\* Mutant: the coroutine is resumed though its value has not been fetched.
Rests_Done(s) == s.done

\* has_next does not resume the coroutine; it is true if the stage is not done afterwards.
Rests(s) == s.done \/ s.ready

\* Who runs calls has_next of the stage before.
HasNext ==
  LET rests == Rests(pipe[run - 1])
  IN  answered' = rests /\ run' = IF rests THEN run ELSE run - 1

\* next after a has_next that was true.
Fetched(p, k) == [p EXCEPT ![k].ready = FALSE, ![k].out = Append(@, p[k].value)]

\* resume() returns to the has_next that called it.
Suspended(p) == pipe' = p /\ run' = run + 1 /\ answered' = TRUE

\* yield_value and await_transform.
Yield(p, v) == Suspended([p EXCEPT ![run].value = v, ![run].ready = TRUE])

\* final_suspend, after a return and after an exception alike: unhandled_exception is empty.
Finish(p) == Suspended([p EXCEPT ![run].done = TRUE])

-------------------------------------------------------------------------------
(* The bodies.  This is the stage that runs. *)
This == pipe[run]
Source == pipe[run - 1]
Runs(name) == run <= pull /\ This.op.name = name /\ UNCHANGED <<pull, call>>

\* A while whose condition has_next() is true, or false.
Asks == ~ answered /\ HasNext
Gets == answered /\ ~ Source.done
Exhausts == answered /\ Source.done /\ Finish(pipe)

From ==
  /\ Runs("from")
  /\ IF This.i = Len(This.op.list) THEN Finish(pipe)
     ELSE Yield([pipe EXCEPT ![run].i = @ + 1], This.op.list[This.i + 1])

\* i++ < n is tested before the source is asked.
Take ==
  /\ Runs("take")
  /\ LET counted == [pipe EXCEPT ![run].i = @ + 1]
     IN  \/ This.i < This.op.n /\ Asks /\ pipe' = counted
         \/ ~ answered /\ This.i >= This.op.n /\ Finish(counted)
         \/ Gets /\ Yield(Fetched(pipe, run - 1), Source.value)
         \/ Exhausts

\* The value f refuses is fetched all the same.
TakeWhile ==
  /\ Runs("take_while")
  /\ LET fetched == Fetched(pipe, run - 1)
     IN  \/ Asks /\ UNCHANGED pipe
         \/ Gets /\ IF Source.value \in This.op.f THEN Yield(fetched, Source.value) ELSE Finish(fetched)
         \/ Exhausts

Map ==
  /\ Runs("map")
  /\ LET fetched == Fetched(pipe, run - 1)
         f == This.op.f
     IN  \/ Asks /\ UNCHANGED pipe
         \/ Gets /\ IF Source.value \in DOMAIN f THEN Yield(fetched, f[Source.value]) ELSE Finish(fetched)
         \/ Exhausts

\* inner is what the generator that f has returned has left.
FlatMap ==
  /\ Runs("flat_map")
  /\ LET fetched == Fetched(pipe, run - 1)
         f == This.op.f
     IN  \/ ~ answered /\ This.inner # <<>> /\ Yield([pipe EXCEPT ![run].inner = Tail(@)], Head(This.inner))
         \/ This.inner = <<>> /\ Asks /\ UNCHANGED pipe
         \/ /\ Gets /\ Source.value \in DOMAIN f
            /\ pipe' = [fetched EXCEPT ![run].inner = f[Source.value]]
            /\ answered' = FALSE /\ UNCHANGED run
         \/ Gets /\ Source.value \notin DOMAIN f /\ Finish(fetched)
         \/ Exhausts

-------------------------------------------------------------------------------
(* The consumer. *)
Consumes == run = pull + 1 /\ UNCHANGED pull

\* has_next, next, or for_each and fold.
CallStage ==
  /\ Consumes /\ call = ""
  /\ call' \in {"has_next", "next", "for_each"}
  /\ HasNext /\ UNCHANGED pipe

\* next throws ExhaustedException if there is no value.
Return ==
  /\ Consumes /\ answered
  /\ call # "for_each" \/ Source.done
  /\ pipe' = IF call = "next" /\ ~ Source.done THEN Fetched(pipe, pull) ELSE pipe
  /\ call' = "" /\ answered' = FALSE /\ UNCHANGED run

ForEach ==
  /\ Consumes /\ call = "for_each" /\ UNCHANGED call
  /\ \/ Asks /\ UNCHANGED pipe
     \/ Gets /\ pipe' = Fetched(pipe, pull) /\ answered' = FALSE /\ UNCHANGED run

\* The derived generator is destroyed and the consumer goes on with its source.
Destroy ==
  /\ call = "" /\ pull > 1
  /\ pull' = pull - 1 /\ run' = run - 1
  /\ UNCHANGED <<pipe, call, answered>>

GenNext == From \/ Take \/ TakeWhile \/ Map \/ FlatMap \/ CallStage \/ Return \/ ForEach \/ Destroy
GenSpec == GenInit /\ [][GenNext]_genVars

-------------------------------------------------------------------------------
\* A stage goes on after the i-th value of its source; and what it makes of it.
Accepts(op, i, v) ==
  CASE op.name = "take" -> i <= op.n
    [] op.name = "take_while" -> v \in op.f
    [] OTHER -> v \in DOMAIN op.f
Gives(op, v) ==
  CASE op.name = "map" -> <<op.f[v]>>
    [] op.name = "flat_map" -> op.f[v]
    [] OTHER -> <<v>>

\* The values an operation makes of the values s of its source.
Meant(op, s) ==
  LET meant[i \in 0 .. Len(s)] ==
        IF i = 0 THEN <<>>
        ELSE IF \A j \in 1 .. i : Accepts(op, j, s[j]) THEN meant[i - 1] \o Gives(op, s[i])
        ELSE meant[i - 1]
  IN  meant[Len(s)]

\* The values of stage k, whose operations are ops.
Stream(ops, k) ==
  LET stream[j \in 0 .. Len(ops)] ==
        IF j = 0 THEN <<>>
        ELSE IF j = 1 THEN ops[1].list ELSE Meant(ops[j], stream[j - 1])
  IN  stream[k]

Operations == [k \in DOMAIN pipe |-> pipe[k].op]

\* What a stage has yielded.
Given(s) == s.out \o IF s.ready THEN <<s.value>> ELSE <<>>

\* A generator gives the values its operations mean, in their order, none skipped and none
\* twice, however has_next and next are mixed, and it ends where they end, an exception
\* counting as the end ("use to mark whether the value is consumed").
StreamIsExact ==
  \A k \in DOMAIN pipe :
    /\ IsPrefix(Given(pipe[k]), Stream(Operations, k))
    /\ pipe[k].done => Given(pipe[k]) = Stream(Operations, k)

\* A derived generator fetches no value before it is asked for one and keeps none back: a
\* value of its source waits only while it runs, and take leaves the rest of its source to
\* whoever holds it.
StreamIsLazy ==
  \A k \in 2 .. pull :
    /\ pipe[k - 1].ready => run = k
    /\ pipe[k].op.name = "take" => Len(pipe[k - 1].out) = Len(Given(pipe[k]))

\* A pipeline is a lazy list.
StreamsAreLazyLists == StreamIsExact /\ StreamIsLazy
===============================================================================
