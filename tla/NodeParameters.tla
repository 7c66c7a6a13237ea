---------------------------- MODULE NodeParameters ----------------------------
(***************************************************************************)
(* What the operations of NodeParameters (node_parameters.cpp) compute on  *)
(* the map parameters_.  Each of them runs under mutex_, on-set callback   *)
(* and publishing included, so ParameterSystem takes each as one step.     *)
(*                                                                         *)
(* A name is the sequence of its parts, "a.b" being <<"a", "b">>; a value  *)
(* has a type and a number (0 and 1 for a bool).  A map is a function on   *)
(* the names it holds.                                                     *)
(***************************************************************************)
EXTENDS Integers, Sequences, FiniteSets, SequencesExt, ParameterLists

CONSTANTS
  YamlFiles,         \* parameter files: sequences of nodes with their parameters
  NodeName,          \* combined_name_
  ArgOverrides,      \* parameter_overrides of the constructor
  Rejected           \* values that the on-set callback does not accept

VARIABLES
  allow_undeclared,   \* an option of the node, chosen at construction
  overrides           \* parameter_overrides_, filled by the constructor

NotSet == [type |-> "not_set", v |-> 0]
DefaultDescriptor == [read_only |-> FALSE, range |-> <<>>]
NoInfo == [value |-> NotSet, descriptor |-> DefaultDescriptor]
NoNames == [n \in {} |-> NotSet]

\* The entries of one map, and those of another for the names it has not.  (The
\* provers know nothing of @@ and :> of the module TLC.)
Over(map, rest) ==
  [n \in DOMAIN map \cup DOMAIN rest |-> IF n \in DOMAIN map THEN map[n] ELSE rest[n]]
Entry(n, info) == [m \in {n} |-> info]

\* parameter_value_from: the first member that is set, in this order; arrays
\* are left out.  A variant is a function on the types of its members.
VariantTypes == <<"bool", "integer", "double", "string">>
ParameterValueFrom(variant) ==
  LET type == VariantTypes[Min({k \in DOMAIN VariantTypes : VariantTypes[k] \in DOMAIN variant})]
  IN [type |-> type, v |-> variant[type]]

\* The fully qualified name begins with a slash, in the file or not.
FullyQualified(node) == IF node[1] = "/" THEN node ELSE <<"/">> \o node

\* parameter_map_from: entries of one name are put behind each other.
ParameterMapFrom(file) ==
  [full \in {FullyQualified(file[k].node) : k \in DOMAIN file} |->
     FlattenSeq([k \in DOMAIN file |->
       IF FullyQualified(file[k].node) = full THEN file[k].params ELSE <<>>])]

\* Each parameter of a list overwrites the override of its name.
Overwrite(map, params) ==
  FoldLeft(LAMBDA acc, p : Over(Entry(p.name, ParameterValueFrom(p.variant)), acc), map, params)

\* The constructor: later files win over earlier ones and the arguments over
\* every file.  The map of a file is unordered, so whether "/**" or the node's
\* name wins within a file is open.
Wildcard == <<"/", "**">>
Orders == {<<Wildcard, NodeName>>, <<NodeName, Wildcard>>}

OverridesOf(orders) ==
  LET ListOf(k, full) == LET map == ParameterMapFrom(YamlFiles[k])
                         IN IF full \in DOMAIN map THEN map[full] ELSE <<>>
      InOrder(k) == ListOf(k, orders[k][1]) \o ListOf(k, orders[k][2])
  IN Over(ArgOverrides, Overwrite(NoNames, FlattenSeq([k \in DOMAIN YamlFiles |-> InOrder(k)])))

Overridden == \E orders \in [DOMAIN YamlFiles -> Orders] : overrides = OverridesOf(orders)

\* The value of a name's last occurrence.
LastOf(ps, n) == ps[Max({i \in DOMAIN ps : ps[i].name = n})].value

-------------------------------------------------------------------------------
\* A range is from, to and step; its two ends are in it whatever the step.
InRange(d, value) ==
  \/ d.range = <<>> \/ value.type # "integer"
  \/ value.v \in {d.range[1], d.range[2]}
  \/ /\ d.range[1] < value.v /\ value.v < d.range[2]
     /\ (d.range[3] = 0 \/ (value.v - d.range[1]) % d.range[3] = 0)

\* parameter_infos[name] creates the entries it does not find.
Touched(pm, names) == Over(pm, [n \in names |-> NoInfo])

\* The first value out of range ends the check; what it touched stays.
CheckParameters(pm, ps) ==
  LET bad == {i \in DOMAIN ps :
                ~InRange(Touched(pm, NamesIn(ps))[ps[i].name].descriptor, ps[i].value)}
      checked == IF bad = {} THEN ps ELSE SubSeq(ps, 1, Min(bad))
  IN [ok |-> bad = {}, map |-> Touched(pm, NamesIn(checked))]

Accepts(cb, ps) == ~cb \/ \A i \in DOMAIN ps : ps[i].value \notin Rejected

Assigned(pm, ps) ==
  [n \in DOMAIN pm |->
     IF n \in NamesIn(ps) THEN [pm[n] EXCEPT !.value = LastOf(ps, n)] ELSE pm[n]]

SetCommon_SetFirst(ps, pm, cb) ==
  LET checked == CheckParameters(pm, ps)
  IN IF ~Accepts(cb, ps) THEN [ok |-> FALSE, map |-> pm]
     ELSE [ok |-> checked.ok, map |-> Assigned(checked.map, ps)]

\* The callback, then the check, then the values.
SetCommon(ps, pm, cb) ==
  LET checked == CheckParameters(pm, ps)
  IN IF ~Accepts(cb, ps) THEN [ok |-> FALSE, map |-> pm]
     ELSE IF ~checked.ok THEN checked
     ELSE [ok |-> TRUE, map |-> Assigned(checked.map, ps)]

-------------------------------------------------------------------------------
\* A parameter event; only set_parameters_atomically fills in the node's name.
Event(named, new, changed, deleted) ==
  [named |-> named, new |-> new, changed |-> changed, deleted |-> deleted]

\* The outcome of an operation: what it returns or throws, the new map, and
\* the events it publishes.
Outcome(result, pm, published) == [result |-> result, map |-> pm, published |-> published]

\* The name is stored even when the value is refused, with the descriptor.
DeclareCommon(n, default, descriptor, out, cb, use_overrides) ==
  LET initial == IF use_overrides /\ n \in DOMAIN overrides THEN overrides[n] ELSE default
      ps == <<[name |-> n, value |-> initial]>>
      set == SetCommon(ps, Entry(n, [value |-> NotSet, descriptor |-> descriptor]), cb)
  IN [ok |-> set.ok, map |-> Over(Entry(n, set.map[n]), out), new |-> ps]

Declare(pm, n, default, descriptor, cb) ==
  LET declared == DeclareCommon(n, default, descriptor, pm, cb, TRUE)
  IN IF n \in DOMAIN pm THEN Outcome("throws", pm, <<>>)
     ELSE IF ~declared.ok THEN Outcome("throws", declared.map, <<>>)
     ELSE Outcome("ok", declared.map, <<Event(FALSE, declared.new, <<>>, {})>>)

\* undeclare_parameter publishes no event.
Undeclare(pm, n) ==
  IF n \notin DOMAIN pm \/ pm[n].descriptor.read_only THEN Outcome("throws", pm, <<>>)
  ELSE Outcome("ok", Restrict(pm, DOMAIN pm \ {n}), <<>>)

-------------------------------------------------------------------------------
\* Each undeclared name is staged with the default descriptor and its last
\* value, without the callback and the overrides.
Staged(pm, ps) ==
  [n \in NamesIn(ps) \ DOMAIN pm |-> [NoInfo EXCEPT !.value = LastOf(ps, n)]]

\* The first parameter of a staged name is given the staged value.
ToBeSet(ps, staged) ==
  [i \in DOMAIN ps |->
     IF /\ ps[i].name \in DOMAIN staged
        /\ \A j \in 1..(i - 1) : ps[j].name # ps[i].name
     THEN [ps[i] EXCEPT !.value = staged[ps[i].name].value] ELSE ps[i]]

\* Declared names with a value that are given NOT_SET.
ToBeUndeclared(pm, ps) ==
  {ps[i].name : i \in {i \in DOMAIN ps :
      /\ ps[i].value = NotSet /\ ps[i].name \in DOMAIN pm
      /\ pm[ps[i].name].value # NotSet}}

\* A name that is twice among them is looked up again after it was removed,
\* where an assertion fails (the repository builds without NDEBUG).
AssertionFails(pm, ps) ==
  \E i, j \in DOMAIN ps :
    /\ i < j /\ ps[i].name = ps[j].name /\ ps[i].value = NotSet /\ ps[j].value = NotSet
    /\ ps[i].name \in ToBeUndeclared(pm, ps)

ReadOnlyAt_Never(pm, ps) == {}

\* Where a list names a read-only parameter.
ReadOnlyAt(pm, ps) ==
  {i \in DOMAIN ps : ps[i].name \in DOMAIN pm /\ pm[ps[i].name].descriptor.read_only}

\* The first name that is undeclared and may not be, or is read-only, ends
\* the call; then staging, one callback for all, one check for all.
SetAtomically(pm, ps, cb) ==
  LET refused == {i \in DOMAIN ps : ps[i].name \notin DOMAIN pm /\ ~allow_undeclared}
      read_only == ReadOnlyAt(pm, ps)
      staged == Staged(pm, ps)
      to_set == ToBeSet(ps, staged)
      gone == ToBeUndeclared(pm, to_set)
      set == SetCommon(to_set, pm, cb)
      event == Event(TRUE, WithNames(ps, DOMAIN staged),
                     WithNames(to_set, NamesIn(ps) \ (DOMAIN staged \cup gone)), gone)
  IN IF refused \cup read_only # {}
     THEN Outcome(IF Min(refused \cup read_only) \in refused THEN "throws" ELSE "failed", pm, <<>>)
     ELSE IF ~set.ok THEN Outcome("failed", set.map, <<>>)
     ELSE IF AssertionFails(pm, to_set) THEN Outcome("aborts", pm, <<>>)
     ELSE LET pm2 == Over(staged, set.map)
          IN Outcome("ok", Restrict(pm2, DOMAIN pm2 \ gone), <<event>>)

-------------------------------------------------------------------------------
\* get_parameter into an argument: FALSE for NOT_SET as for an unknown name.
\* The parameter service answers NOT_SET for both.
ValueOf(pm, n) == IF n \in DOMAIN pm THEN pm[n].value ELSE NotSet

\* get_parameters, get_parameter_types and describe_parameters throw on the
\* first name that is not declared, unless undeclared names are allowed.
Known(pm, names) == allow_undeclared \/ names \subseteq DOMAIN pm

\* Depth 0 is DEPTH_RECURSIVE.  Under a prefix the separators are counted
\* from the one after the prefix on.
ListParameters(pm, prefixes, depth) ==
  {n \in DOMAIN pm :
     \/ (prefixes = {} /\ (depth = 0 \/ Len(n) - 1 < depth))
     \/ \E p \in prefixes :
          n = p \/ (IsStrictPrefix(p, n) /\ (depth = 0 \/ Len(n) - Len(p) < depth))}

\* SyncParametersClient::has_parameter lists the name as a prefix, depth 1.
HasParameter(pm, n) == ListParameters(pm, {n}, 1) # {}

-------------------------------------------------------------------------------
\* What node.hpp says of set_parameters_atomically: the last value of a name
\* counts, and NOT_SET undeclares.
Promised(pm, ps) ==
  LET kept == (DOMAIN pm \cup NamesIn(ps)) \
                {n \in NamesIn(ps) : n \in DOMAIN pm /\ LastOf(ps, n) = NotSet
                                     /\ pm[n].value # NotSet}
  IN [n \in kept |-> IF n \in NamesIn(ps) THEN LastOf(ps, n) ELSE pm[n].value]
===============================================================================
