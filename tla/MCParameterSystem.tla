--------------------------- MODULE MCParameterSystem ---------------------------
(* Instances for TLC: of ParameterSystem, and of TimeArithmetic.  A program  *)
(* computes with any two operands before it has a node; the parameter system *)
(* does not depend on them and is explored for one pair.                    *)
EXTENDS ParameterSystem, TimeArithmetic

CONSTANTS c1, c2

Symmetry == Permutations({c1, c2})

B(x) == [type |-> "bool", v |-> x]
I(x) == [type |-> "integer", v |-> x]
P == <<"p">>
PQ == <<"p", "q">>
Set(n, x) == [name |-> n, value |-> x]
Ranged == [read_only |-> FALSE, range |-> <<0, 4, 2>>]
ReadOnly == [read_only |-> TRUE, range |-> <<>>]

Given(n, x) == [name |-> n, variant |-> x.type :> x.v]
MCNodeName == <<"/", "n">>
MCYamlFiles ==
  <<<<[node |-> <<"/", "**">>, params |-> <<Given(P, I(0))>>],
      [node |-> <<"n">>, params |-> <<Given(P, I(3))>>]>>,
    <<[node |-> <<"/", "n">>, params |-> <<Given(SimTime, B(0))>>],
      [node |-> <<"/", "m">>, params |-> <<Given(PQ, I(2))>>]>>>>
MCArgOverrides == SimTime :> B(1)
MCRejected == {I(4)}
MCDefaults ==
  {[name |-> SimTime, value |-> B(0), descriptor |-> DefaultDescriptor],
   [name |-> P, value |-> I(2), descriptor |-> Ranged],
   [name |-> PQ, value |-> I(1), descriptor |-> ReadOnly]}
\* Only set atomically, where it makes a difference.
Twice == <<Set(PQ, I(2)), Set(P, NotSet), Set(P, NotSet)>>
MCParamLists ==
  {<<Set(SimTime, B(0)), Set(P, NotSet)>>,
   <<Set(SimTime, B(1)), Set(P, I(4)), Set(P, I(2))>>,
   Twice}
MCRequests ==
  {[service |-> "set", list |-> <<Set(SimTime, B(1)), Set(PQ, I(2))>>],
   [service |-> "set_atomically", list |-> <<Set(SimTime, I(1)), Set(P, I(-2))>>],
   [service |-> "get", list |-> <<Set(P, NotSet)>>],
   [service |-> "list", list |-> <<Set(P, NotSet)>>],
   [service |-> "get_types", list |-> <<Set(P, NotSet)>>]}

\* Which of two overrides of P wins matters to a later declaration with a range,
\* which refuses one of them.
Ambiguous == parameters = NoNames /\ ~allow_undeclared
\* A node that allows undeclared names starts without any: to have those of the
\* overrides takes it a call of declare_parameter.
Either == ~allow_undeclared \/ parameters = NoNames
MCInit ==
  Init /\ OperandsOK /\ Either /\ overrides[P] = IF Ambiguous THEN I(3) ELSE I(0)
MCNext ==
  /\ left = Min64 /\ right = Min64 /\ UNCHANGED <<left, right>>
  /\ Next /\ todo'[User] # Twice
MCSpec == MCInit /\ [][MCNext]_<<vars, left, right>>
===============================================================================
