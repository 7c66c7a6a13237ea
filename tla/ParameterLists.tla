---------------------------- MODULE ParameterLists ----------------------------
(***************************************************************************)
(* Lists of parameters [name, value], which NodeParameters publishes in its *)
(* events and the ParameterEventsFilter of a TimeSource searches.           *)
(***************************************************************************)
EXTENDS Naturals, Sequences

NamesIn(ps) == {ps[i].name : i \in DOMAIN ps}

\* The parameters of a list whose names are given, in their order.  (A recursive
\* function, because the provers cannot look into SelectSeq.)
WithNames(ps, names) ==
  LET found[i \in 0 .. Len(ps)] ==
        IF i = 0 THEN <<>>
        ELSE IF ps[i].name \in names THEN Append(found[i - 1], ps[i]) ELSE found[i - 1]
  IN  found[Len(ps)]
===============================================================================
