------------------------------ MODULE MCOperator ------------------------------
(* AggregatedAPIs for the runs of Operator.                                   *)
EXTENDS Operator

\* "team"/"api" and "ops"/"api".
Distinct == {[namespace |-> <<"team">>, name |-> <<"api">>],
             [namespace |-> <<"ops">>, name |-> <<"api">>]}

\* The name of the Service of "ops"/"api" is too long.
LongName == {<<[namespace |-> <<"ops">>, name |-> <<"api">>], "applyService">>}

\* "team-a"/"api" and "team"/"a-api".
Joined == {[namespace |-> <<"team", "a">>, name |-> <<"api">>],
           [namespace |-> <<"team">>, name |-> <<"a", "api">>]}
=============================================================================
