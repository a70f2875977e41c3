------------------------------ MODULE MCHfExport ------------------------------
(***************************************************************************)
(* HfExport for TLC: jobs on at most four ranks that between them have     *)
(* every kind of parallelism, weight and ending.                           *)
(***************************************************************************)
EXTENDS HfExport

\* One file for the first layer and what is outside of the layers, one for the second
\* layer, and one for the multi-token-prediction layer after it.
ShardOf(n) == IF n[2] < 1 THEN 0 ELSE n[2]

Mtp == <<"mtp", 2, None>>

Job(pp, tp, ep, experts, gated, tied, dist, every, strict, absent, surplus, leftover) ==
    [pp |-> pp, tp |-> tp, ep |-> ep, experts |-> experts, gated |-> gated, tied |-> tied,
     dist |-> dist, every |-> every, strict |-> strict, absent |-> absent,
     surplus |-> surplus, leftover |-> leftover]

NoMlp == {<<"gate", 0, None>>, <<"up", 0, None>>}

ExportJobs == {
    Job(2, 2, 1, 0, FALSE, FALSE, FALSE, 1, TRUE,  {},    {},        {0}),
    Job(2, 2, 1, 0, TRUE,  TRUE,  TRUE,  2, TRUE,  {},    {LmHead},  {1}),
    Job(2, 1, 2, 4, FALSE, TRUE,  FALSE, 1, TRUE,  {},    {},        {}),
    Job(1, 2, 2, 4, FALSE, FALSE, TRUE,  1, TRUE,  NoMlp, {},        {0}),
    Job(1, 2, 1, 4, TRUE,  TRUE,  FALSE, 1, FALSE, NoMlp, {Mtp, <<"rope", 1, None>>}, {2}),
    Job(2, 1, 2, 2, TRUE,  FALSE, TRUE,  3, TRUE,  {},    {Mtp},     {}),
    Job(1, 1, 2, 2, FALSE, FALSE, TRUE,  1, FALSE, {},    {Mtp, <<"rope", 1, None>>}, {1, 2}),
    Job(1, 2, 1, 4, TRUE,  FALSE, FALSE, 1, TRUE,  {},    {Mtp},     {}),
    Job(1, 2, 1, 0, FALSE, FALSE, FALSE, 1, TRUE,  NoMlp, {},        {0}),
    Job(2, 1, 1, 0, FALSE, FALSE, FALSE, 1, TRUE,  NoMlp, {},        {})}
=============================================================================
