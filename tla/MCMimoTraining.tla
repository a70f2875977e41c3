---------------------------- MODULE MCMimoTraining ----------------------------
(***************************************************************************)
(* MimoTraining for TLC: fan-in, fan-out and equal sizes, one and two      *)
(* stages, either module first, both ways of averaging the loss.           *)
(***************************************************************************)
EXTENDS MimoTraining

Job(ldp, lpp, edp, epp, languageFirst, perToken) ==
    [dp |-> [language |-> ldp, encoder |-> edp], pp |-> [language |-> lpp, encoder |-> epp],
     languageFirst |-> languageFirst, perToken |-> perToken]

MimoJobs == {
    Job(1, 2, 2, 1, TRUE,  TRUE),
    Job(2, 1, 1, 2, FALSE, FALSE),
    Job(1, 1, 4, 1, TRUE,  FALSE),
    Job(2, 2, 2, 1, FALSE, TRUE),
    Job(4, 1, 2, 1, FALSE, TRUE),
    Job(2, 1, 1, 1, TRUE,  TRUE)}

\* The tokens of a sample: none in the second microbatch and in the whole second step.
Tokens(x) == IF x \in 4 .. 15 THEN 0 ELSE x % 3
=============================================================================
