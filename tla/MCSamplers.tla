------------------------------ MODULE MCSamplers ------------------------------
(***************************************************************************)
(* Samplers for TLC: a permutation per seed and small configurations in    *)
(* which epochs end in the middle of a step, leave a remainder, or divide  *)
(* evenly.                                                                 *)
(***************************************************************************)
EXTENDS Samplers

\* A rotation by one more than the seed: the order of two successive epochs differs.
Rotation(n, s, i) == (i + s) % n

\* What the samplers rely on: an order lists every index once.
ASSUME RotationIsPermutation ==
    \A n \in 1 .. 9, s \in 0 .. 9 : {Rotation(n, s, i) : i \in 1 .. n} = 0 .. n - 1

Job(kind, total, mbs, gbs, drop, sharding, epochs, iters) ==
    [kind |-> kind, total |-> total, mbs |-> mbs, gbs |-> gbs, drop |-> drop,
     sharding |-> sharding, epochs |-> epochs, iters |-> iters]

\* Jobs whose ranks all finish an epoch with the same number of batches.
EvenJobs == {
    Job("single", 7, 1, 2, TRUE,  FALSE, 0, 4),
    Job("single", 7, 1, 2, FALSE, FALSE, 0, 4),
    Job("cyclic", 7, 1, 2, TRUE,  TRUE,  0, 5),
    Job("cyclic", 9, 2, 4, TRUE,  TRUE,  0, 4),
    Job("cyclic", 6, 1, 2, TRUE,  FALSE, 0, 5),
    Job("batch",  5, 1, 2, TRUE,  FALSE, 0, 5),
    Job("batch",  5, 1, 2, FALSE, FALSE, 2, 1),
    Job("batch",  6, 1, 4, FALSE, FALSE, 2, 1)}

\* Unsharded random sampling of a dataset that does not divide into global
\* microbatches: one rank finds a batch in the remainder and the other does not.
UnevenJobs == {Job("cyclic", 5, 1, 2, TRUE, FALSE, 0, 4)}
=============================================================================
