-------------------------- MODULE MCCheckpointStore --------------------------
(***************************************************************************)
(* CheckpointStore for TLC.                                                *)
(***************************************************************************)
EXTENDS CheckpointStore, TLC

CONSTANTS r1, r2   \* two ranks

\* The ranks differ in nothing but their name.
RankSymmetry == Permutations(Ranks)

\* No retention: most_recent_k = -1.
KeepAll == -1
=============================================================================
