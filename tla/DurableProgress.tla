--------------------------- MODULE DurableProgress ---------------------------
(***************************************************************************)
(* What checkpointing promises a training job, whatever the number of      *)
(* ranks, kinds of checkpoint and saves in flight: progress is made        *)
(* durable only forwards and only as far as the job has got, a fault costs *)
(* the steps since the last durable one and no more, and a job ends only   *)
(* with its last step durable.                                             *)
(***************************************************************************)
EXTENDS Integers

CONSTANT TrainIters

VARIABLES
    mode,     \* "down", "running" or "ended"
    live,     \* the step the running job has reached
    durable   \* the step a restart resumes from

dvars == <<mode, live, durable>>

DInit == mode = "down" /\ live = 0 /\ durable = 0

\* The job resumes from exactly what is durable.
Resume == mode = "down" /\ mode' = "running" /\ live' = durable /\ UNCHANGED durable

Advance == /\ mode = "running" /\ live < TrainIters
           /\ live' = live + 1
           /\ UNCHANGED <<mode, durable>>

\* A save that was pending is made durable.
Commit == /\ mode = "running"
          /\ durable' \in durable + 1 .. live
          /\ UNCHANGED <<mode, live>>

End == /\ mode = "running" /\ durable = live
       /\ mode' = "ended"
       /\ UNCHANGED <<live, durable>>

\* A fault, or a new launch of a job that has ended.
Stop == mode # "down" /\ mode' = "down" /\ live' = 0 /\ UNCHANGED durable

DNext == Resume \/ Advance \/ Commit \/ End \/ Stop

DurableSpec == DInit /\ [][DNext]_dvars
=============================================================================
