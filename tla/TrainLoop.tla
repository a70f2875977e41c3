------------------------------ MODULE TrainLoop ------------------------------
(***************************************************************************)
(* Control of the training loop (training/train.py: train): when a step is *)
(* run or skipped, when a checkpoint is saved, when the loop ends, and the *)
(* forward pre-hooks that gather the parameters of a distributed optimizer *)
(* with overlap_param_gather.                                              *)
(*                                                                         *)
(* All ranks take the same decisions (the signal and the duration are      *)
(* agreed on by an all-gather and an all-reduce), so the loop is one       *)
(* process.  A save is one action here; CheckpointStore has its steps.     *)
(* CUDA-graph capture is off.                                              *)
(***************************************************************************)
EXTENDS Integers, FiniteSets

CONSTANTS
    TrainIters,             \* train.train_iters
    SaveInterval,           \* checkpoint.save_interval; Unset: None; 0: never
    NonPersistentInterval,  \* checkpoint.non_persistent_save_interval; 0: unset
    EvalInterval,           \* validation.eval_interval; 0: unset
    HashInterval,           \* check_weight_hash_across_dp_replicas_interval; 0: unset
    ExitInterval,           \* train.exit_interval; 0: unset
    IterationsToSkip,       \* train.iterations_to_skip, numbered from 1
    RampAt,                 \* samples after which the batch holds a second microbatch
    ToggleHook,             \* should_toggle_forward_pre_hook
    MxFp8,                  \* the fp8 recipe is mxfp8
    Fp16,                   \* the optimizer may skip a step (loss scaling)
    EarlyExit,              \* the duration limit or straggler detection may end the job
    Rerun,                  \* the rerun state machine may end the job
    MaxFaults               \* bound on crashes

Unset    == -1
NoSignal == -1

ASSUME LoopConstants ==
    /\ TrainIters \in Nat \ {0} /\ SaveInterval \in Nat \cup {Unset}
    /\ {NonPersistentInterval, EvalInterval, HashInterval, ExitInterval} \subseteq Nat
    /\ IterationsToSkip \subseteq 1 .. TrainIters
    /\ RampAt \in Nat /\ MaxFaults \in Nat
    /\ {ToggleHook, MxFp8, Fp16, EarlyExit, Rerun} \subseteq BOOLEAN

Kinds == {"persistent", "nonPersistent"}

VARIABLES
    disk,          \* [Kinds -> [step, consumed]]: the newest checkpoint of each kind
    step,          \* train_state.step
    consumed,      \* train_state.consumed_train_samples
    drawn,         \* samples taken from the data iterator, from the first run on
    microbatches,  \* num_microbatches
    start,         \* start_iteration
    hooks,         \* DDP's forward pre-hooks are registered
    enabled,       \* pre_hook_enabled
    stale,         \* the optimizer has moved shards that no gather has spread yet
    signalAt,      \* the step at which an exit signal came
    saved,         \* saved_checkpoint
    exit,          \* should_exit: no, by a decision, or by the rerun state machine
    pc,            \* where the loop is
    faults

vars == <<disk, step, consumed, drawn, microbatches, start, hooks, enabled, stale,
          signalAt, saved, exit, pc, faults>>

PCs == {"start", "top", "skip", "eval", "hash", "decide", "exit", "close", "done",
        "raised"}

Due(interval) == interval # 0 /\ step % interval = 0

\* The batch-size ramp-up as a function of the samples consumed.
NumMicrobatches(c) == IF c >= RampAt THEN 2 ELSE 1

-----------------------------------------------------------------------------
\* save_checkpoint_and_time: the parameters are gathered first.
SaveAs(kind) ==
    /\ disk' = [disk EXCEPT ![kind] = [step |-> step, consumed |-> consumed]]
    /\ stale' = FALSE

SaveNothing == UNCHANGED <<disk, stale>>

\* The non-persistent checkpoint wins a tie, as in CheckpointStore.
Newest == IF disk["nonPersistent"].step >= disk["persistent"].step
          THEN disk["nonPersistent"] ELSE disk["persistent"]

Init ==
    /\ disk = [k \in Kinds |-> [step |-> 0, consumed |-> 0]]
    /\ step = 0 /\ consumed = 0 /\ drawn = 0 /\ start = 0
    /\ microbatches = NumMicrobatches(0)
    /\ hooks = FALSE /\ enabled = FALSE /\ stale = FALSE
    /\ signalAt = NoSignal /\ saved = FALSE /\ exit = "no"
    /\ pc = "start" /\ faults = 0

\* load_checkpoint restores the counters, the microbatch calculator and the data
\* iterator; train() then removes the pre-hooks, except on an mxfp8 resume.
StartTraining ==
    /\ pc = "start"
    /\ step' = Newest.step /\ consumed' = Newest.consumed /\ drawn' = consumed'
    /\ start' = step'
    /\ microbatches' = NumMicrobatches(consumed')
    /\ hooks' = (ToggleHook /\ MxFp8 /\ step' > 0) /\ enabled' = hooks'
    /\ stale' = FALSE /\ saved' = FALSE /\ exit' = "no" /\ signalAt' = NoSignal
    /\ pc' = "top"
    /\ UNCHANGED <<disk, faults>>

\* Mutant: the loop condition admits one step more.
LoopHeadPastEnd ==
    /\ pc = "top" /\ step <= TrainIters
    /\ microbatches' = NumMicrobatches(consumed)
    /\ SaveNothing
    /\ pc' = "skip"
    /\ UNCHANGED <<step, consumed, drawn, start, hooks, enabled, signalAt, saved,
                   exit, faults>>

\* Head of an iteration: a larger number of microbatches is saved before it is used.
LoopHead ==
    /\ pc = "top" /\ step < TrainIters
    /\ microbatches' = NumMicrobatches(consumed)
    /\ IF microbatches' # microbatches /\ step # 0
       THEN SaveAs("persistent") ELSE SaveNothing
    /\ pc' = "skip"
    /\ UNCHANGED <<step, consumed, drawn, start, hooks, enabled, signalAt, saved,
                   exit, faults>>

\* Mutant: the skipped batch is drawn and not counted.
SkipIterationUncounted ==
    /\ pc = "skip" /\ step + 1 \in IterationsToSkip
    /\ drawn' = drawn + microbatches
    /\ step' = step + 1
    /\ pc' = "top"
    /\ UNCHANGED <<disk, consumed, microbatches, start, hooks, enabled, stale,
                   signalAt, saved, exit, faults>>

\* _should_skip_and_handle_iteration: the batch is drawn and counted, and `continue'
\* leaves out the rest of the iteration.
SkipIteration ==
    /\ pc = "skip" /\ step + 1 \in IterationsToSkip
    /\ drawn' = drawn + microbatches
    /\ consumed' = consumed + microbatches
    /\ step' = step + 1
    /\ pc' = "top"
    /\ UNCHANGED <<disk, microbatches, start, hooks, enabled, stale, signalAt, saved,
                   exit, faults>>

\* The pre-hooks come back after the first step that was run; while the optimizer
\* skips, the first step is put off.
EnableHook(skippedIter) ==
    /\ start' = IF step = start /\ skippedIter THEN step + 1 ELSE start
    /\ IF step = start /\ ~skippedIter /\ ToggleHook /\ ~enabled
       THEN hooks' = TRUE /\ enabled' = TRUE
       ELSE UNCHANGED <<hooks, enabled>>

\* Mutant: the pre-hooks are not brought back.
TrainStepHookForgotten(skippedIter) ==
    /\ pc = "skip" /\ step + 1 \notin IterationsToSkip
    /\ skippedIter => Fp16
    /\ drawn' = drawn + microbatches
    /\ stale' = IF skippedIter THEN stale /\ ~hooks ELSE ToggleHook
    /\ step' = step + 1
    /\ consumed' = consumed + microbatches
    /\ pc' = "eval"
    /\ UNCHANGED <<disk, microbatches, start, hooks, enabled, signalAt, saved, exit,
                   faults>>

\* One training step.  Its forward pass gathers through the hooks what is stale; the
\* optimizer, unless it skips, then moves the local shard.
TrainStep(skippedIter) ==
    /\ pc = "skip" /\ step + 1 \notin IterationsToSkip
    /\ skippedIter => Fp16
    /\ drawn' = drawn + microbatches
    /\ stale' = IF skippedIter THEN stale /\ ~hooks ELSE ToggleHook
    /\ EnableHook(skippedIter)
    /\ step' = step + 1
    /\ consumed' = consumed + microbatches
    /\ pc' = "eval"
    /\ UNCHANGED <<disk, microbatches, signalAt, saved, exit, faults>>

\* The rerun state machine ends the job inside a step: the batch is drawn and not
\* counted, and a checkpoint of the step before may be asked for.
RerunExit ==
    /\ pc = "skip" /\ step + 1 \notin IterationsToSkip
    /\ Rerun
    /\ drawn' = drawn + microbatches
    /\ SaveAs("persistent") \/ SaveNothing
    /\ exit' = "rerun"
    /\ pc' = "close"
    /\ UNCHANGED <<step, consumed, microbatches, start, hooks, enabled, signalAt, saved,
                   faults>>

\* disable_forward_pre_hook ... enable_forward_pre_hook around a section; removing
\* hooks that are not registered raises.
AroundHooks(next) ==
    IF hooks
    THEN stale' = FALSE /\ pc' = next
    ELSE pc' = "raised" /\ UNCHANGED stale

\* Mutant: the evaluation does not bring the hooks back.
EvaluateLeavesHooksOff ==
    /\ pc = "eval"
    /\ IF Due(EvalInterval) /\ ToggleHook
       THEN AroundHooks("hash") /\ enabled' = TRUE /\ hooks' = FALSE
       ELSE pc' = "hash" /\ UNCHANGED <<stale, enabled, hooks>>
    /\ UNCHANGED <<disk, step, consumed, drawn, microbatches, start, signalAt,
                   saved, exit, faults>>

Evaluate ==
    /\ pc = "eval"
    /\ IF Due(EvalInterval) /\ ToggleHook
       THEN AroundHooks("hash") /\ enabled' = TRUE
       ELSE pc' = "hash" /\ UNCHANGED <<stale, enabled>>
    /\ UNCHANGED <<disk, step, consumed, drawn, microbatches, start, hooks, signalAt,
                   saved, exit, faults>>

\* maybe_check_weight_hash_across_dp_replicas
CheckWeightHash ==
    /\ pc = "hash"
    /\ IF Due(HashInterval) /\ ToggleHook
       THEN AroundHooks("decide")
       ELSE pc' = "decide" /\ UNCHANGED stale
    /\ UNCHANGED <<disk, step, consumed, drawn, microbatches, start, hooks, enabled,
                   signalAt, saved, exit, faults>>

-----------------------------------------------------------------------------
(* checkpoint_and_decide_exit *)

\* Mutant: the signal is only looked at where a checkpoint is due.
SignalSeenAtInterval == signalAt # NoSignal /\ Due(SaveInterval)

SignalSeen == signalAt # NoSignal

SignalExit ==
    /\ pc = "decide" /\ SignalSeen
    /\ SaveAs("persistent")
    /\ exit' = "decided" /\ pc' = "close"
    /\ UNCHANGED <<step, consumed, drawn, microbatches, start, hooks, enabled,
                   signalAt, saved, faults>>

PersistentDue == SaveInterval # Unset /\ Due(SaveInterval)

\* Interval saves, the persistent one first.
RegularSave ==
    /\ pc = "decide" /\ ~SignalSeen
    /\ \/ PersistentDue /\ SaveAs("persistent")
       \/ ~PersistentDue /\ Due(NonPersistentInterval) /\ SaveAs("nonPersistent")
       \/ ~PersistentDue /\ ~Due(NonPersistentInterval) /\ SaveNothing
    /\ saved' = (PersistentDue \/ Due(NonPersistentInterval))
    /\ pc' = "exit"
    /\ UNCHANGED <<step, consumed, drawn, microbatches, start, hooks, enabled,
                   signalAt, exit, faults>>

\* Mutant: the checkpoint is saved only if one has been saved already.
DecideExitSavesTwice ==
    /\ pc = "exit" /\ (EarlyExit \/ Due(ExitInterval))
    /\ IF saved THEN SaveAs("persistent") ELSE SaveNothing
    /\ exit' = "decided" /\ pc' = "close"
    /\ UNCHANGED <<step, consumed, drawn, microbatches, start, hooks, enabled,
                   signalAt, saved, faults>>

\* Exit by duration, exit_interval or straggler detection: no interval save of either
\* kind is repeated.
DecideExit ==
    /\ pc = "exit" /\ (EarlyExit \/ Due(ExitInterval))
    /\ IF saved THEN SaveNothing ELSE SaveAs("persistent")
    /\ exit' = "decided" /\ pc' = "close"
    /\ UNCHANGED <<step, consumed, drawn, microbatches, start, hooks, enabled,
                   signalAt, saved, faults>>

StayInLoop ==
    /\ pc = "exit" /\ ~Due(ExitInterval)
    /\ pc' = "top"
    /\ UNCHANGED <<disk, step, consumed, drawn, microbatches, start, hooks, enabled,
                   stale, signalAt, saved, exit, faults>>

-----------------------------------------------------------------------------
(* After the loop. *)

FinalSaveDue ==
    /\ step # 0 /\ SaveInterval # 0
    /\ SaveInterval = Unset \/ step % SaveInterval # 0

\* Mutant: only a run without a save interval saves at its end.
EndLoopUnsetOnly ==
    /\ pc = "top" /\ step >= TrainIters
    /\ IF FinalSaveDue /\ SaveInterval = Unset
       THEN SaveAs("persistent") ELSE SaveNothing
    /\ pc' = "close"
    /\ UNCHANGED <<step, consumed, drawn, microbatches, start, hooks, enabled,
                   signalAt, saved, exit, faults>>

EndLoop ==
    /\ pc = "top" /\ step >= TrainIters
    /\ IF FinalSaveDue THEN SaveAs("persistent") ELSE SaveNothing
    /\ pc' = "close"
    /\ UNCHANGED <<step, consumed, drawn, microbatches, start, hooks, enabled,
                   signalAt, saved, exit, faults>>

CloseHooks ==
    /\ pc = "close"
    /\ IF enabled /\ ~hooks
       THEN pc' = "raised" /\ UNCHANGED <<hooks, stale>>
       ELSE pc' = "done" /\ hooks' = FALSE /\ stale' = (stale /\ ~enabled)
    /\ UNCHANGED <<disk, step, consumed, drawn, microbatches, start, enabled, signalAt,
                   saved, exit, faults>>

-----------------------------------------------------------------------------
\* DistributedSignalHandler latches the first signal.
SignalArrives ==
    /\ pc \notin {"start", "done", "raised"} /\ signalAt = NoSignal
    /\ signalAt' = step
    /\ UNCHANGED <<disk, step, consumed, drawn, microbatches, start, hooks, enabled,
                   stale, saved, exit, pc, faults>>

\* The job is started again, after its end, an exception or a crash, from what is on disk.
Restart ==
    /\ \/ pc \in {"done", "raised"} /\ UNCHANGED faults
       \/ pc \notin {"start", "done", "raised"} /\ faults < MaxFaults /\ faults' = faults + 1
    /\ pc' = "start"
    /\ UNCHANGED <<disk, step, consumed, drawn, microbatches, start, hooks, enabled,
                   stale, signalAt, saved, exit>>

Run == StartTraining \/ LoopHead \/ SkipIteration
       \/ (\E skippedIter \in BOOLEAN : TrainStep(skippedIter))
       \/ RerunExit \/ Evaluate \/ CheckWeightHash
       \/ SignalExit \/ RegularSave \/ DecideExit \/ StayInLoop
       \/ EndLoop \/ CloseHooks

Next == Run \/ SignalArrives \/ Restart

Spec == Init /\ [][Next]_vars

\* The process runs; signals, crashes and relaunches are not promised.
FairSpec == Spec /\ WF_vars(Run)
-----------------------------------------------------------------------------
(* Properties. *)

\* Types; a run never goes past train_iters.
TypeOK ==
    /\ disk \in [Kinds -> [step : 0 .. TrainIters, consumed : Nat]]
    /\ step \in 0 .. TrainIters /\ consumed \in Nat /\ drawn \in Nat
    /\ microbatches \in {1, 2}
    /\ start \in 0 .. TrainIters
    /\ hooks \in BOOLEAN /\ enabled \in BOOLEAN
    /\ stale \in BOOLEAN /\ saved \in BOOLEAN
    /\ signalAt \in 0 .. TrainIters \cup {NoSignal}
    /\ exit \in {"no", "decided", "rerun"}
    /\ pc \in PCs /\ faults \in 0 .. MaxFaults

\* The samples a run that never stops has consumed after n steps: one a step up to the
\* ramp-up, two from there on.
Position(n) == IF n <= RampAt THEN n ELSE RampAt + 2 * (n - RampAt)

\* Skipped iterations, the ramp-up, restarts and saves in the middle of an iteration
\* leave the schedule alone: a step trains on the samples it would have had in a run
\* that never stopped, and every checkpoint says so (train_state, load_checkpoint).
CountersFollowSchedule ==
    /\ \A k \in Kinds : disk[k].consumed = Position(disk[k].step)
    /\ pc # "start" => consumed = Position(step)
    /\ pc = "top" => drawn = consumed

\* A run that reached its last step left it in a persistent checkpoint (train():
\* "Save final checkpoint when training completes normally and the last step wasn't
\* already persisted by the interval-based save").
CompletedRunPersisted ==
    pc = "done" /\ exit = "no" /\ SaveInterval # 0 => disk["persistent"].step = step

\* A run that decided to exit has the step it reached in some checkpoint.
ExitKeepsProgress == pc = "done" /\ exit = "decided" => Newest.step = step

\* In a job that skips no iteration by configuration (where the hooks may never come back,
\* see LoopSkipFirst), evaluation, weight-hash checks and the end of the run remove hooks
\* that are not registered, an exception (disable_forward_pre_hook), in one case only: the
\* loss scaler has skipped every step of the run so far, which has put the start, and with
\* it the registration, off to the step just made.  One step taken, it happens no more.
HooksToggledInTurn == pc = "raised" => Fp16 /\ step = start

\* No forward pass runs on parameters that another rank has updated and that nothing
\* will gather (train(): "All subsequent forward passes will use the forward pre-hook").
ForwardUsesHook == pc = "skip" /\ step + 1 \notin IterationsToSkip => (stale => hooks)

\* After an exit signal at most one more training step runs; skipped iterations do not
\* look at it (docs/training/resiliency.md: "Signal detection happens at the end of each
\* training step").
SignalStopsTraining ==
    signalAt # NoSignal =>
        Cardinality({s \in signalAt + 1 .. step : s \notin IterationsToSkip}) <= 1

\* A signal that finds a step still to run ends the run early: the loop is left by a
\* decision, with the step it reached in a checkpoint, and not at train_iters.  A crash or
\* an exit of the rerun state machine may come first (checkpoint_and_decide_exit).
SignalEndsRun ==
    signalAt # NoSignal /\ (\E s \in signalAt + 1 .. TrainIters : s \notin IterationsToSkip)
        ~> \/ pc = "start" \/ exit = "rerun"
           \/ exit = "decided" /\ Newest.step = step
=============================================================================
