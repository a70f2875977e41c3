# NT3 Megatron Bridge in TLA+

This directory holds TLA+ models of Megatron Bridge: its training runtime (`src/megatron/bridge/training`), its
data loading (`src/megatron/bridge/data`) and its conversion of weights (`src/megatron/bridge/models`), the
TLC configurations that model-check them on small instances, and TLAPS proofs about them. Paths below
are relative to the repository root; `T/` stands for `src/megatron/bridge/training/`.

Run from this directory: `tlc -workers 2 -config StoreAsync.cfg MCCheckpointStore` checks one run,
`tlapm TrainLoop_proofs.tla` one module of proofs. `PROJECT.json` names, for every definition, the lines it
models; for every run, what it checks; for every property, a mutation of the code it must catch.

## 1. The system

Megatron Bridge trains large models with Megatron-Core: it builds a Megatron model from a Hugging Face
checkpoint (or from a recipe), runs the training loop on many ranks, saves and resumes checkpoints, and
exports the weights back. Most of its lines are recipes, configuration and tensor code. The state machines
are in the training runtime, in the samplers, and in the conversion, where ranks meet in collectives.

| Component | State it keeps | Operations | Talks to | What is hard |
|---|---|---|---|---|
| Checkpointing (`T/checkpointing.py`, `T/utils/checkpoint_utils.py`) | `iter_*` directories below the save, `non_persistent` and `energon` roots; `latest_train_state.pt` and `latest_checkpointed_iteration.txt`; the queue of asynchronous saves; removal threads; a memo of files read | save, schedule, finalise, clean up, select and load | the loop (direct calls), writer processes (queue), the other ranks (barriers, all-reduce), the file system | crashes between any two writes; overlapping asynchronous saves; removals in background threads; retention that counts directories |
| Training loop (`T/train.py`) | `train_state` (step, samples), start iteration, pre-hook flags, microbatch calculator, exit flags | head of iteration, skip, train step, evaluate, hash check, save or exit, close | checkpointing, DDP hooks, rerun state machine, signal handler, callbacks | `continue` and early exits that leave out later steps of the iteration; flags that must follow the hooks |
| Process lifecycle (`T/setup.py`, `T/pretrain.py`, `T/inprocess_restart.py`, `T/state.py`) | `GlobalState`: config, queue, trackers, train state | set up, run, restart in process, tear down | everything | what survives an in-process restart and what must not |
| Exit signal handler (`T/utils/sig_utils.py`) | a latch per rank | install, latch, all-gather, release | loop | a signal on one rank, at any instant |
| Fault tolerance (`T/fault_tolerance.py`) | section flags, iteration counts, a file of timeouts | open and close the setup, step and checkpointing sections | an external rank monitor | sections opened and closed in different branches |
| Evaluation (`T/eval.py`) | evaluated samples, time limit | evaluate on each data set, stop early | loop, iterators | early return on the time limit |
| Rerun state machine, DDP, optimizer (Megatron-Core, external) | | | loop | an exit asked for inside a step |
| Experiment trackers (`T/utils/{wandb,mlflow,comet}_utils.py`) | run handles | publish a checkpoint as an artifact | finalize functions | run later than the save they describe |
| Callbacks, profiling, NVRx straggler | observers | hooks around steps | loop | none of the modelled state |
| Configuration (`T/config.py`) | declarative | validate | all | combinations |
| Batch samplers, loaders, cyclic iterators (`data/samplers.py`, `data/loaders.py`) | consumed samples of each rank's sampler, batches a loader holds ready | start a pass, draw, resume | loop (consumed samples) | epoch borders and remainders on resume; ranks that never exchange a position; loaders that run ahead |
| Datasets, packing, Energon (`data/packing`, `data/iterator_utils.py`) | packing bins, cached iterators | build samples | loaders | a sequential heuristic |
| Multi-module training (`T/train_megatron_mimo.py`, `T/megatron_mimo_*.py`, `data/megatron_mimo`) | grids of ranks per module, a loader per rank, token counts | slice a microbatch, forward and backward through the bridge, finalise gradients, agree on the loss, count | pipeline schedule, bridge, optimizer (Megatron-Core) | modules with other numbers of replicas and stages; collectives that only some ranks reach |
| HF conversion (`models/conversion`, `models/hf_pretrained`) | task lists, shards of parameters, buffers of tensors, files, index | load, broadcast and gather a tensor, write shards, write the index | collectives, file system | collectives without names; weights that are absent; many writers |
| Providers, PEFT, diffusion, inference, recipes | configuration and tensors | build, forward | | no shared state |

What makes each component correct:

* **Checkpointing.** Whatever instant the job dies at, a restart finds a whole checkpoint; the step it
  resumes from never goes back; a job that ended made its last step durable; retention removes neither the
  selected checkpoint nor one being written, and forgets nothing; every accepted save becomes durable.
* **Training loop.** A step trains on the samples it would have had in a run that never stopped; the last
  step of a completed run, and the step at which a run decides to exit, are in a checkpoint; hooks are
  removed and registered in turn and no forward pass uses parameters that nothing gathers; a signal stops
  training.
* **Lifecycle.** A restart, in process or not, resumes from the newest checkpoint on disk.
* **Fault tolerance.** Every section is opened and closed in turn on every path, iterations are timed alone;
  timeouts are computed only from sections that were seen. **Evaluation.** However an evaluation ends, no
  training step runs in what it has set up.
* **Samplers.** A resumed run trains on what the lost run would have; across ranks and restarts no sample
  of an epoch is drawn twice, and a job configured by epochs draws each once per epoch.
* **MIMO.** Embeddings meet the tokens of the same samples; both modules step on gradients of one loss; a resumed
  job repeats and loses no sample; no rank waits in a collective that another has left out.
* **Conversion.** Ranks meet on the same weight; every shard can be computed with alone; every tensor comes
  back as it was; the index names what was saved; all ranks finish, or all raise.

## 2. Modules

```
  MCCheckpointStore --> CheckpointStore <-- CheckpointStore_proofs <-- DurableProgress_proofs
                              |
                              v
                       DurableProgress
                                          TrainLoop       <-- TrainLoop_proofs
                                          FaultTolerance  <-- FaultTolerance_proofs
                    MCSamplers ---------> Samplers        <-- Samplers_proofs
                    MCHfExport ---------> HfExport        <-- HfExport_proofs
                                             |
                                             v
                                       WeightLayouts      <-- WeightLayouts_proofs
                                             ^                        ^
                                             |                        |
                    MCMimoTraining -----> MimoTraining    <-- MimoTraining_proofs
```

An arrow is EXTENDS, or INSTANCE for `DurableProgress`. An `MC` module gives a module its instances for TLC; a `_proofs`
module holds its inductive invariants, theorems and proofs.

The models of the training runtime meet in the calls of `train()`: `BeginSave` of CheckpointStore, the saves of TrainLoop
and `BeginCheckpointing` of FaultTolerance are the same `save_checkpoint`, each seen at the grain its properties
need; `position` of Samplers is `consumed` of TrainLoop. Composed they would multiply state that no property relates.

### CheckpointStore

One job: `save_checkpoint`, the finalisation of saves, retention and the load of a restarted job, driven by
the calls of the loop that reach them.

* The main thread of rank 0 is the program counter `pc`. The other ranks follow it through the collectives
  of the save (the barrier after the write, the all-reduce of `maybe_finalize_async_calls`), so they only
  appear as the writers of a checkpoint's files: `files[root][step]` is the set of ranks whose
  files are whole.
* `queue` is `async_calls_queue`: a call is popped by the non-blocking finalisation at the head of an
  iteration and by the blocking one on the way out (`FinalizeHead`), when every rank's writer has
  finished it; each rank's persistent worker serves its calls in order (`BackgroundWrite`).
* The finalize functions are one action each, in the order they are registered (`WriteTrainState`, `WriteTracker`,
  `WriteLegacyTracker`, `Publish`, `Cleanup`), so that a fault may fall between any two.
* `cleaning` is what removal threads still hold. The code serialises whole lists of directories under a
  lock; the model removes them in any order, which only adds behaviours. `Rmtree` is two steps: contents, then
  directory.
* `Oldest`, `NonPersistentExcess` and `PersistentExcess` are `cleanup_old_non_persistent_checkpoint`, with the
  order in which `rglob` and the stable sort put equal iterations.
* `Load` reads both trackers through the memo (`ReadTrainState`), takes the newer checkpoint and
  the non-persistent one on a tie, and is disabled where the code raises.
* `Crash` takes the process with its threads; `InProcessRestart` drops the queue and the memo and leaves the
  removal threads of the same process; `CrashInTrackerCopy` leaves a truncated tracker.

### DurableProgress

The promise of checkpointing with ranks, kinds and queues left out: a step the job has reached, a step a
restart resumes from, five actions. `Promise` in `CheckpointStore` maps that module onto it (`durable` is the
newest tracked step); the refinement is the property `ImplementsDurableProgress`, checked by `StoreAsync` and proved in
`DurableProgress_proofs`. A commit is the write of `latest_train_state.pt` and nothing else.

### TrainLoop

The control of `train()`: `LoopHead` (microbatch ramp-up with its save), `SkipIteration`, `TrainStep` (which a loss
scaler may skip), `RerunExit`, `Evaluate`, `CheckWeightHash`, the branches of `checkpoint_and_decide_exit`
in their order (`SignalExit`, `RegularSave`, `DecideExit`, `StayInLoop`), the final save (`EndLoop`)
and `CloseHooks`; `StartTraining` is what the load restores. A save is atomic here: its steps are CheckpointStore's.
All ranks take the same decisions (they are agreed by an all-gather or all-reduce), so the loop is one process.

`hooks` is whether DDP's forward pre-hooks are registered, `enabled` the flag `pre_hook_enabled`, `stale`
whether the optimizer has moved shards that no gather has spread. Removing hooks that are not
registered raises in Megatron-Core, hence the `pc` value `"raised"`. `drawn` counts what was taken from the
data iterator, `consumed` is `consumed_train_samples`.

### FaultTolerance

What the rank monitor of `ft_launcher` sees. The client (`RankMonitorClient`, external) is the set of `open`
sections, those it has `observed`, what timeouts it has `calculated`, and `misused`, which stands for the exception
it raises. `setupOpen`, `trIters`, `evalIdx`, `seenSave` and `loaded` are `FaultToleranceState`. The hooks are the
actions `Setup`, `StepStart`, `StepEnd`, `EvalStepStart`, `EvalStepEnd`, `BeginCheckpointing`, `EndFinalize`,
`EndSave` and `Shutdown`, called from the places of `train()`, `_pretrain()` and `_finish_train()` that call them,
in their order; so the control of the loop is here again, reduced to what opens or closes a section.

Evaluation is in the same module because its steps are sections too: `BeginEvaluation` starts the timer, puts the
model in evaluation mode and disables the rerun state machine; `EvalStepEnd` ends the iteration, and the evaluation by
the time limit (which undoes the last of the three only) or after `eval_iters`. The time limit passes at any
instant (`TimePasses`). Starting a timer that runs raises: `pc` is `"raised"`.

`InProcessRestart` replaces the client and the timers and leaves `FaultToleranceState`, as `reset_for_restart` does;
`NewProcess` is the relaunch by `ft_launcher`. A place of `pc` between opening and closing is where a fault can fall.

### Samplers

The three batch samplers under the loaders and iterators that the loop draws from, on 1 .. `MaxDP` data-parallel ranks.

* `Pass` is one `__iter__` of a sampler as a pure function of the samples consumed before: `SequentialPass`,
  `GlobalBatchPass`, `RandomPass`. A permutation is a constant operator of size and seed, `Perm`, for the torch
  generator, so every rank that seeds alike orders alike.
* `BeginPass` is `cyclic_iter` (or the one pass of a sequential sampler), `Draw` a batch that the loader
  fetches ahead of the loop, up to `Prefetch`; a sampler counts what it yields, `consumed`, not what is trained.
* `TrainStep` takes a step's batches from every rank's queue and advances `position`, the loop's count;
  `SaveCheckpoint` keeps it, `Restart(d)` builds new samplers from it on any number of ranks d.
* `trained` remembers the batches of every step: the properties speak of it.

### WeightLayouts

Pure operators on sequences of slices, shared by the two modules below: `Part` and `Cat` are splitting and concatenating
along a dimension, `PadRight` the padding of a vocabulary, `MergeQKV` with `SplitQ`, `SplitK`, `SplitV` the interleaved
attention weight with its optional output gate, `GatedShard` the shards of a fused gate and up projection. A tensor
is the sequence of its slices, each a value of its own, so that an order or a shard that is wrong shows.

### HfExport

A Hugging Face checkpoint loaded into a model on pipeline, tensor and expert-parallel ranks, and written again.

* Ranks are triples <<stage, expert rank, tensor rank>>. `Tasks` is a rank's list of conversion tasks, sorted by
  global parameter name; `position` walks it. `todo` is the collectives that the mapping's `megatron_to_hf` will enter
  for the task: the broadcast of the config, of the detected type and of the tensor in the pipeline group, the gather of
  the tensor-parallel and of the expert-parallel group.
* A collective has no name: it runs when every member of its group is in one of its kind, on whatever each
  is working on. The model keeps this, so that lists in different orders would mix weights or stop.
* `Load` is one task of a tensor-parallel group (`hf_to_megatron`, scatter); `FinishLoad` and `ShareEmbedding` the
  broadcast of tied embeddings between first and last stage.
* `StageCollective`, `GatherShards`, `GatherExperts` are the collectives, `Consume` what the generator of `save_generator`
  does with the tensors of a task: keep, write a whole file, refuse.
* `EndAlone` is the end of a save by rank 0; `WriteAssigned` and `AgreeOnStatus` the end of a distributed one, where the
  all-reduce of the missing tensors makes all ranks raise together. `Leave` is the last barrier.

### MimoTraining

An encoder and a language model on ranks of their own, <<module, replica, stage>>, with every data-parallel and pipeline
size of the two.

* Every rank that needs data has a loader with `dp_size` 1: `Drawn` is the whole microbatch, `Slice` what
  `slice_batch_for_megatron_mimo` cuts for the replica. `read` is how far the rank's loader is.
* `Forward` and `Backward` are a microbatch on one rank, in any order that the 1F1B schedule and the bridge
  (Megatron-Core, external) allow. `Bridged` concatenates or splits what replicas of the encoder send; nothing says
  of which samples it is, the model carries them along as `hidden` to compare with the rank's own `samples`.
* `grad` is, for each microbatch, what one sample weighs in the loss, as a fraction. `FinalizeGrads` is
  `finalize_model_grads` of one module, with the average or sum over replicas, `BroadcastTokens` the token count that the
  encoder divides by, `OptimizerStep` the step of both with `trained` as its record.
* `AgreeOnSource` and `BroadcastLoss` are the collectives after a step; `CountStep` counts on each rank alone,
  `SaveCheckpoint` keeps the counts of the first rank and `Crash` starts all ranks again from them.

## 3. Runs

| Run | What is asked | Bounds |
|---|---|---|
| `StoreSync` | is the checkpoint a start would select whole, with synchronous saves of both kinds under retention, each write, removal and tracker interrupted | 2 ranks, 6 steps, saves every 3 and 2, k = 1, 2 faults, torn trackers |
| `StoreAsync` | do both trackers name whole checkpoints with overlapping asynchronous saves, Energon state and signals; does a restart read the newest; is `DurableProgress` implemented | 2 ranks, 4 steps, saves every 2 and 1, all kept, 2 faults |
| `StoreNonPersistent` | do overlapping non-persistent saves with their own retention keep the selected and the unfinished checkpoint, and forget none; under fairness, does every accepted save become durable, and the job end | 5 steps, a non-persistent save each step, k = 1, 1 fault |
| `LoopHooks` | hooks, final save and exits with every interval set, loss-scale skips, ramp-up, mxfp8 resume, early and rerun exits | 6 steps, any of them skipped by the loss scaler, none by configuration, 2 crashes |
| `LoopSkip` | sample schedule with configured and loss-scale skips, ramp-up and rerun exits; a signal stops training at the next step that is run, and under fairness ends the run there by a decision, with the step saved, and not at its last step | 6 steps, steps 1, 2, 4, 5 skipped, 2 crashes |
| `Sections` | sections in turn, iterations timed alone, timeouts only from what was seen, no trace of evaluation; under fairness, is every section ended by its own hook before the client is shut down | 6 steps, 1 and 3 skipped, saves every 4, evaluations of 2 iterations every 2, 2 faults |
| `Samplers` | does each sampler's count follow the loop's; are resumed steps the steps that were lost; is no sample of an epoch drawn twice, and each drawn where epochs are asked for; under fairness, does training end | 8 jobs: every sampler, with and without remainders and `drop_last`; 1 or 2 ranks, prefetch 2, 2 restarts |
| `HfExport` | can every shard be computed with alone; do ranks meet on the same weight; does every tensor come back; do tied copies agree; is the index true; under fairness, do all ranks end together | 10 jobs on 1 to 4 ranks: pipeline, tensor and expert sizes 1 and 2, 4 heads in 2 groups, 2 layers, up to 4 experts, 3 files |
| `Mimo` | do embeddings meet their tokens; do both modules step on gradients of one loss; does a resumed job follow the schedule; under fairness, does every step complete | 6 layouts: fan-in, fan-out and equal sizes up to 4 replicas, 1 or 2 stages, either module first, both averages; microbatches of 4 samples, 2 a step, 3 steps, a save at 2, 1 crash |

`StoreAsyncRetention`, `LoopSkipFirst` and `SamplersUneven` each end in a counterexample; section 6 has them.

Why the bounds are enough. Two ranks show every order of a save's writers, the ranks being interchangeable
(`RankSymmetry`; not used where liveness is checked). Two faults allow a fault during the recovery from another, or during the
rewrite of a directory an earlier fault left. In `StoreSync` saves of the two kinds fall on steps of their own and, at
step 6, on one, so that retention of either meets the other's checkpoints. In `StoreAsync` four steps with a save at each let saves of
both kinds be in the queue at once while an earlier one is tracked; a fifth step, in `StoreNonPersistent`,
lets one be removed meanwhile. Retention is met with k = 1, the smallest value that still keeps something, where the border is
closest. In `LoopHooks` the intervals 2, 3, 4 and 5 over 6 steps meet one another in most of the ways they can:
a step with only one due, an evaluation with a save, a non-persistent step that is
also the interval step, a last step that is not a save step. In `Sections` the first step is skipped, so that
setup is still open at the second, and evaluations fall on a step with a save, on one without and on the last one;
`MinStepIters` = 2 stands for the 16 of the code and differs from the one warm-up iteration, which is all the
conditions tell apart.

The data sets of `Samplers` have 5 to 9 samples: epochs end within a step and between steps, leave a remainder
smaller or larger than a microbatch, or divide evenly, and the runs cover one to three of them. A prefetch of 2 is a batch
beyond the one being trained. Two restarts let the second start from what the first one left, on another number of
ranks. The permutation is a rotation by the seed: that two epochs differ is all the sampler's arithmetic can see of it.
The jobs of `HfExport` have between them every pair of parallel dimensions, a dense and an expert
layer, weights that are absent, tensors no parameter maps to, files left by an earlier export, strict and not, one writer,
several, and a writer on every second or third rank. Sizes of 2 are enough to tell a rank from its neighbour, and heads and groups of 4
and 2 to tell a group from a head. In `Mimo` four samples are two slices of two, or four of one; one microbatch and one whole step
have no tokens at all, the cases the divisions guard. The three steps have one before a save, one at it and
one after, and the crash may fall at any rank's any stage of them.

`MaxFaults`, `MaxRestarts` and `Prefetch` are the only caps of the models; everything else is finite because the length of a job is.

Deadlock is checked except where a job really stops. In `StoreSync`, `latest_train_state.pt` is overwritten in place (`shutil.copy`), a
crash inside the copy leaves a file that every later start raises on, and the job stops for good there, as in the
code. In `Samplers` and `Mimo` a job ends; in `SamplersUneven` too; in `HfExport` ranks end or raise. What must not stop there is
stated as a liveness property (`TrainingEnds`, `StepsComplete`, `ExportEnds`), which a deadlock would break.

Fairness. `FairSpec` of CheckpointStore asks for weak fairness of the main thread, of each rank's
writer and of the removal threads: nothing in the code blocks them for good (the final finalisation blocks on
writers that keep running). `Load` is in that conjunct because a scheduler starts a job that died. No fault,
signal or relaunch is promised. `FairSpec` of TrainLoop is weak fairness of the loop; there
too signals and crashes may never come. `FairSpec` of FaultTolerance is weak fairness of the main thread,
which waits for nothing but collectives and the blocking finalisation. `Spec` of Samplers has it for `TrainStep` and for
each rank's loader, whose workers are processes of their own; saves and restarts are not promised. `Spec` of HfExport and
of MimoTraining have it for the job as a whole (`Next`; `Train`, without `Crash`): a rank only waits in a collective or for a
microbatch, and some rank can always go on, or else the property fails.

## 4. Proofs

All proofs hold for every value of the constants under the named assumptions (`ConstantsAssumption`,
`LoopConstants`, `FaultToleranceConstants`, `SamplerConstants`, `ExportConstants`, `MimoConstants`), which give them
their types and the divisibility the code checks: any finite set of ranks, any intervals, any retention, any number of jobs. The
inductive invariants live in the `_proofs` modules. They were model-checked on the instances of section 3 while they were being
developed; the runs check the properties that follow from them.

* `TypeCorrect`, `StoreInvariant` (`CheckpointStore_proofs`). `TrackersWhole` is not inductive: that the
  checkpoint a tracker is about to name is whole depends on the save in progress, and that stays true only
  because no other save and no removal touches its directory. `StoreInv` therefore says, kind by kind: what each
  stage of a save has established (`CurInv`); that a queued save is newer than the tracker and older than those behind it, and
  that its finished writers' files are there (`QueueInv`); that removals are behind the tracker (`CleaningInv`);
  that the tracker is not ahead of training (`StepInv`). It speaks of the `Protected` kinds, those for which the
  code keeps the promise: persistent checkpoints where no persistent save removes one (`Undisturbed`), because all are kept and the
  last step is a save step, or because only the last step is saved so (`OnlyLast`, with `LastInv`);
  non-persistent ones unless a persistent save removes below their directory. The proof has one step per action.
* `UndisturbedTrackersWhole`, `UndisturbedResumePoint`: both trackers name whole checkpoints, through any crashes,
  restarts and torn trackers, synchronous or not, and so a restart selects a whole one. `NonPersistentTrackerWhole`: the same of the non-persistent
  tracker under any retention; its key lemma, `NonPersistentExcessOlder`, is that `max_iteration` keeps retention
  behind the checkpoint just saved. All are about the saves of CheckpointStore, so about jobs without a batch-size ramp-up
  and without a rerun exit, whose saves may repeat a step in place (section 6).
* `UndisturbedLegacyWhole`, `UndisturbedInFlight` (`CheckpointStore_proofs`), under the same assumption. `LegacyInv` follows a step
  from the tracker to the Megatron-LM tracker: it names a whole checkpoint, stays
  behind the Bridge tracker and ahead of removals. The second
  is `QueueInv` against `CleaningInv`: removals are behind the tracker, queued saves ahead of it.
* `RetentionKeepsResumePoint` (`CheckpointStore_proofs`), with synchronous saves of both kinds under retention. A removal counts
  directories, whole or not, so what matters is which leftovers a crash can leave above the checkpoint that was just
  saved. `RetentionInv` says: what the trackers name and nobody removes is whole (`WholeInv`); a directory above both trackers is
  of the next step due, the one the crashed save was for, which the next attempt writes again and counts once
  (`LeftoverInv`, `ScheduleInv`, with `NoneDue`: nothing is due between the tracker and the step a run starts from);
  what a save has in hand (`SavedInv`, `SweepInv`). So what a removal takes is older than the save just tracked (`PersistentExcessOlder`).
  The theorem excludes a torn persistent tracker, which makes a restart select nothing, and every other hypothesis is needed, as TLC shows:
  with asynchronous saves the leftover may be of any later step, which is the finding of `StoreAsyncRetention`; with exit
  signals, a last step off the save interval or `most_recent_k` of 0 a save is counted against a newer leftover, or removed itself (section 6); and
  with Energon and one to keep the `energon` directory of a step takes the place of its checkpoint.
* `NonPersistentStaysBounded` (`CheckpointStore_proofs`), for all constants. The directories that stand and that no thread is about to
  remove are at most as many as retention keeps, once those newer than the last save swept are left out (`BoundInv`, `Trimmed`): a
  later removal sees what `max_iteration` hid from an earlier one. The proof counts with the cardinality theorems of the library; a set
  with more than it may keep has an oldest element, by the well-foundedness of the natural numbers (`LeastOf`, `OldestLeavesFew`).
* `StoreKeepsPromise`, `RestartReadsNewest` (`DurableProgress_proofs`). The refinement, for every retention and
  interval. A commit has to move forward and not past the step reached, which two kinds of saves, finalised from one
  queue, do because both trackers are behind every pending save and pending saves are in the order of
  finalisation (`PendingAhead`); a job may end only with its last step durable, because whoever leaves the loop has it
  tracked, queued or in hand (`LastStepCovered`). It assumes that no crash tears a tracker (`~TornTracker`): a torn
  one loses what was durable. The second is that the memo is empty whenever a load runs.
* `LoopTypeCorrect`, `ForwardsGather`, `HooksKept` (`TrainLoop_proofs`). Where no iteration is skipped by configuration
  no forward pass runs on parameters nothing gathers: `HookInv` adds that the flag follows the hooks and that they are off
  only before the first step the optimizer takes, while nothing is stale and the start follows the step. `ToggleInv` adds that they
  are on at every evaluation and check if the loss scaler skips nothing; so whoever removes hooks that are off finds
  a run without a step taken. With iterations skipped by configuration both are false (`LoopSkipFirst`).
* `CountersKept`, `SignalSeenInTime`, `ExitsKeepProgress`, `CompletedRunsPersisted` (`TrainLoop_proofs`), each by an
  invariant of its own that says what holds at every place of an iteration. `Position(n)` gives the samples after n steps in closed form, so that
  `ScheduleInv` needs no induction: a step moves the counts by the batch size of its place in the ramp-up.
  `SignalInv`: every step between a signal and the current one was skipped. `ExitInv`: no checkpoint is ahead of the run, and
  a run that has saved its step, or has decided to leave, has it in the newest checkpoint. `CompletedInv` assumes `LastStepSaved`, the last step off the
  save interval or not skipped; without it the code saves the last step nowhere (section 6).
* `MonitorSeesSectionsInTurn`, `NoTraceOfEvaluation` (`FaultTolerance_proofs`). That the client is never misused
  follows from `SectionsInv`, which says for each place of the program exactly which sections are open: the flag
  `setupOpen` agrees with the client while an invocation runs, and `step` is open where the counter said so when the
  iteration began. The second needs `EvaluationInv`: evaluation mode and the timer are left on only once the time is
  up, and from such a state every place leads out of the loop, because the time stays up and
  `checkpoint_and_decide_exit` looks at it again. Both hold for every interval, skip list and number of faults.
* `MonitorTimesIterationsAlone`, `TimeoutsAreTimed` (`FaultTolerance_proofs`). The first is a consequence of `SectionsInv`.
  The second counts what the client has timed (`CountsInv`); it assumes `MinStepIters > NumWarmupIters`, in the code 16
  and 1: only iterations past the warm-up are timed.
* `SamplersTypeCorrect`, `SamplersFollowTraining` (`Samplers_proofs`). A sampler's count is the loop's plus what its loader holds, for any
  permutation of indices, data set and sequence of restarts, so that a pass of the random sampler starts on a whole batch of all
  ranks, as the code asserts. `SamplerInv` adds the types and `StartsInside`: the sequential sampler, which does not
  count, starts within the data set.
* `RestartsRepeatSteps`, `SamplesTrainedOnce`, `EpochsAreComplete` (`Samplers_proofs`). The core is a closed form of the slicing:
  the k-th batch a pass yields, for each of the four orders, is the batch of its position (`PassIs`, `BatchOf`), whatever
  position the pass starts from. `BatchesInv` then says that what loaders hold and what a step was trained on are the batches at the
  positions from the loop's on, which restarts do not change. Positions and slots of a step are in bijection
  for any number of ranks (`PlaceUnique`, `PlaceExists`), and the sample at a position does not depend on that number (`SampleAtPlace`), so a step
  means the same samples on another one; a permutation and `epoch * length + offset` being unique give the second theorem; and
  an injection of the slots of a sample onto the epochs the third, so that nothing has to be counted. They assume that orders are permutations
  and, for the first two, `RanksAlike`: unsharded random sampling leaves no rank a whole microbatch in the rest of the data
  set. The jobs of the run `Samplers` satisfy it, and `SamplersUneven` is a job that does not.
* `CatOfParts`, `GatedRoundTrip`, `AttentionRoundTrip` (`WeightLayouts_proofs`): splitting and concatenating, the gated
  shards and the interleaving of query groups are each other's inverse, for all sizes that divide. They are
  statements about the operators, by the arithmetic of division with remainder, and need no induction.
* `TiedEmbeddingsAgree` (`HfExport_proofs`). `TiedInv` is that a rank of the last stage past `share` has the embedding
  of its first stage, and that the first stage is past loading too, so that no load changes its embedding afterwards; stages
  finish loading in any order.
* `RanksMeet` (`HfExport_proofs`): in every job, the ranks of a group wait in the same collective of the same task.
  Each rank builds its own task list and skips what its source or its stage lacks, so the argument is about the lists: `MeetInv`
  says that two ranks of a group have the same collectives of that group's kind still to come, task by task (`WaitAlike`). Lists
  are alike because names are ordered alike on all ranks and the names of experts differ by a shift (`SameRank`, `TasksInOrder`). It
  assumes `ExpertsAlike`: in a job of one stage, where the code skips a tensor its own source lacks, a source that lacks a tensor of one expert
  lacks it of all. The assumption is needed: with the gate of one expert missing and two expert-parallel ranks the ranks skip different
  tasks, and TLC finds the export stuck (two experts) or ranks that meet in different tasks (four).
* `ShardsAreWhole` (`HfExport_proofs`). `LoadInv` is that the ranks of a tensor-parallel group load in step and that what a rank
  has loaded, a tied output layer apart, is its shard of that parameter, which nothing changes afterwards. The rest is about shards: each is a number of
  whole blocks of the interleaved tensor (`ShardOfGroups`), and a block is one group (`GroupsAreWhole`); gate and up rows are cut at the same places (`GatedRows`).
* `TensorsComeBack` (`HfExport_proofs`), under `ExpertsAlike`. `RoundInv` adds to `MeetInv` and `LoadInv` what a rank has in hand, by the
  collectives that are left of its task (`InHand`): its own shard or nothing before the pipeline broadcast, then the shard of its place, then the whole
  parameter (`Full`), then the experts of its group; and that what is kept to be written, and what is in a file, is what the source has under that name.
  A step hands on what the next collective expects (`HandReceives`), because those who meet work on the same parameter and at the same collective (`StageMeets`, `GroupMeets`),
  the broadcast comes from a stage that has the shard (`SomeOwner`), and the i-th rank of an expert-parallel group works on the i-th peer (`PeerIs`). The shards put together
  are the parameter (`FullOfShards`), and what a task makes of that are the source's tensors (`ConvertedBack`), by the round trips of WeightLayouts.
* `IndexIsOfThisExport` (`HfExport_proofs`), under `ExpertsAlike`, whatever an earlier export left. `IndexInv` adds to `RoundInv` that a rank keeps
  tensors of its own files only (`KeepsOwn`), that a file a saver has a tensor of holds, once it has ended, what it kept and nothing else (`Delivered`),
  and that an index is there only when all savers have ended, or the only one. So an old tensor is in a file of which no rank has any. Every file has one
  saver (`NumberOnce`, `SaversApart`, `SaversAll`), so that what a file holds is what one rank kept; that the shards of a source take in all its
  tensors is an assumption of the model (`ShardsOfSource`), which TLC checks of the run's sources.
* `BridgeKeepsSlices`, `EmbeddingsMeet` (`MimoTraining_proofs`). The lemma: what a bridge of any two sizes, one
  dividing the other, delivers to a replica is what the replica cuts from the microbatch for itself. `MimoInv` then has, besides
  types (`MimoType`): a rank's count is its step's (`Counted`), its loader has read a microbatch for each one computed
  (`Loaded`), each microbatch computed has the samples of that step, microbatch and replica (`Worked`), and a rank past its backward
  steps has all of them (`Whole`). So two ranks that are at the same step agree although neither tells the other what it has read.
* `StepsTrainOwnSamples` (`MimoTraining_proofs`). `StepsInv` adds to `MimoInv` that no rank is a whole step ahead of another,
  counting the step it is about to count (`InStep`); that a gradient is of the samples of the rank's share (`Graded`); and that the gradients
  an optimizer is given are of all samples of the step (`Finalized`): the replicas' shares make up the step, whatever number of them a module has.
* `GradientsAreOfOneLoss` (`MimoTraining_proofs`). `GradInv` adds to `StepsInv` that a sample weighs in every gradient what it weighs in
  the loss of the one microbatch and replica it is in (`Weighted`: the backward step finds it with a rank that the sample goes on to, `SampleGoesOn`);
  that a rank has counted the tokens of what it has computed (`Summed`); and what finalizing makes of both (`Scaled`): `Given` is
  the weight by step, module and sample. That the counts of the replicas add up to the tokens of the step (`TokensTogether`) takes sums over sets of any size:
  `Total` is the fold, and a smallest subset for which a statement fails refutes it (`LeastSubset`), which takes the place of an induction. So the total does not depend
  on the order in which the fold takes elements (`TotalLess`), and the totals of disjoint sets add up (`TotalUnion`, `TotalFamily`).

Only model-checked: liveness (fairness and ENABLED are out of the prover's reach); and, for want of a proof so far,
`ResumePointWhole` and `InFlightNotRemoved` where asynchronous saves of both kinds meet retention (where the first is false of
persistent ones). No module with a theorem has a RECURSIVE operator, which would take its SMT backend away, and
the library's induction theorems take an operator as a parameter, which the installed provers cannot instantiate: proofs here
choose a smallest counterexample, or use a closed form.

## 5. Hazards and properties

`PROJECT.json` lists every hazard with its line and properties. These have no property:

* the tracker overwritten in place (`T/checkpointing.py:1455`): no document promises more; `StoreSync` lets the copy tear;
* the step an asynchronous save is reported under to experiment trackers (`T/checkpointing.py:1508`): nothing in the
  modelled state reads it back;
* a `ckpt_step` override losing to a newer non-persistent checkpoint (`T/checkpointing.py:3543`): one comparison;
* saves that repeat a step (`T/train.py:405`): not yet actions of CheckpointStore;
* an in-process restart whose clean-up or abort fails (`T/inprocess_restart.py:85`, `117`): exceptions are
  swallowed and no document says what is promised then.

Others have a property with a limit, which their notes state: an in-process restart keeps the counters of
FaultToleranceState, so `TimeoutsFromSeenSections` is stated of other processes; an evaluation on the test
set after a validation that the time limit ended raises when it starts its timer, which the model shows as a place
of the program, not as an error. `HooksToggledInTurn`, `IndexNamesSaved` and `ExportEnds` each name the one case in which the code
does what it should not (section 6), and say that there is no other; their runs reach it. That a data set leaves ranks unlike
numbers of batches is a matter of `RunsRepeat` in `SamplersUneven` alone.

## 6. Known divergences

Where the code and its documents part. Three have a run that ends in a counterexample to the quoted line:

* `StoreAsyncRetention`: the retention of an asynchronous persistent save has no `max_iteration`; a newer save
  that has only created its directory counts as the most recent checkpoint, and the one the tracker names is removed.
* `LoopSkipFirst`: when the first iteration of a run is in `iterations_to_skip` the forward pre-hooks never come back.
* `SamplersUneven`: random sampling without data sharding of a data set whose remainder holds a microbatch gives
  rank 0 a batch more per epoch; the ranks' counts stay equal, but their epochs end at different steps, which a resume from the
  common count does not restore: it trains on other samples.

Others were met while modelling and have no run of their own:

* Retention counts a newer directory that a crash left incomplete, so a resumed job may remove the checkpoint it has just
  saved (`T/checkpointing.py:1618`); and `rglob` also counts `energon/iter_*` (`:1648`).
* When the last iteration is skipped and falls on the save interval, nobody saves it: the final save
  leaves out steps that the interval covers (`T/train.py:742`). A ramp-up or a relaunch of a finished job
  saves the same step again in place (`:405`, `:736`).
* A `ckpt_step` override loses to a newer non-persistent checkpoint (`T/checkpointing.py:3543`).
* Evaluation and the check of the weights remove the forward pre-hooks without a look at `pre_hook_enabled`. If the loss scaler
  has skipped every step up to the first of them, the hooks are not registered yet and `disable_forward_pre_hook` raises
  (`T/train.py:655`, `1073`; the start moves at `:534`). `LoopHooks` reaches this; `HooksToggledInTurn` says it is the only way
  in a job that skips no iteration by configuration.
* A distributed, not strict export makes its index from the files it finds, so it may name tensors of a file that
  an earlier export left and no rank wrote now (`models/hf_pretrained/state.py:1085`; line 1103 says "only from
  actually saved keys"). A job of `HfExport` does; `IndexNamesSaved` says that no other index names such a tensor.
* A sole writer that misses a tensor in strict mode, or is given one the source lacks, raises alone, with the other ranks in the barrier at the
  end or in a collective before (`state.py:773`, `865`, `models/conversion/auto_bridge.py:1204`). Two jobs of `HfExport` do; `ExportEnds`
  says that all others end together.
* A parameter that no rank of a pipeline group holds raises on all of its members, where the comment speaks of one
  (`models/conversion/param_mapping.py:1585`).
* Multi-module training has no save after the loop, unlike `train()`, so steps after the last interval save are lost;
  and reads the number of microbatches once, so a ramp-up is ignored (`T/train_megatron_mimo.py:241`). Visual inputs
  packed by patches are sliced as if they were aligned with samples, which a TODO in the code says too.

## 7. Not modelled

* Checkpointing: local checkpoints (`LocalCheckpointManager`, external), release and
  direct-iteration loads, `ckpt_step`, Hugging Face export on save, ModelOpt and PEFT filters, the contents of state
  dicts.
* Training loop: CUDA-graph capture (which toggles hooks a second time), `param_sync_func`, manual garbage
  collection, logging; per-rank signal latches (one latch is agreed by the all-gather).
* Fault tolerance and evaluation: the simulated fault, `ft_state.json`, jobs that do not calculate
  timeouts, `skip_train` and `start_eval_at_iter`; losses and non-loss data of an evaluation.
* Data: validation, test and external loaders, the seeds of `RandomSeedDataset`, a ramp-up under the samplers (TrainLoop
  has it); datasets, packing (a sequential bin-packing heuristic), Energon.
* Conversion: Mamba, GDN, MLA and fused-expert mappings, transposed weights, expert tensor parallelism of another size,
  duplicate embeddings of multi-token prediction, quantised export, adapters, FSDP, the checks of shapes and their
  exceptions, sources without a map of files, configuration, the caches of mappings.
* Multi-module training: evaluation, exits (TrainLoop has them), learning-rate schedules, steps the loss scaler skips,
  several encoders, modules on the same ranks, packed visual inputs, a data set that ends, ramp-up,
  asynchronous saves.
* Model providers, PEFT, diffusion, inference and recipes: configuration and tensor code with no shared state to
  explore. They are most of the lines, which is why the models stand for a small part of them. Configuration
  appears as the constants and their assumptions. Callbacks, profiling and straggler detection observe the loop and change
  nothing that is modelled.
* Distributed collectives, the pipeline schedule, the bridge and DDP are Megatron-Core's and torch's, external, and appear by
  what the code uses of them.

## 8. Plan

Done: `CheckpointStore`, `DurableProgress`, `TrainLoop`, `FaultTolerance`, `Samplers`, `WeightLayouts`, `HfExport`,
`MimoTraining`, with the proofs of section 4.

Proofs: the resume point where both kinds of asynchronous saves meet retention.

Models, in order: in CheckpointStore `ckpt_step`, the saves that repeat a step and a clean-up that fails;
latches of the exit signal per rank; several encoders in MimoTraining; packing.
