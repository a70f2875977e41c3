--------------------------- MODULE CheckpointStore ---------------------------
(***************************************************************************)
(* Checkpointing of one training job: save_checkpoint, the finalisation of *)
(* asynchronous saves, retention, and the load that resumes a restarted    *)
(* job (training/checkpointing.py), driven by the part of the training     *)
(* loop that calls them (training/train.py), across crashes and            *)
(* in-process restarts.                                                    *)
(*                                                                         *)
(* The main thread of rank 0 is a program counter `pc'; the other ranks    *)
(* follow it through the collectives of the save, so they appear only as   *)
(* the writers of a checkpoint's files.  The asynchronous writer of each   *)
(* rank and the removal threads are processes of their own.                *)
(***************************************************************************)
EXTENDS Integers, Sequences, FiniteSets

CONSTANTS
    Ranks,                  \* the ranks that write the files of a checkpoint
    TrainIters,             \* train.train_iters: the last step
    SaveInterval,           \* checkpoint.save_interval
    NonPersistentInterval,  \* checkpoint.non_persistent_save_interval; 0: unset
    AsyncSave,              \* checkpoint.async_save
    MostRecentK,            \* checkpoint.most_recent_k; -1: keep everything
    NestedNonPersistent,    \* no non_persistent_global_ckpt_dir: "<save>/non_persistent"
    Energon,                \* the data loader saves its state with each checkpoint
    ExitSignals,            \* exit signals may arrive (train.exit_signal_handler)
    TornTracker,            \* a crash may fall inside the copy of the tracker file
    MaxFaults               \* bound on crashes and in-process restarts

ASSUME ConstantsAssumption ==
    /\ IsFiniteSet(Ranks) /\ Ranks # {}
    /\ TrainIters \in Nat \ {0}
    /\ SaveInterval \in Nat \ {0}
    /\ NonPersistentInterval \in Nat
    /\ MostRecentK \in Nat \cup {-1}
    /\ MaxFaults \in Nat
    /\ {AsyncSave, NestedNonPersistent, Energon, ExitSignals, TornTracker}
          \subseteq BOOLEAN

(***************************************************************************)
(* The save directory holds iter_* directories, and so do its non_         *)
(* persistent and energon subdirectories.  A step stands for the name      *)
(* iter_<step> under a root, and 0 for "no checkpoint".                    *)
(***************************************************************************)
Kinds == {"persistent", "nonPersistent"}
Roots == Kinds \cup {"energon"}
Steps == 1 .. TrainIters
None  == 0
Torn  == -1      \* a tracker file truncated by a crash

VARIABLES
    \* On disk.
    dirs,        \* [Roots -> SUBSET Steps]: the iter_* directories that exist
    files,       \* [Roots -> [Steps -> SUBSET Ranks]]: whose files are whole there
    trainState,  \* [Kinds -> SUBSET Steps]: directories that hold train_state.pt
    tracker,     \* [Kinds -> step]: latest_train_state.pt
    legacy,      \* [Kinds -> step]: latest_checkpointed_iteration.txt
    \* In the process.
    step,        \* train_state.step
    pc,          \* where the main thread is
    cur,         \* the checkpoint the main thread is saving or finalising
    queue,       \* async_calls_queue: saves not finalised, oldest first
    cleaning,    \* directories that removal threads (or the sync removal) still hold
    cache,       \* lru_cache of read_train_state, for the tracker files
    exiting,     \* the loop has ended: only finalisation is left
    faults       \* crashes and restarts so far (bounded by MaxFaults)

disk    == <<dirs, files, trainState, tracker, legacy>>
process == <<step, pc, cur, queue, cleaning, cache, exiting>>
vars    == <<dirs, files, trainState, tracker, legacy,
             step, pc, cur, queue, cleaning, cache, exiting, faults>>

Save      == [kind : Kinds, step : Steps]
AsyncCall == [kind : Kinds, step : Steps, written : SUBSET Ranks]
Dirs      == Roots \X Steps

PCs == {"down", "top", "decide",                         \* the training loop
        "loader", "open", "write",                       \* save_checkpoint
        "trainState", "tracker", "legacy", "publish",    \* finalize functions
        "cleanup", "sweep",                              \* retention
        "drain", "done"}                                 \* end of train()

NoCache == [k \in Kinds |-> None]

-----------------------------------------------------------------------------
(* What a restart reads. *)

\* A checkpoint whose files are whole on every rank, dataloader state included.
Loadable(k, s) ==
    /\ s \in dirs[k]
    /\ files[k][s] = Ranks
    /\ Energon => files["energon"][s] = Ranks

\* The same, with the train_state.pt that holds the sample counters.
Complete(k, s) == Loadable(k, s) /\ s \in trainState[k]

\* Mutant: the persistent checkpoint wins even when it is the older one.
PersistentFirst(t) ==
    IF t["persistent"] # None THEN "persistent" ELSE "nonPersistent"

\* The checkpoint _load_base_checkpoint takes, the non-persistent one on a tie.
SelectedKind(t) ==
    IF t["nonPersistent"] # None /\ t["nonPersistent"] >= t["persistent"]
    THEN "nonPersistent" ELSE "persistent"

\* read_train_state is memoised by file name.
ReadTrainState(k) == IF cache[k] # None THEN cache[k] ELSE tracker[k]

-----------------------------------------------------------------------------
(* Retention: cleanup_old_non_persistent_checkpoint. *)

NonPersistentKeep == IF MostRecentK < 0 THEN 2
                     ELSE IF MostRecentK = 0 THEN 1 ELSE MostRecentK

\* Order of equal iterations in the sorted list: rglob yields a directory's own
\* iter_* entries before those of its subdirectories, and the sort is stable.
RglobOrder == [r \in Roots |-> CASE r = "persistent"    -> 0
                                 [] r = "nonPersistent" -> 1
                                 [] r = "energon"       -> 2]

SortsAfter(e, d) == \/ e[2] > d[2]
                    \/ e[2] = d[2] /\ RglobOrder[e[1]] > RglobOrder[d[1]]

\* All but the last `keep' of the sorted list.
Oldest(candidates, keep) ==
    {d \in candidates : Cardinality({e \in candidates : SortsAfter(e, d)}) >= keep}

\* Mutant: max_iteration is not passed.
NonPersistentExcessNoMax(s) ==
    Oldest({"nonPersistent"} \X dirs["nonPersistent"], NonPersistentKeep)

\* A non-persistent save looks at its own directory only, and at no iteration
\* newer than the one just saved (max_iteration).
NonPersistentExcess(s) ==
    Oldest({d \in {"nonPersistent"} \X dirs["nonPersistent"] : d[2] <= s},
           NonPersistentKeep)

\* A persistent save walks everything below the save directory, of any iteration.
PersistentExcess ==
    IF MostRecentK < 0 THEN {}
    ELSE Oldest({d \in Dirs : /\ d[2] \in dirs[d[1]]
                              /\ d[1] = "nonPersistent" => NestedNonPersistent},
                MostRecentK)

\* Mutant: the cleanup is registered on no save.
ExcessNone(save) == {}

\* The directories the retention of a finished save removes.
Excess(save) == IF save.kind = "nonPersistent" THEN NonPersistentExcess(save.step)
                ELSE PersistentExcess

-----------------------------------------------------------------------------
(* Start, load. *)

Init ==
    /\ dirs       = [r \in Roots |-> {}]
    /\ files      = [r \in Roots |-> [s \in Steps |-> {}]]
    /\ trainState = [k \in Kinds |-> {}]
    /\ tracker    = [k \in Kinds |-> None]
    /\ legacy     = [k \in Kinds |-> None]
    /\ step = None /\ pc = "down" /\ exiting = FALSE
    /\ cur = [kind |-> "persistent", step |-> 1]
    /\ queue = <<>> /\ cleaning = {}
    /\ cache = NoCache
    /\ faults = 0

\* setup(): both trackers are read (a torn one raises), the newer checkpoint is
\* loaded (a missing file raises), and with none the run starts at step 0.
Load ==
    /\ pc = "down"
    /\ \A k \in Kinds : ReadTrainState(k) # Torn
    /\ LET read == [k \in Kinds |-> ReadTrainState(k)]
           kind == SelectedKind(read)
       IN  /\ read[kind] # None => Loadable(kind, read[kind])
           /\ step' = read[kind]
           /\ cache' = read
    /\ pc' = "top"
    /\ exiting' = FALSE
    /\ UNCHANGED <<disk, cur, queue, cleaning, faults>>

-----------------------------------------------------------------------------
(* The training loop. *)

Continue == IF exiting THEN "drain" ELSE "top"

\* Every rank's writer has finished the oldest save (agreed by an all-reduce).
HeadDone == queue # <<>> /\ Head(queue).written = Ranks

\* Mutant: the head is looked at and not popped.
FinalizeHeadNotPopped ==
    /\ \/ pc = "top" /\ step < TrainIters
       \/ pc = "drain"
    /\ HeadDone
    /\ cur' = [kind |-> Head(queue).kind, step |-> Head(queue).step]
    /\ pc' = "trainState"
    /\ UNCHANGED <<disk, step, queue, cleaning, cache, exiting, faults>>

\* Mutant: the newest finished save is taken first.
FinalizeNewestDone ==
    /\ \/ pc = "top" /\ step < TrainIters
       \/ pc = "drain"
    /\ HeadDone
    /\ \E i \in 1 .. Len(queue) :
          /\ queue[i].written = Ranks
          /\ i < Len(queue) => queue[i + 1].written # Ranks
          /\ cur' = [kind |-> queue[i].kind, step |-> queue[i].step]
          /\ queue' = SubSeq(queue, 1, i - 1) \o SubSeq(queue, i + 1, Len(queue))
    /\ pc' = "trainState"
    /\ UNCHANGED <<disk, step, cleaning, cache, exiting, faults>>

\* maybe_finalize_async_save: non-blocking at the top of the loop, blocking at
\* the end; the oldest finished save is popped and its finalize functions run.
FinalizeHead ==
    /\ \/ pc = "top" /\ step < TrainIters
       \/ pc = "drain"
    /\ HeadDone
    /\ cur' = [kind |-> Head(queue).kind, step |-> Head(queue).step]
    /\ queue' = Tail(queue)
    /\ pc' = "trainState"
    /\ UNCHANGED <<disk, step, cleaning, cache, exiting, faults>>

\* Mutant: one step too many.
TrainStepPastEnd ==
    /\ pc = "top" /\ step <= TrainIters
    /\ ~HeadDone
    /\ step' = step + 1
    /\ pc' = "decide"
    /\ UNCHANGED <<disk, cur, queue, cleaning, cache, exiting, faults>>

\* One training step, once no finished save is left to finalise.
TrainStep ==
    /\ pc = "top" /\ step < TrainIters
    /\ ~HeadDone
    /\ step' = step + 1
    /\ pc' = "decide"
    /\ UNCHANGED <<disk, cur, queue, cleaning, cache, exiting, faults>>

\* Entry of save_checkpoint; the Energon state is written first.
BeginSave(kind) ==
    /\ cur' = [kind |-> kind, step |-> step]
    /\ pc' = IF Energon THEN "loader" ELSE "open"

IntervalReached(interval) == interval # 0 /\ step % interval = 0

\* checkpoint_and_decide_exit: an exit signal saves and ends the loop,
SignalSave ==
    /\ pc = "decide" /\ ExitSignals
    /\ exiting' = TRUE
    /\ BeginSave("persistent")
    /\ UNCHANGED <<disk, step, queue, cleaning, cache, faults>>

\* else the save interval is looked at first,
IntervalSave ==
    /\ pc = "decide" /\ IntervalReached(SaveInterval)
    /\ BeginSave("persistent")
    /\ UNCHANGED <<disk, step, queue, cleaning, cache, exiting, faults>>

\* then the non-persistent one.
NonPersistentSave ==
    /\ pc = "decide"
    /\ ~IntervalReached(SaveInterval) /\ IntervalReached(NonPersistentInterval)
    /\ BeginSave("nonPersistent")
    /\ UNCHANGED <<disk, step, queue, cleaning, cache, exiting, faults>>

NoSave ==
    /\ pc = "decide"
    /\ ~IntervalReached(SaveInterval) /\ ~IntervalReached(NonPersistentInterval)
    /\ pc' = "top"
    /\ UNCHANGED <<disk, step, cur, queue, cleaning, cache, exiting, faults>>

\* After the last step: the final save, unless the interval save covered it.
EndLoop ==
    /\ pc = "top" /\ step = TrainIters
    /\ exiting' = TRUE
    /\ IF IntervalReached(SaveInterval)
       THEN pc' = "drain" /\ UNCHANGED cur
       ELSE BeginSave("persistent")
    /\ UNCHANGED <<disk, step, queue, cleaning, cache, faults>>

-----------------------------------------------------------------------------
(* save_checkpoint. *)

\* maybe_save_dataloader_state: one file per data-parallel rank, always below the
\* persistent directory.  The collectives of the model save that follows keep any
\* rank from going on before all have written.
SaveLoaderState ==
    /\ pc = "loader"
    /\ dirs' = [dirs EXCEPT !["energon"] = @ \cup {cur.step}]
    /\ files' = [files EXCEPT !["energon"][cur.step] = Ranks]
    /\ pc' = "open"
    /\ UNCHANGED <<trainState, tracker, legacy, step, cur, queue, cleaning, cache,
                   exiting, faults>>

\* Mutant: the finalize functions of an asynchronous save are run, not registered.
OpenCheckpointFinalizes ==
    /\ pc = "open"
    /\ dirs' = [dirs EXCEPT ![cur.kind] = @ \cup {cur.step}]
    /\ files' = [files EXCEPT ![cur.kind][cur.step] = {}]
    /\ queue' = Append(queue, [kind |-> cur.kind, step |-> cur.step, written |-> {}])
    /\ pc' = "trainState"
    /\ UNCHANGED <<trainState, tracker, legacy, step, cur, cleaning, cache,
                   exiting, faults>>

\* The iteration directory is created or, after a crash, reused: the files of an
\* earlier attempt are overwritten.  An asynchronous save is handed to the queue.
OpenCheckpoint ==
    /\ pc = "open"
    /\ dirs' = [dirs EXCEPT ![cur.kind] = @ \cup {cur.step}]
    /\ files' = [files EXCEPT ![cur.kind][cur.step] = {}]
    /\ IF AsyncSave
       THEN /\ queue' = Append(queue, [kind |-> cur.kind, step |-> cur.step,
                                       written |-> {}])
            /\ pc' = Continue
       ELSE pc' = "write" /\ UNCHANGED queue
    /\ UNCHANGED <<trainState, tracker, legacy, step, cur, cleaning, cache,
                   exiting, faults>>

\* A rank writes its files of a synchronous save.
WriteFiles(r) ==
    /\ pc = "write" /\ r \notin files[cur.kind][cur.step]
    /\ files' = [files EXCEPT ![cur.kind][cur.step] = @ \cup {r}]
    /\ UNCHANGED <<dirs, trainState, tracker, legacy, process, faults>>

\* Mutant: rank 0 does not wait for the other ranks.
SaveBarrierMissing ==
    /\ pc = "write"
    /\ pc' = "trainState"
    /\ UNCHANGED <<disk, step, cur, queue, cleaning, cache, exiting, faults>>

\* The barrier after the write: nobody goes on before all have written.
SaveBarrier ==
    /\ pc = "write" /\ files[cur.kind][cur.step] = Ranks
    /\ pc' = "trainState"
    /\ UNCHANGED <<disk, step, cur, queue, cleaning, cache, exiting, faults>>

\* A rank's persistent worker takes its requests in order.
BackgroundWrite(r) ==
    \E i \in 1 .. Len(queue) :
        /\ r \notin queue[i].written
        /\ \A j \in 1 .. i - 1 : r \in queue[j].written
        /\ queue' = [queue EXCEPT ![i].written = @ \cup {r}]
        /\ files' = [files EXCEPT ![queue[i].kind][queue[i].step] = @ \cup {r}]
        /\ UNCHANGED <<dirs, trainState, tracker, legacy, step, pc, cur, cleaning,
                       cache, exiting, faults>>

-----------------------------------------------------------------------------
(* The finalize functions, in the order they are registered. *)

\* train_state_finalize_fn: train_state.pt,
WriteTrainState ==
    /\ pc = "trainState"
    /\ trainState' = [trainState EXCEPT ![cur.kind] = @ \cup {cur.step}]
    /\ pc' = "tracker"
    /\ UNCHANGED <<dirs, files, tracker, legacy, step, cur, queue, cleaning, cache,
                   exiting, faults>>

\* its copy latest_train_state.pt,
WriteTracker ==
    /\ pc = "tracker"
    /\ tracker' = [tracker EXCEPT ![cur.kind] = cur.step]
    /\ pc' = "legacy"
    /\ UNCHANGED <<dirs, files, trainState, legacy, step, cur, queue, cleaning,
                   cache, exiting, faults>>

\* and latest_checkpointed_iteration.txt.
WriteLegacyTracker ==
    /\ pc = "legacy"
    /\ legacy' = [legacy EXCEPT ![cur.kind] = cur.step]
    /\ pc' = "publish"
    /\ UNCHANGED <<dirs, files, trainState, tracker, step, cur, queue, cleaning,
                   cache, exiting, faults>>

\* wandb/mlflow/comet_finalize_fn report the checkpoint to the experiment trackers.
Publish ==
    /\ pc = "publish"
    /\ pc' = "cleanup"
    /\ UNCHANGED <<disk, step, cur, queue, cleaning, cache, exiting, faults>>

\* The excess is removed by a new thread, or inline when saves are synchronous.
Cleanup ==
    /\ pc = "cleanup"
    /\ cleaning' = cleaning \cup Excess(cur)
    /\ pc' = IF AsyncSave THEN Continue ELSE "sweep"
    /\ UNCHANGED <<disk, step, cur, queue, cache, exiting, faults>>

\* shutil.rmtree of one directory, first its files, then the directory itself; one
\* that is gone already is passed over.
Rmtree(d) ==
    /\ d \in cleaning
    /\ \/ /\ d[2] \in dirs[d[1]]
          /\ files[d[1]][d[2]] # {} \/ (d[1] \in Kinds /\ d[2] \in trainState[d[1]])
          /\ files' = [files EXCEPT ![d[1]][d[2]] = {}]
          /\ trainState' = [k \in Kinds |-> IF k = d[1] THEN trainState[k] \ {d[2]}
                                            ELSE trainState[k]]
          /\ UNCHANGED <<dirs, cleaning>>
       \/ /\ files[d[1]][d[2]] = {}
          /\ d[1] \in Kinds => d[2] \notin trainState[d[1]]
          /\ dirs' = [dirs EXCEPT ![d[1]] = @ \ {d[2]}]
          /\ cleaning' = cleaning \ {d}
          /\ UNCHANGED <<files, trainState>>
    /\ UNCHANGED <<tracker, legacy, step, pc, cur, queue, cache, exiting, faults>>

SweepDone ==
    /\ pc = "sweep" /\ cleaning = {}
    /\ pc' = Continue
    /\ UNCHANGED <<disk, step, cur, queue, cleaning, cache, exiting, faults>>

-----------------------------------------------------------------------------
(* End of train(), restarts and faults. *)

\* Mutant: the last finalisation does not block.
FinishNonBlocking ==
    /\ pc = "drain" /\ ~HeadDone
    /\ pc' = "done" /\ queue' = <<>>
    /\ UNCHANGED <<disk, step, cur, cleaning, cache, exiting, faults>>

\* The blocking, terminating finalisation has emptied the queue.
Finish ==
    /\ pc = "drain" /\ queue = <<>>
    /\ pc' = "done"
    /\ UNCHANGED <<disk, step, cur, queue, cleaning, cache, exiting, faults>>

\* What every end of the training function takes with it.
LoseProcess ==
    /\ pc' = "down" /\ step' = None /\ exiting' = FALSE
    /\ cur' = [kind |-> "persistent", step |-> 1]
    /\ queue' = <<>>

\* The job ends (the interpreter joins the removal threads) and is launched again.
Relaunch ==
    /\ pc = "done" /\ cleaning = {}
    /\ LoseProcess
    /\ cache' = NoCache
    /\ UNCHANGED <<disk, cleaning, faults>>

Fault ==
    /\ pc \notin {"down", "done"} /\ faults < MaxFaults
    /\ faults' = faults + 1
    /\ LoseProcess

\* The processes die and the scheduler starts the job again.
Crash ==
    /\ Fault
    /\ cleaning' = {} /\ cache' = NoCache
    /\ UNCHANGED disk

\* Mutant: a restart keeps what an earlier invocation has read.
InProcessRestartKeepsCache ==
    /\ Fault
    /\ cleaning' = IF AsyncSave THEN cleaning ELSE {}
    /\ UNCHANGED <<disk, cache>>

\* AbortCheckpoint and reset_for_restart: the saves in flight are dropped and the
\* memo cleared, while removal threads of the same process go on.
InProcessRestart ==
    /\ Fault
    /\ cleaning' = IF AsyncSave THEN cleaning ELSE {}
    /\ cache' = NoCache
    /\ UNCHANGED disk

\* shutil.copy truncates the tracker before it writes it.
CrashInTrackerCopy ==
    /\ pc = "tracker" /\ TornTracker
    /\ Fault
    /\ tracker' = [tracker EXCEPT ![cur.kind] = Torn]
    /\ cleaning' = {} /\ cache' = NoCache
    /\ UNCHANGED <<dirs, files, trainState, legacy>>

-----------------------------------------------------------------------------
Finalize == FinalizeHead \/ WriteTrainState \/ WriteTracker \/ WriteLegacyTracker
            \/ Publish \/ Cleanup \/ SweepDone

SaveCheckpoint == SaveLoaderState \/ OpenCheckpoint \/ SaveBarrier
                  \/ (\E r \in Ranks : WriteFiles(r))

Loop == Load \/ TrainStep \/ IntervalSave \/ NonPersistentSave \/ NoSave
        \/ EndLoop \/ Finish

Next ==
    \/ Loop \/ SaveCheckpoint \/ Finalize
    \/ \E r \in Ranks : BackgroundWrite(r)
    \/ \E d \in Dirs : Rmtree(d)
    \/ SignalSave \/ Relaunch
    \/ Crash \/ InProcessRestart \/ CrashInTrackerCopy

Spec == Init /\ [][Next]_vars

\* The main thread, each rank's writer and the removal threads keep running; no
\* fault, signal or relaunch has to happen.
Fairness ==
    /\ WF_vars(Loop \/ SaveCheckpoint \/ Finalize)
    /\ \A r \in Ranks : WF_vars(BackgroundWrite(r))
    /\ WF_vars(\E d \in Dirs : Rmtree(d))

FairSpec == Spec /\ Fairness

-----------------------------------------------------------------------------
(* Properties. *)

\* Types.  A tracker is torn only while the job is down, with no thread left.
TypeOK ==
    /\ dirs \in [Roots -> SUBSET Steps]
    /\ files \in [Roots -> [Steps -> SUBSET Ranks]]
    /\ trainState \in [Kinds -> SUBSET Steps]
    /\ tracker \in [Kinds -> Steps \cup {None, Torn}]
    /\ legacy \in [Kinds -> Steps \cup {None}]
    /\ step \in Steps \cup {None}
    /\ pc \in PCs
    /\ cur \in Save
    /\ queue \in Seq(AsyncCall)
    /\ cleaning \in SUBSET Dirs
    /\ cache \in [Kinds -> Steps \cup {None}]
    /\ exiting \in BOOLEAN
    /\ faults \in 0 .. MaxFaults

NewestTracked == IF tracker["persistent"] >= tracker["nonPersistent"]
                 THEN tracker["persistent"] ELSE tracker["nonPersistent"]

\* Whatever instant the job dies at, the checkpoint a restart selects is whole: no
\* save in place, unfinished write, aborted save or removal has touched it
\* (save_checkpoint: "Global non-persistent saves must leave a durable resume point").
ResumePointWhole ==
    LET kind == SelectedKind(tracker)
    IN  tracker[kind] \notin {None, Torn} => Complete(kind, tracker[kind])

\* The same of the checkpoint each tracker file names, selected or not.
TrackersWhole ==
    \A k \in Kinds : tracker[k] \notin {None, Torn} => Complete(k, tracker[k])

\* The Megatron-LM tracker lags its Bridge counterpart by at most the save being
\* finalised, and what it names is whole as well.
LegacyTrackerWhole ==
    \A k \in Kinds :
        legacy[k] # None => /\ Complete(k, legacy[k])
                            /\ tracker[k] # Torn => legacy[k] <= tracker[k]

\* No removal thread holds the directory of a save still being written
\* (max_iteration: "ignores newer iteration directories that may still be incomplete").
InFlightNotRemoved ==
    \A i \in 1 .. Len(queue) : <<queue[i].kind, queue[i].step>> \notin cleaning

\* With no fault, at rest, no more non-persistent checkpoints are left than
\* retention asks for: none is forgotten by overlapping finalisations.
NonPersistentBounded ==
    faults = 0 /\ pc \in {"top", "done"} /\ cleaning = {} =>
        Cardinality({s \in dirs["nonPersistent"] : s <= tracker["nonPersistent"]})
            <= NonPersistentKeep

\* A restart resumes from the newest checkpoint on disk, never from a tracker value
\* remembered by an earlier invocation in the process (reset_for_restart).
ResumesNewest == [][pc = "down" /\ pc' = "top" => step' = NewestTracked]_vars

-----------------------------------------------------------------------------
(* Refinement. *)

Promise == INSTANCE DurableProgress WITH
    mode    <- IF pc = "down" THEN "down" ELSE IF pc = "done" THEN "ended" ELSE "running",
    live    <- step,
    durable <- NewestTracked

\* Checkpointing as built keeps the promise: a step becomes durable at the write of
\* the tracker file and at no other instant.
ImplementsDurableProgress == Promise!DurableSpec

-----------------------------------------------------------------------------
(* Liveness. *)

\* Every save accepted by the queue becomes durable, unless the process dies first.
SavesBecomeDurable ==
    \A s \in Save :
        (\E i \in 1 .. Len(queue) : queue[i].kind = s.kind /\ queue[i].step = s.step)
            ~> (tracker[s.kind] >= s.step \/ pc = "down")

\* Faults being finite, the job gets to its end: no restart is stuck.
JobFinishes == []<>(pc = "done")
=============================================================================
