--------------------------- MODULE FaultTolerance ---------------------------
(***************************************************************************)
(* The sections a training job reports to the rank monitor of ft_launcher  *)
(* (training/fault_tolerance.py), and evaluation (training/eval.py), along *)
(* the calls of setup(), train() and _pretrain() that open and close them. *)
(*                                                                         *)
(* The monitor kills and restarts a rank that stays too long in a section  *)
(* or outside all of them, so its client must see every section opened and *)
(* closed in turn, on every path through the loop.  All ranks make the     *)
(* same calls; the model has one.                                          *)
(***************************************************************************)
EXTENDS Integers, FiniteSets

CONSTANTS
    TrainIters,        \* train.train_iters
    SaveInterval,      \* checkpoint.save_interval
    EvalInterval,      \* validation.eval_interval
    EvalIters,         \* validation.eval_iters
    IterationsToSkip,  \* train.iterations_to_skip, numbered from 1
    MinStepIters,      \* _MIN_ITERS_FOR_STEP_TIMEOUT_UPDATE (16)
    AsyncSave,         \* checkpoint.async_save
    DoTest,            \* there is a test set (train_state.do_test)
    TimeLimit,         \* train.exit_duration_in_mins is set
    MaxFaults          \* bound on crashes and in-process restarts

ASSUME FaultToleranceConstants ==
    /\ {TrainIters, SaveInterval, EvalInterval, EvalIters, MinStepIters}
          \subseteq Nat \ {0}
    /\ IterationsToSkip \subseteq 1 .. TrainIters
    /\ {AsyncSave, DoTest, TimeLimit} \subseteq BOOLEAN
    /\ MaxFaults \in Nat

Sections == {"setup", "step", "checkpointing"}
NumWarmupIters == 1

VARIABLES
    disk,         \* the step of the newest save; 0: none
    step,         \* train_state.step
    pc,           \* where the main thread is
    ret,          \* where it goes on after a finalisation, a save or an evaluation
    exit,         \* should_exit
    \* RankMonitorClient
    open,         \* the sections that are open
    observed,     \* the sections this client has seen closed
    misused,      \* an open section was started, or a closed one ended
    calculated,   \* what timeouts this client has calculated
    \* FaultToleranceState
    setupOpen,    \* is_setup_section_open
    trIters,      \* seen_tr_iters_cnt, capped at MinStepIters
    evalIdx,      \* curr_eval_iter_idx, capped at NumWarmupIters
    seenSave,     \* seen_checkpoints_cnt > 0
    loaded,       \* is_persistent_chkpt_loaded
    \* Evaluation
    evalIter,     \* the iteration of the evaluation loop
    evalTimer,    \* timers("evaluate") is running
    evalMode,     \* the model is in evaluation mode
    rerunOff,     \* the rerun state machine is disabled
    \* Environment
    timeUp,       \* exit_duration_in_mins has passed
    restarted,    \* the process has been restarted in place
    faults

client  == <<open, observed, misused, calculated>>
ftState == <<setupOpen, trIters, evalIdx, seenSave, loaded>>
evalu   == <<evalIter, evalTimer, evalMode, rerunOff>>
env     == <<timeUp, restarted, faults>>
vars    == <<disk, step, pc, ret, exit, client, ftState, evalu, env>>

PCs == {"down", "load", "top", "iterate", "inStep", "rerunSave", "evalDue", "eval",
        "inEval", "decide", "limit", "limitSaved", "saving", "finalizing", "close",
        "valid", "test", "finish", "shutdown", "done", "raised"}

-----------------------------------------------------------------------------
(* The client; MonitorCalls(ends, starts) are the sections one hook ends and   *)
(* then starts.                                                                *)

MonitorCalls(ends, starts) ==
    /\ open' = (open \ ends) \cup starts
    /\ observed' = observed \cup ends
    /\ misused' = (misused \/ ~(ends \subseteq open)
                           \/ starts \cap (open \ ends) # {})

When(condition, section) == IF condition THEN {section} ELSE {}

\* _maybe_update_timeouts, after a save and when the client is closed.
SectionsToUpdate(saveSeen) ==
    When(loaded, "setup") \cup When(trIters >= MinStepIters, "step")
    \cup When(saveSeen /\ ~AsyncSave, "checkpointing")

\* Mutant: the out-of-section timeout is updated without a look at the sections.
UpdateTimeoutsEagerly(saveSeen, closing) ==
    calculated' = calculated \cup SectionsToUpdate(saveSeen)
                             \cup When(closing /\ saveSeen, "outOfSection")

UpdateTimeouts(saveSeen, closing) ==
    calculated' = calculated \cup SectionsToUpdate(saveSeen)
                             \cup When(/\ closing /\ saveSeen
                                       /\ {"setup", "step"} \subseteq
                                              SectionsToUpdate(saveSeen),
                                       "outOfSection")

-----------------------------------------------------------------------------
(* Start. *)

Init ==
    /\ disk = 0 /\ step = 0 /\ pc = "down" /\ ret = "top" /\ exit = FALSE
    /\ open = {} /\ observed = {} /\ misused = FALSE /\ calculated = {}
    /\ setupOpen = FALSE /\ trIters = 0 /\ evalIdx = 0
    /\ seenSave = FALSE /\ loaded = FALSE
    /\ evalIter = 0 /\ evalTimer = FALSE /\ evalMode = FALSE /\ rerunOff = FALSE
    /\ timeUp = FALSE /\ restarted = FALSE /\ faults = 0

\* setup: a new client, whose setup section is opened.
Setup ==
    /\ pc = "down"
    /\ open' = {"setup"} /\ observed' = {} /\ misused' = FALSE /\ calculated' = {}
    /\ setupOpen' = TRUE
    /\ pc' = "load"
    /\ UNCHANGED <<disk, step, ret, exit, trIters, evalIdx, seenSave, loaded, evalu, env>>

\* The rest of setup(): on_checkpoint_loaded is called for a step above 0.  With
\* asynchronous saves the newest ones may not be whole; an earlier one is loaded.
LoadCheckpoint ==
    /\ pc = "load"
    /\ step' \in IF AsyncSave THEN 0 .. disk ELSE {disk}
    /\ loaded' = (loaded \/ step' > 0)
    /\ pc' = "top"
    /\ UNCHANGED <<disk, ret, exit, client, setupOpen, trIters, evalIdx, seenSave,
                   evalu, env>>

-----------------------------------------------------------------------------
(* Checkpointing sections. *)

\* on_checkpointing_start, before a finalisation or a save, which goes on at next.
BeginCheckpointing(work, next) ==
    /\ MonitorCalls({}, {"checkpointing"})
    /\ pc' = work /\ ret' = next

\* Asynchronous saves are finalised at the head of every iteration,
FinalizeAtTop ==
    /\ pc = "top" /\ step < TrainIters
    /\ BeginCheckpointing("finalizing", "iterate")
    /\ UNCHANGED <<disk, step, exit, calculated, ftState, evalu, env>>

\* after the loop,
FinalizeAfterLoop ==
    /\ pc = "close"
    /\ BeginCheckpointing("finalizing", IF exit THEN "shutdown" ELSE "valid")
    /\ UNCHANGED <<disk, step, exit, calculated, ftState, evalu, env>>

\* and once more in _finish_train.
FinalizeInFinish ==
    /\ pc = "finish"
    /\ BeginCheckpointing("finalizing", "shutdown")
    /\ UNCHANGED <<disk, step, exit, calculated, ftState, evalu, env>>

EndFinalize ==
    /\ pc = "finalizing"
    /\ MonitorCalls({"checkpointing"}, {})
    /\ pc' = ret
    /\ UNCHANGED <<disk, step, ret, exit, calculated, ftState, evalu, env>>

\* save_checkpoint ends its section and updates the timeouts.
EndSave ==
    /\ pc = "saving"
    /\ disk' = step
    /\ MonitorCalls({"checkpointing"}, {})
    /\ seenSave' = TRUE
    /\ UpdateTimeouts(TRUE, FALSE)
    /\ pc' = ret
    /\ UNCHANGED <<step, ret, exit, setupOpen, trIters, evalIdx, loaded, evalu, env>>

-----------------------------------------------------------------------------
(* An iteration. *)

SkipIteration ==
    /\ pc = "iterate" /\ step + 1 \in IterationsToSkip
    /\ step' = step + 1
    /\ pc' = "top"
    /\ UNCHANGED <<disk, ret, exit, client, ftState, evalu, env>>

\* Mutant: the setup section is left to the first evaluation.
StepStartKeepsSetup ==
    /\ pc = "iterate" /\ step + 1 \notin IterationsToSkip
    /\ MonitorCalls({}, When(trIters >= NumWarmupIters, "step"))
    /\ evalIdx' = 0
    /\ pc' = "inStep"
    /\ UNCHANGED <<disk, step, ret, exit, calculated, setupOpen, trIters, seenSave,
                   loaded, evalu, env>>

\* on_training_step_start
StepStart ==
    /\ pc = "iterate" /\ step + 1 \notin IterationsToSkip
    /\ MonitorCalls(When(setupOpen, "setup"), When(trIters >= NumWarmupIters, "step"))
    /\ setupOpen' = FALSE
    /\ evalIdx' = 0
    /\ pc' = "inStep"
    /\ UNCHANGED <<disk, step, ret, exit, calculated, trIters, seenSave, loaded, evalu,
                   env>>

\* Mutant: the iteration is counted before the section it did not open is ended.
StepEndCountsFirst ==
    /\ pc = "inStep"
    /\ trIters' = IF trIters < MinStepIters THEN trIters + 1 ELSE trIters
    /\ MonitorCalls(When(trIters' >= NumWarmupIters, "step"), {})
    /\ step' = step + 1 /\ pc' = "evalDue" /\ UNCHANGED exit
    /\ UNCHANGED <<disk, ret, calculated, setupOpen, evalIdx, seenSave, loaded, evalu,
                   env>>

\* on_training_step_end; the rerun state machine may have asked for an exit, in which
\* case the step is not counted, with or without a checkpoint.
StepEnd ==
    /\ pc = "inStep"
    /\ MonitorCalls(When(trIters >= NumWarmupIters, "step"), {})
    /\ trIters' = IF trIters < MinStepIters THEN trIters + 1 ELSE trIters
    /\ \/ step' = step + 1 /\ pc' = "evalDue" /\ UNCHANGED exit
       \/ exit' = TRUE /\ pc' \in {"rerunSave", "close"} /\ UNCHANGED step
    /\ UNCHANGED <<disk, ret, calculated, setupOpen, evalIdx, seenSave, loaded, evalu,
                   env>>

RerunSave ==
    /\ pc = "rerunSave"
    /\ BeginCheckpointing("saving", "close")
    /\ UNCHANGED <<disk, step, exit, calculated, ftState, evalu, env>>

Due(interval) == step % interval = 0

NoEvaluation ==
    /\ pc = "evalDue" /\ ~Due(EvalInterval)
    /\ pc' = "decide"
    /\ UNCHANGED <<disk, step, ret, exit, client, ftState, evalu, env>>

-----------------------------------------------------------------------------
(* evaluate *)

\* Entry.  The timer of an evaluation that the time limit ended is still running, and
\* Timer.start asserts that it is not.
BeginEvaluation(next) ==
    /\ ret' = next
    /\ IF evalTimer
       THEN pc' = "raised" /\ UNCHANGED evalu
       ELSE /\ evalTimer' = TRUE /\ evalMode' = TRUE /\ rerunOff' = TRUE
            /\ evalIter' = 0
            /\ pc' = "eval"

\* Every eval_interval steps; after training, on the validation set and the test set.
EvaluateInLoop ==
    /\ pc = "evalDue" /\ Due(EvalInterval)
    /\ BeginEvaluation("decide")
    /\ UNCHANGED <<disk, step, exit, client, ftState, env>>

EvaluateValid ==
    /\ pc = "valid"
    /\ BeginEvaluation(IF DoTest THEN "test" ELSE "finish")
    /\ UNCHANGED <<disk, step, exit, client, ftState, env>>

EvaluateTest ==
    /\ pc = "test"
    /\ BeginEvaluation("finish")
    /\ UNCHANGED <<disk, step, exit, client, ftState, env>>

\* on_eval_step_start
EvalStepStart ==
    /\ pc = "eval"
    /\ MonitorCalls(When(setupOpen, "setup"), When(evalIdx >= NumWarmupIters, "step"))
    /\ setupOpen' = FALSE
    /\ pc' = "inEval"
    /\ UNCHANGED <<disk, step, ret, exit, calculated, trIters, evalIdx, seenSave, loaded,
                   evalu, env>>

\* Mutant: the return at the time limit comes before on_eval_step_end.
EvalStepEndAfterReturn ==
    /\ pc = "inEval"
    /\ MonitorCalls(When(evalIdx >= NumWarmupIters /\ ~timeUp, "step"), {})
    /\ evalIdx' = NumWarmupIters
    /\ evalIter' = evalIter + 1
    /\ rerunOff' = (~timeUp /\ evalIter' < EvalIters)
    /\ pc' = IF rerunOff' THEN "eval" ELSE ret
    /\ evalTimer' = (timeUp \/ rerunOff') /\ evalMode' = evalTimer'
    /\ UNCHANGED <<disk, step, ret, exit, calculated, setupOpen, trIters, seenSave,
                   loaded, env>>

\* on_eval_step_end, and the end of the evaluation by the time limit, which leaves the
\* timer and the model as they are, or after the last iteration.
EvalStepEnd ==
    /\ pc = "inEval"
    /\ MonitorCalls(When(evalIdx >= NumWarmupIters, "step"), {})
    /\ evalIdx' = NumWarmupIters
    /\ evalIter' = evalIter + 1
    /\ \/ /\ timeUp
          /\ rerunOff' = FALSE /\ pc' = ret
          /\ UNCHANGED <<evalTimer, evalMode>>
       \/ /\ ~timeUp /\ evalIter' = EvalIters
          /\ evalTimer' = FALSE /\ evalMode' = FALSE /\ rerunOff' = FALSE
          /\ pc' = ret
       \/ /\ ~timeUp /\ evalIter' < EvalIters
          /\ pc' = "eval"
          /\ UNCHANGED <<evalTimer, evalMode, rerunOff>>
    /\ UNCHANGED <<disk, step, ret, exit, calculated, setupOpen, trIters, seenSave,
                   loaded, env>>

-----------------------------------------------------------------------------
(* checkpoint_and_decide_exit *)

\* An exit signal saves and ends the loop,
SignalExit ==
    /\ pc = "decide"
    /\ exit' = TRUE
    /\ BeginCheckpointing("saving", "close")
    /\ UNCHANGED <<disk, step, calculated, ftState, evalu, env>>

\* then the save interval is looked at,
IntervalSave ==
    /\ pc = "decide" /\ Due(SaveInterval)
    /\ BeginCheckpointing("saving", "limitSaved")
    /\ UNCHANGED <<disk, step, exit, calculated, ftState, evalu, env>>

NoSave ==
    /\ pc = "decide" /\ ~Due(SaveInterval)
    /\ pc' = "limit"
    /\ UNCHANGED <<disk, step, ret, exit, client, ftState, evalu, env>>

\* then the duration, which saves unless the interval did.
DurationExit ==
    /\ pc \in {"limit", "limitSaved"} /\ timeUp
    /\ exit' = TRUE
    /\ IF pc = "limit"
       THEN BeginCheckpointing("saving", "close")
       ELSE pc' = "close" /\ UNCHANGED <<ret, open, observed, misused>>
    /\ UNCHANGED <<disk, step, calculated, ftState, evalu, env>>

\* Mutant: the duration is left to the evaluation.
StayInLoopForgetsLimit ==
    /\ pc \in {"limit", "limitSaved"}
    /\ pc' = "top"
    /\ UNCHANGED <<disk, step, ret, exit, client, ftState, evalu, env>>

StayInLoop ==
    /\ pc \in {"limit", "limitSaved"} /\ ~timeUp
    /\ pc' = "top"
    /\ UNCHANGED <<disk, step, ret, exit, client, ftState, evalu, env>>

\* After the last step: the final save, unless the interval covered it.
EndLoop ==
    /\ pc = "top" /\ step >= TrainIters
    /\ IF Due(SaveInterval)
       THEN pc' = "close" /\ UNCHANGED <<ret, open, observed, misused>>
       ELSE BeginCheckpointing("saving", "close")
    /\ UNCHANGED <<disk, step, exit, calculated, ftState, evalu, env>>

\* shutdown: the last update of the timeouts, then the client is closed.
Shutdown ==
    /\ pc = "shutdown"
    /\ UpdateTimeouts(seenSave, TRUE)
    /\ open' = {}
    /\ pc' = "done"
    /\ UNCHANGED <<disk, step, ret, exit, observed, misused, ftState, evalu, env>>

-----------------------------------------------------------------------------
(* Environment. *)

TimePasses ==
    /\ TimeLimit /\ ~timeUp /\ pc \notin {"down", "done", "raised"}
    /\ timeUp' = TRUE
    /\ UNCHANGED <<disk, step, pc, ret, exit, client, ftState, evalu, restarted, faults>>

\* What every end of a process or of an invocation takes with it.
LoseInvocation ==
    /\ pc' = "down" /\ ret' = "top" /\ step' = 0 /\ exit' = FALSE
    /\ open' = {} /\ observed' = {} /\ misused' = FALSE /\ calculated' = {}
    /\ evalIter' = 0 /\ evalTimer' = FALSE /\ evalMode' = FALSE /\ rerunOff' = FALSE
    /\ UNCHANGED disk

\* The job starts again in a new process, after its end, an exception or a crash.
NewProcess ==
    /\ \/ pc \in {"done", "raised"} /\ UNCHANGED faults
       \/ pc \notin {"down", "done", "raised"} /\ faults < MaxFaults /\ faults' = faults + 1
    /\ LoseInvocation
    /\ setupOpen' = FALSE /\ trIters' = 0 /\ evalIdx' = 0
    /\ seenSave' = FALSE /\ loaded' = FALSE
    /\ timeUp' = FALSE /\ restarted' = FALSE

\* reset_for_restart leaves FaultToleranceState and the start time of the job.
InProcessRestart ==
    /\ pc \notin {"down", "done"} /\ faults < MaxFaults
    /\ faults' = faults + 1
    /\ LoseInvocation
    /\ restarted' = TRUE
    /\ UNCHANGED <<ftState, timeUp>>

-----------------------------------------------------------------------------
Checkpointing == FinalizeAtTop \/ FinalizeAfterLoop \/ FinalizeInFinish \/ EndFinalize
                 \/ EndSave \/ RerunSave
Evaluation == EvaluateInLoop \/ EvaluateValid \/ EvaluateTest \/ NoEvaluation
              \/ EvalStepStart \/ EvalStepEnd
Deciding == SignalExit \/ IntervalSave \/ NoSave \/ DurationExit \/ StayInLoop
Run == Setup \/ LoadCheckpoint \/ Checkpointing \/ SkipIteration \/ StepStart \/ StepEnd
       \/ Evaluation \/ Deciding \/ EndLoop \/ Shutdown

Next == Run \/ TimePasses \/ NewProcess \/ InProcessRestart

Spec == Init /\ [][Next]_vars

\* The main thread runs; time limits, signals, faults and relaunches are not promised.
FairSpec == Spec /\ WF_vars(Run)

-----------------------------------------------------------------------------
(* Properties. *)

\* The client never sees an open section started or a closed one ended, on any path:
\* skipped iterations, exits, evaluations before the first step, state that an
\* in-process restart has left over (both make the client raise).
SectionsInTurn == ~misused

\* A training or evaluation iteration is timed alone: setup is over (fault_tolerance:
\* "closed before the first training or eval iteration") and no checkpoint is saved.
IterationsTimedAlone == pc \in {"inStep", "inEval"} => open \subseteq {"step"}

\* Whatever way an evaluation ends, no training step runs with the model in evaluation
\* mode, the rerun state machine disabled or the evaluation timer running: the early
\* return of evaluate() relies on checkpoint_and_decide_exit finding the time up as well.
EvaluationLeavesNoTrace == pc = "inStep" => ~evalMode /\ ~rerunOff /\ ~evalTimer

\* In a process that was not restarted in place the step timeout is only calculated
\* from steps the client has timed, and the out-of-section timeout only once every
\* section has been seen (_maybe_update_timeouts: "until all FT sections were seen").
TimeoutsFromSeenSections ==
    ~restarted =>
        /\ calculated \ {"setup", "outOfSection"} \subseteq observed
        /\ "outOfSection" \in calculated => observed = Sections

\* Every section that is opened, setup included, is ended by a hook of its own, on whatever
\* path the job leaves steps, evaluations and saves: none is left to the shutdown of the
\* client, which drops what is open, and none to an exception.  Only a crash or a restart
\* in place takes an open section with it.
SectionsEnd == \A s \in Sections : (s \in open) ~> (s \notin open /\ pc # "done")
=============================================================================
