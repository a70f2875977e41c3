------------------------ MODULE FaultTolerance_proofs ------------------------
(***************************************************************************)
(* The monitor sees its sections in turn: for any intervals, limits and    *)
(* skipped iterations, through any crashes and in-process restarts.        *)
(***************************************************************************)
EXTENDS FaultTolerance, TLAPS

\* The inductive invariant behind SectionsInTurn and IterationsTimedAlone: at each
\* place of the program, exactly which sections are open.
SectionsInv ==
    /\ ~misused
    /\ pc \notin {"down", "shutdown", "done"} => (setupOpen <=> "setup" \in open)
    /\ "step" \in open <=> \/ pc = "inStep" /\ trIters >= NumWarmupIters
                           \/ pc = "inEval" /\ evalIdx >= NumWarmupIters
    /\ "checkpointing" \in open <=> pc \in {"finalizing", "saving"}
    /\ pc \in {"inStep", "inEval"} => ~setupOpen
    /\ open \subseteq Sections
    /\ ret \notin {"down", "inStep", "inEval", "finalizing", "saving", "done"}

\* The inductive invariant behind EvaluationLeavesNoTrace: what an evaluation sets is
\* left set only when the time is up, and from there no path leads back into the loop.
EvaluationInv ==
    /\ rerunOff <=> pc \in {"eval", "inEval"}
    /\ evalTimer <=> evalMode
    /\ evalTimer =>
          /\ timeUp \/ pc \in {"eval", "inEval"}
          /\ pc \notin {"down", "load", "top", "iterate", "inStep", "rerunSave", "evalDue"}
          /\ pc = "finalizing" => ret # "iterate"
    /\ pc \in {"eval", "inEval"} => ret \in {"decide", "test", "finish"}
    /\ pc = "saving" => ret \in {"limitSaved", "close"}
    /\ pc = "finalizing" => ret \in {"iterate", "shutdown", "valid"}

\* The inductive invariant behind TimeoutsFromSeenSections.  The counts that the timeouts
\* are calculated from are counts of this client's sections, unless the process was
\* restarted in place: the second iteration of a process, and those after it, are timed,
\* and the first one has closed the setup section.
CountsInv ==
    /\ observed \subseteq Sections
    /\ trIters \in Nat
    /\ ~restarted =>
          /\ pc = "down" => trIters = 0 /\ ~seenSave
          /\ pc # "down" => setupOpen \/ "setup" \in observed
          /\ trIters > 0 => "setup" \in observed
          /\ trIters > NumWarmupIters => "step" \in observed
          /\ seenSave => "checkpointing" \in observed

LEMMA SectionsInvInit == Init => SectionsInv
BY DEF Init, SectionsInv, Sections

\* One step per action that calls the monitor or moves between its sections.
LEMMA SectionsInvNext == SectionsInv /\ [Next]_vars => SectionsInv'
<1> SUFFICES ASSUME SectionsInv, [Next]_vars PROVE SectionsInv'
  OBVIOUS
<1> USE DEF SectionsInv, MonitorCalls, When, Sections, client, ftState, evalu, env
<1>1. CASE Setup
  BY <1>1 DEF Setup
<1>2. CASE LoadCheckpoint
  BY <1>2 DEF LoadCheckpoint
<1>3. CASE FinalizeAtTop
  BY <1>3 DEF FinalizeAtTop, BeginCheckpointing
<1>4. CASE FinalizeAfterLoop
  BY <1>4 DEF FinalizeAfterLoop, BeginCheckpointing
<1>5. CASE FinalizeInFinish
  BY <1>5 DEF FinalizeInFinish, BeginCheckpointing
<1>6. CASE EndFinalize
  BY <1>6 DEF EndFinalize
<1>7. CASE EndSave
  BY <1>7 DEF EndSave
<1>8. CASE RerunSave
  BY <1>8 DEF RerunSave, BeginCheckpointing
<1>9. CASE SkipIteration
  BY <1>9 DEF SkipIteration
<1>10. CASE StepStart
  BY <1>10 DEF StepStart
<1>11. CASE StepEnd
  BY <1>11 DEF StepEnd
<1>12. CASE EvaluateInLoop
  BY <1>12 DEF EvaluateInLoop, BeginEvaluation
<1>13. CASE EvaluateValid
  BY <1>13 DEF EvaluateValid, BeginEvaluation
<1>14. CASE EvaluateTest
  BY <1>14 DEF EvaluateTest, BeginEvaluation
<1>15. CASE NoEvaluation
  BY <1>15 DEF NoEvaluation
<1>16. CASE EvalStepStart
  BY <1>16 DEF EvalStepStart
<1>17. CASE EvalStepEnd
  BY <1>17 DEF EvalStepEnd
<1>18. CASE SignalExit
  BY <1>18 DEF SignalExit, BeginCheckpointing
<1>19. CASE IntervalSave
  BY <1>19 DEF IntervalSave, BeginCheckpointing
<1>20. CASE NoSave
  BY <1>20 DEF NoSave
<1>21. CASE DurationExit
  <2>1. CASE pc = "limit"
    <3>1. pc = "limit" /\ BeginCheckpointing("saving", "close")
      BY <1>21, <2>1 DEF DurationExit
    <3>2. setupOpen' = setupOpen /\ trIters' = trIters /\ evalIdx' = evalIdx
      BY <1>21 DEF DurationExit
    <3> QED BY <3>1, <3>2 DEF BeginCheckpointing
  <2>2. CASE pc # "limit"
    <3>1. pc = "limitSaved" /\ pc' = "close"
      BY <1>21, <2>2 DEF DurationExit
    <3>2. ret' = ret /\ open' = open /\ misused' = misused
      BY <1>21, <2>2 DEF DurationExit
    <3>3. setupOpen' = setupOpen /\ trIters' = trIters /\ evalIdx' = evalIdx
      BY <1>21 DEF DurationExit
    <3> QED BY <3>1, <3>2, <3>3
  <2> QED BY <2>1, <2>2
<1>22. CASE StayInLoop
  BY <1>22 DEF StayInLoop
<1>23. CASE EndLoop
  <2>1. CASE ~Due(SaveInterval)
    <3>1. pc = "top" /\ BeginCheckpointing("saving", "close")
      BY <1>23, <2>1 DEF EndLoop
    <3>2. setupOpen' = setupOpen /\ trIters' = trIters /\ evalIdx' = evalIdx
      BY <1>23 DEF EndLoop
    <3> QED BY <3>1, <3>2 DEF BeginCheckpointing
  <2>2. CASE Due(SaveInterval)
    <3>1. pc = "top" /\ pc' = "close"
      BY <1>23, <2>2 DEF EndLoop
    <3>2. ret' = ret /\ open' = open /\ misused' = misused
      BY <1>23, <2>2 DEF EndLoop
    <3>3. setupOpen' = setupOpen /\ trIters' = trIters /\ evalIdx' = evalIdx
      BY <1>23 DEF EndLoop
    <3> QED BY <3>1, <3>2, <3>3
  <2> QED BY <2>1, <2>2
<1>24. CASE Shutdown
  BY <1>24 DEF Shutdown
<1>25. CASE TimePasses
  BY <1>25 DEF TimePasses
<1>26. CASE NewProcess
  BY <1>26 DEF NewProcess, LoseInvocation
<1>27. CASE InProcessRestart
  BY <1>27 DEF InProcessRestart, LoseInvocation
<1>28. CASE UNCHANGED vars
  BY <1>28 DEF vars
<1> HIDE DEF SectionsInv, MonitorCalls, When, Sections, client, ftState, evalu, env
<1> QED
  BY <1>1, <1>2, <1>3, <1>4, <1>5, <1>6, <1>7, <1>8, <1>9, <1>10, <1>11, <1>12, <1>13,
     <1>14, <1>15, <1>16, <1>17, <1>18, <1>19, <1>20, <1>21, <1>22, <1>23, <1>24, <1>25,
     <1>26, <1>27, <1>28
  DEF Next, Run, Checkpointing, Evaluation, Deciding

\* No path through the loop, its evaluations, exits and restarts starts an open section
\* or ends a closed one.
THEOREM MonitorSeesSectionsInTurn == Spec => []SectionsInTurn
<1>1. SectionsInv => SectionsInTurn
  BY DEF SectionsInv, SectionsInTurn
<1> QED BY <1>1, SectionsInvInit, SectionsInvNext, PTL DEF Spec

\* While a training or evaluation iteration runs, neither the setup section nor that of a
\* checkpoint is open.
THEOREM MonitorTimesIterationsAlone == Spec => []IterationsTimedAlone
<1>1. SectionsInv => IterationsTimedAlone
  BY DEF SectionsInv, IterationsTimedAlone, Sections
<1> QED BY <1>1, SectionsInvInit, SectionsInvNext, PTL DEF Spec
-----------------------------------------------------------------------------
LEMMA CountsInvInit == Init => CountsInv /\ TimeoutsFromSeenSections
BY DEF Init, CountsInv, TimeoutsFromSeenSections, NumWarmupIters

LEMMA CountsInvNext ==
    ASSUME MinStepIters > NumWarmupIters
    PROVE  SectionsInv /\ CountsInv /\ TimeoutsFromSeenSections /\ [Next]_vars
               => CountsInv' /\ TimeoutsFromSeenSections'
<1> SUFFICES ASSUME SectionsInv, CountsInv, TimeoutsFromSeenSections, [Next]_vars
             PROVE  CountsInv' /\ TimeoutsFromSeenSections'
  OBVIOUS
<1> USE DEF client, ftState, evalu, env
\* Most actions leave the counts alone; a section they end becomes one that is observed.
<1>q. ASSUME pc # "down", pc' # "down", observed \subseteq observed', observed' \subseteq Sections,
             UNCHANGED <<calculated, trIters, seenSave, restarted>>,
             setupOpen => setupOpen' \/ "setup" \in observed'
      PROVE  CountsInv' /\ TimeoutsFromSeenSections'
  BY <1>q DEF CountsInv, TimeoutsFromSeenSections
<1>e. ASSUME NEW ends, NEW starts, MonitorCalls(ends, starts)
      PROVE  observed' = observed \cup ends
  BY <1>e DEF MonitorCalls
<1>o. observed \subseteq Sections /\ trIters \in Nat
  BY DEF CountsInv
<1>c. ASSUME NEW work, NEW next, BeginCheckpointing(work, next)
      PROVE  pc' = work /\ observed' = observed
  BY <1>c, <1>e DEF BeginCheckpointing
<1>1. CASE Setup
  BY <1>1 DEF Setup, CountsInv, TimeoutsFromSeenSections, NumWarmupIters
<1>2. CASE LoadCheckpoint
  BY <1>2, <1>q, <1>o DEF LoadCheckpoint
<1>3. CASE FinalizeAtTop
  BY <1>3, <1>q, <1>o, <1>c DEF FinalizeAtTop
<1>4. CASE FinalizeAfterLoop
  BY <1>4, <1>q, <1>o, <1>c DEF FinalizeAfterLoop
<1>5. CASE FinalizeInFinish
  BY <1>5, <1>q, <1>o, <1>c DEF FinalizeInFinish
<1>6. CASE EndFinalize
  <2>1. pc = "finalizing" /\ pc' # "down"
    BY <1>6 DEF EndFinalize, SectionsInv
  <2>2. observed' = observed \cup {"checkpointing"}
    BY <1>6, <1>e DEF EndFinalize
  <2>3. UNCHANGED <<calculated, trIters, seenSave, restarted, setupOpen>>
    BY <1>6 DEF EndFinalize
  <2> QED BY <2>1, <2>2, <2>3, <1>q, <1>o DEF Sections
<1>7. CASE EndSave
  <2>1. /\ pc = "saving" /\ pc' # "down" /\ seenSave'
        /\ UNCHANGED <<trIters, restarted, setupOpen>>
    BY <1>7 DEF EndSave, SectionsInv
  <2>2. observed' = observed \cup {"checkpointing"}
    BY <1>7, <1>e DEF EndSave
  <2>3. CountsInv'
    BY <2>1, <2>2 DEF CountsInv, Sections
  <2>4. calculated' = calculated \cup SectionsToUpdate(TRUE)
    BY <1>7 DEF EndSave, UpdateTimeouts, When
  <2>5. ~restarted => SectionsToUpdate(TRUE) \ {"setup"} \subseteq observed'
    BY <2>1, <2>2, FaultToleranceConstants
    DEF CountsInv, SectionsToUpdate, When, NumWarmupIters, FaultToleranceConstants
  <2>6. "outOfSection" \notin SectionsToUpdate(TRUE)
    BY DEF SectionsToUpdate, When
  <2> QED BY <2>1, <2>2, <2>3, <2>4, <2>5, <2>6, <1>o DEF TimeoutsFromSeenSections, Sections
<1>8. CASE RerunSave
  BY <1>8, <1>q, <1>o, <1>c DEF RerunSave
<1>9. CASE SkipIteration
  BY <1>9, <1>q, <1>o DEF SkipIteration
<1>10. CASE StepStart
  <2>1. pc = "iterate" /\ pc' = "inStep"
    BY <1>10 DEF StepStart
  <2>2. observed' = observed \cup When(setupOpen, "setup")
    BY <1>10, <1>e DEF StepStart
  <2>3. UNCHANGED <<calculated, trIters, seenSave, restarted>>
    BY <1>10 DEF StepStart
  <2> QED BY <2>1, <2>2, <2>3, <1>q, <1>o DEF When, Sections
<1>11. CASE StepEnd
  <2>1. /\ pc = "inStep" /\ pc' # "down"
        /\ trIters' = IF trIters < MinStepIters THEN trIters + 1 ELSE trIters
        /\ UNCHANGED <<calculated, setupOpen, seenSave, restarted>>
    BY <1>11 DEF StepEnd
  <2>2. observed' = observed \cup When(trIters >= NumWarmupIters, "step")
    BY <1>11, <1>e DEF StepEnd
  <2>3. ~restarted => "setup" \in observed
    BY <2>1 DEF SectionsInv, CountsInv
  <2>4. trIters' \in Nat /\ (trIters' > NumWarmupIters => trIters >= NumWarmupIters)
    BY <2>1, <1>o DEF NumWarmupIters
  <2>5. observed' \subseteq Sections /\ observed \subseteq observed'
    BY <2>2, <1>o DEF When, Sections
  <2>6. trIters' > NumWarmupIters => "step" \in observed'
    BY <2>2, <2>4 DEF When
  <2> QED BY <2>1, <2>3, <2>4, <2>5, <2>6 DEF CountsInv, TimeoutsFromSeenSections
<1>12. CASE EvaluateInLoop
  BY <1>12, <1>q, <1>o DEF EvaluateInLoop, BeginEvaluation
<1>13. CASE EvaluateValid
  BY <1>13, <1>q, <1>o DEF EvaluateValid, BeginEvaluation
<1>14. CASE EvaluateTest
  BY <1>14, <1>q, <1>o DEF EvaluateTest, BeginEvaluation
<1>15. CASE NoEvaluation
  BY <1>15, <1>q, <1>o DEF NoEvaluation
<1>16. CASE EvalStepStart
  <2>1. pc = "eval" /\ pc' = "inEval"
    BY <1>16 DEF EvalStepStart
  <2>2. observed' = observed \cup When(setupOpen, "setup")
    BY <1>16, <1>e DEF EvalStepStart
  <2>3. UNCHANGED <<calculated, trIters, seenSave, restarted>>
    BY <1>16 DEF EvalStepStart
  <2> QED BY <2>1, <2>2, <2>3, <1>q, <1>o DEF When, Sections
<1>17. CASE EvalStepEnd
  <2>1. pc = "inEval" /\ pc' # "down"
    BY <1>17 DEF EvalStepEnd, SectionsInv
  <2>2. observed' = observed \cup When(evalIdx >= NumWarmupIters, "step")
    BY <1>17, <1>e DEF EvalStepEnd
  <2>3. UNCHANGED <<calculated, trIters, seenSave, restarted, setupOpen>>
    BY <1>17 DEF EvalStepEnd
  <2>4. observed \subseteq observed' /\ observed' \subseteq Sections
    BY <2>2, <1>o DEF When, Sections
  <2> QED BY <2>1, <2>3, <2>4, <1>q
<1>18. CASE SignalExit
  BY <1>18, <1>q, <1>o, <1>c DEF SignalExit
<1>19. CASE IntervalSave
  BY <1>19, <1>q, <1>o, <1>c DEF IntervalSave
<1>20. CASE NoSave
  BY <1>20, <1>q, <1>o DEF NoSave
<1>21. CASE DurationExit
  BY <1>21, <1>q, <1>o, <1>c DEF DurationExit
<1>22. CASE StayInLoop
  BY <1>22, <1>q, <1>o DEF StayInLoop
<1>23. CASE EndLoop
  BY <1>23, <1>q, <1>o, <1>c DEF EndLoop
<1>24. CASE Shutdown
  <2>1. /\ pc = "shutdown" /\ pc' = "done"
        /\ UNCHANGED <<observed, setupOpen, trIters, seenSave, restarted>>
    BY <1>24 DEF Shutdown
  <2>2. CountsInv'
    BY <2>1 DEF CountsInv
  <2>3. calculated' = calculated \cup SectionsToUpdate(seenSave)
                        \cup When(seenSave /\ {"setup", "step"} \subseteq SectionsToUpdate(seenSave),
                                  "outOfSection")
    BY <1>24 DEF Shutdown, UpdateTimeouts, When
  <2>4. "step" \in SectionsToUpdate(seenSave) => trIters > NumWarmupIters
    BY <1>o, FaultToleranceConstants
    DEF SectionsToUpdate, When, NumWarmupIters, FaultToleranceConstants
  <2>5. ~restarted => SectionsToUpdate(seenSave) \ {"setup"} \subseteq observed
    BY <2>4 DEF CountsInv, SectionsToUpdate, When
  <2>6. ~restarted /\ seenSave /\ {"setup", "step"} \subseteq SectionsToUpdate(seenSave)
            => observed = Sections
    <3> SUFFICES ASSUME ~restarted, seenSave, trIters > NumWarmupIters
                 PROVE  Sections \subseteq observed
      BY <2>4, <1>o
    <3>1. trIters > 0
      BY <1>o DEF NumWarmupIters
    <3> QED BY <3>1 DEF CountsInv, Sections
  <2>7. "outOfSection" \notin SectionsToUpdate(seenSave)
    BY DEF SectionsToUpdate, When
  <2> QED BY <2>1, <2>2, <2>3, <2>5, <2>6, <2>7 DEF TimeoutsFromSeenSections, When
<1>25. CASE TimePasses
  BY <1>25, <1>q, <1>o DEF TimePasses
<1>26. CASE NewProcess
  BY <1>26 DEF NewProcess, LoseInvocation, CountsInv, TimeoutsFromSeenSections, NumWarmupIters
<1>27. CASE InProcessRestart
  BY <1>27, <1>o DEF InProcessRestart, LoseInvocation, CountsInv, TimeoutsFromSeenSections
<1>28. CASE UNCHANGED vars
  BY <1>28 DEF vars, CountsInv, TimeoutsFromSeenSections
<1> QED
  BY <1>1, <1>2, <1>3, <1>4, <1>5, <1>6, <1>7, <1>8, <1>9, <1>10, <1>11, <1>12, <1>13,
     <1>14, <1>15, <1>16, <1>17, <1>18, <1>19, <1>20, <1>21, <1>22, <1>23, <1>24, <1>25,
     <1>26, <1>27, <1>28
  DEF Next, Run, Checkpointing, Evaluation, Deciding

\* In a process that was not restarted in place a timeout is only calculated from sections
\* that its client has timed.  It takes that the number of iterations asked for before the step
\* timeout is updated, 16 in the code, is above that of the warm-up, which are not timed.
THEOREM TimeoutsAreTimed ==
    ASSUME MinStepIters > NumWarmupIters
    PROVE  Spec => []TimeoutsFromSeenSections
<1>1. CountsInv /\ TimeoutsFromSeenSections /\ SectionsInv /\ [Next]_vars
          => CountsInv' /\ TimeoutsFromSeenSections' /\ SectionsInv'
  BY CountsInvNext, SectionsInvNext
<1> QED BY <1>1, CountsInvInit, SectionsInvInit, PTL DEF Spec
-----------------------------------------------------------------------------
LEMMA EvaluationInvInit == Init => EvaluationInv
BY DEF Init, EvaluationInv

\* One step per action.
LEMMA EvaluationInvNext == EvaluationInv /\ [Next]_vars => EvaluationInv'
<1> SUFFICES ASSUME EvaluationInv, [Next]_vars PROVE EvaluationInv'
  OBVIOUS
<1> USE DEF EvaluationInv, client, ftState, evalu, env
<1>1. CASE Setup
  BY <1>1 DEF Setup
<1>2. CASE LoadCheckpoint
  BY <1>2 DEF LoadCheckpoint
<1>3. CASE FinalizeAtTop
  BY <1>3 DEF FinalizeAtTop, BeginCheckpointing
<1>4. CASE FinalizeAfterLoop
  BY <1>4 DEF FinalizeAfterLoop, BeginCheckpointing
<1>5. CASE FinalizeInFinish
  BY <1>5 DEF FinalizeInFinish, BeginCheckpointing
<1>6. CASE EndFinalize
  BY <1>6 DEF EndFinalize
<1>7. CASE EndSave
  BY <1>7 DEF EndSave
<1>8. CASE RerunSave
  BY <1>8 DEF RerunSave, BeginCheckpointing
<1>9. CASE SkipIteration
  BY <1>9 DEF SkipIteration
<1>10. CASE StepStart
  BY <1>10 DEF StepStart
<1>11. CASE StepEnd
  BY <1>11 DEF StepEnd
<1>12. CASE EvaluateInLoop
  BY <1>12 DEF EvaluateInLoop, BeginEvaluation
<1>13. CASE EvaluateValid
  BY <1>13 DEF EvaluateValid, BeginEvaluation
<1>14. CASE EvaluateTest
  BY <1>14 DEF EvaluateTest, BeginEvaluation
<1>15. CASE NoEvaluation
  BY <1>15 DEF NoEvaluation
<1>16. CASE EvalStepStart
  BY <1>16 DEF EvalStepStart
<1>17. CASE EvalStepEnd
  <2>1. pc = "inEval" /\ rerunOff /\ UNCHANGED <<ret, timeUp>>
    BY <1>17 DEF EvalStepEnd
  <2>2. CASE timeUp
    <3>1. ~rerunOff' /\ pc' = ret
      BY <1>17, <2>2 DEF EvalStepEnd
    <3>2. evalTimer' = evalTimer /\ evalMode' = evalMode
      BY <1>17, <2>2 DEF EvalStepEnd
    <3> QED BY <2>1, <2>2, <3>1, <3>2
  <2>3. CASE ~timeUp /\ pc' = ret /\ ~evalTimer' /\ ~evalMode' /\ ~rerunOff'
    BY <2>1, <2>3
  <2>4. CASE pc' = "eval" /\ UNCHANGED <<evalTimer, evalMode, rerunOff>>
    BY <2>1, <2>4
  <2> QED BY <1>17, <2>2, <2>3, <2>4 DEF EvalStepEnd
<1>18. CASE SignalExit
  BY <1>18 DEF SignalExit, BeginCheckpointing
<1>19. CASE IntervalSave
  BY <1>19 DEF IntervalSave, BeginCheckpointing
<1>20. CASE NoSave
  BY <1>20 DEF NoSave
<1>21. CASE DurationExit
  <2>1. pc \in {"limit", "limitSaved"} /\ timeUp /\ UNCHANGED <<evalu, env>>
    BY <1>21 DEF DurationExit
  <2>2. (pc' = "saving" /\ ret' = "close") \/ (pc' = "close" /\ ret' = ret)
    BY <1>21 DEF DurationExit, BeginCheckpointing
  <2> QED BY <2>1, <2>2
<1>22. CASE StayInLoop
  BY <1>22 DEF StayInLoop
<1>23. CASE EndLoop
  BY <1>23 DEF EndLoop, BeginCheckpointing
<1>24. CASE Shutdown
  BY <1>24 DEF Shutdown
<1>25. CASE TimePasses
  BY <1>25 DEF TimePasses
<1>26. CASE NewProcess
  BY <1>26 DEF NewProcess, LoseInvocation
<1>27. CASE InProcessRestart
  BY <1>27 DEF InProcessRestart, LoseInvocation
<1>28. CASE UNCHANGED vars
  BY <1>28 DEF vars
<1> HIDE DEF EvaluationInv, client, ftState, evalu, env
<1> QED
  BY <1>1, <1>2, <1>3, <1>4, <1>5, <1>6, <1>7, <1>8, <1>9, <1>10, <1>11, <1>12, <1>13,
     <1>14, <1>15, <1>16, <1>17, <1>18, <1>19, <1>20, <1>21, <1>22, <1>23, <1>24,
     <1>25, <1>26, <1>27, <1>28
  DEF Next, Run, Checkpointing, Evaluation, Deciding

\* Whatever way evaluations end, training steps run in training mode, with the rerun
\* state machine on and the evaluation timer stopped.
THEOREM NoTraceOfEvaluation == Spec => []EvaluationLeavesNoTrace
<1>1. EvaluationInv => EvaluationLeavesNoTrace
  BY DEF EvaluationInv, EvaluationLeavesNoTrace
<1> QED BY <1>1, EvaluationInvInit, EvaluationInvNext, PTL DEF Spec
=============================================================================
