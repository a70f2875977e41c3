--------------------------- MODULE TrainLoop_proofs ---------------------------
(***************************************************************************)
(* The training loop for every number of steps, every interval and any     *)
(* crashes: its counters, what its exits leave on disk, its answer to a    *)
(* signal and, where no iteration is skipped, its forward pre-hooks.       *)
(***************************************************************************)
EXTENDS TrainLoop, FiniteSetTheorems, TLAPS

\* Inside an iteration the last step is still to come: what TypeOK needs to be
\* inductive.
InLoop == pc = "skip" => step < TrainIters

LoopInv == TypeOK /\ InLoop

LEMMA LoopInvInit == Init => LoopInv
<1> SUFFICES ASSUME Init PROVE LoopInv
  OBVIOUS
<1>1. disk \in [Kinds -> [step : 0 .. TrainIters, consumed : Nat]]
  BY LoopConstants DEF Init, LoopConstants
<1>2. signalAt = NoSignal /\ pc = "start" /\ exit = "no"
  BY DEF Init
<1>3. /\ step \in 0 .. TrainIters /\ start \in 0 .. TrainIters
      /\ consumed \in Nat /\ drawn \in Nat /\ faults \in 0 .. MaxFaults
  BY LoopConstants DEF Init, LoopConstants
<1>4. microbatches \in {1, 2}
  BY DEF Init, NumMicrobatches
<1>5. /\ hooks \in BOOLEAN /\ enabled \in BOOLEAN
      /\ stale \in BOOLEAN /\ saved \in BOOLEAN
  BY DEF Init
<1>6. pc \in PCs /\ InLoop
  BY <1>2 DEF PCs, InLoop
<1> QED
  BY <1>1, <1>2, <1>3, <1>4, <1>5, <1>6 DEF TypeOK, LoopInv

LEMMA LoopInvNext == LoopInv /\ [Next]_vars => LoopInv'
<1> SUFFICES ASSUME TypeOK, InLoop, [Next]_vars PROVE TypeOK' /\ InLoop'
  BY DEF LoopInv
<1> USE LoopConstants DEF LoopConstants
<1>1. /\ disk \in [Kinds -> [step : 0 .. TrainIters, consumed : Nat]]
      /\ step \in 0 .. TrainIters /\ consumed \in Nat
      /\ microbatches \in {1, 2} /\ drawn \in Nat
  BY DEF TypeOK
<1>2. ASSUME NEW kind \in Kinds, SaveAs(kind) \/ SaveNothing
      PROVE  /\ disk' \in [Kinds -> [step : 0 .. TrainIters, consumed : Nat]]
             /\ stale' \in BOOLEAN
  <2>1. [step |-> step, consumed |-> consumed]
           \in [step : 0 .. TrainIters, consumed : Nat]
    BY <1>1
  <2>2. CASE SaveAs(kind)
    BY <2>1, <2>2, <1>1 DEF SaveAs
  <2>3. CASE SaveNothing
    BY <2>3 DEF SaveNothing, TypeOK
  <2> QED
    BY <1>2, <2>2, <2>3
<1>k. "persistent" \in Kinds /\ "nonPersistent" \in Kinds
  BY DEF Kinds
<1>3. CASE StartTraining
  <2>1. Newest \in [step : 0 .. TrainIters, consumed : Nat]
    BY <1>1, <1>k DEF Newest
  <2> QED
    BY <1>3, <2>1 DEF StartTraining, TypeOK, InLoop, NumMicrobatches, PCs, NoSignal
<1>4. CASE LoopHead
  BY <1>4, <1>2, <1>k DEF LoopHead, TypeOK, InLoop, NumMicrobatches, PCs
<1>5. CASE SkipIteration
  BY <1>5 DEF SkipIteration, TypeOK, InLoop, PCs
<1>6. ASSUME NEW skippedIter \in BOOLEAN, TrainStep(skippedIter) PROVE TypeOK' /\ InLoop'
  <2>1. step + 1 \in 0 .. TrainIters /\ consumed + microbatches \in Nat
        /\ drawn + microbatches \in Nat
    BY <1>6, <1>1 DEF TrainStep, InLoop
  <2>2. /\ start' \in 0 .. TrainIters
        /\ hooks' \in BOOLEAN /\ enabled' \in BOOLEAN
    BY <1>6, <2>1 DEF TrainStep, EnableHook, TypeOK
  <2> QED
    BY <1>6, <2>1, <2>2 DEF TrainStep, TypeOK, InLoop, PCs
<1>7. CASE RerunExit
  BY <1>7, <1>2, <1>k DEF RerunExit, TypeOK, InLoop, PCs
<1>8. CASE Evaluate
  BY <1>8 DEF Evaluate, AroundHooks, TypeOK, InLoop, PCs
<1>9. CASE CheckWeightHash
  BY <1>9 DEF CheckWeightHash, AroundHooks, TypeOK, InLoop, PCs
<1>10. CASE SignalExit
  BY <1>10, <1>2, <1>k DEF SignalExit, TypeOK, InLoop, PCs
<1>11. CASE RegularSave
  BY <1>11, <1>2, <1>k DEF RegularSave, PersistentDue, TypeOK, InLoop, PCs
<1>12. CASE DecideExit
  BY <1>12, <1>2, <1>k DEF DecideExit, TypeOK, InLoop, PCs
<1>13. CASE StayInLoop
  BY <1>13 DEF StayInLoop, TypeOK, InLoop, PCs
<1>14. CASE EndLoop
  BY <1>14, <1>2, <1>k DEF EndLoop, TypeOK, InLoop, PCs
<1>15. CASE CloseHooks
  BY <1>15 DEF CloseHooks, TypeOK, InLoop, PCs
<1>16. CASE SignalArrives
  BY <1>16 DEF SignalArrives, TypeOK, InLoop, PCs
<1>17. CASE Restart
  BY <1>17 DEF Restart, TypeOK, InLoop, PCs
<1>18. CASE UNCHANGED vars
  BY <1>18 DEF vars, TypeOK, InLoop
<1> QED
  BY <1>3, <1>4, <1>5, <1>6, <1>7, <1>8, <1>9, <1>10, <1>11, <1>12, <1>13, <1>14,
     <1>15, <1>16, <1>17, <1>18 DEF Next, Run

\* The loop variables keep their types, and no run goes past train_iters.
THEOREM LoopTypeCorrect == Spec => []TypeOK
<1>1. LoopInv => TypeOK
  BY DEF LoopInv
<1> QED
  BY <1>1, LoopInvInit, LoopInvNext, PTL DEF Spec

-----------------------------------------------------------------------------
(* Forward pre-hooks, where no iteration is skipped. *)

\* The flag follows the hooks; they are off only before the first step that the optimizer
\* takes, which moves the start as long as it takes none, and only while nothing is stale.
HookInv ==
    /\ pc \notin {"start", "done", "raised"} =>
          /\ enabled = hooks
          /\ stale => hooks
          /\ hooks => ToggleHook
    /\ pc \in {"top", "skip", "eval", "hash", "decide", "exit"} /\ ToggleHook /\ ~hooks =>
          step = start

\* Hooks are on wherever the loop may remove them, unless the loss scaler may skip steps.
ToggleInv ==
    /\ HooksToggledInTurn
    /\ ~Fp16 /\ ToggleHook /\ pc \in {"eval", "hash", "decide", "exit"} => hooks

LEMMA HookInvInit == Init => HookInv /\ ToggleInv
BY DEF Init, HookInv, ToggleInv, HooksToggledInTurn

\* An action that neither steps nor touches the hooks keeps them.
LEMMA HooksLeftAlone ==
    ASSUME UNCHANGED <<hooks, enabled, step, start>>, stale' => stale,
           pc \notin {"start", "done", "raised"},
           pc' \in {"top", "skip", "eval", "hash", "decide", "exit"} =>
               pc \in {"top", "skip", "eval", "hash", "decide", "exit"}
    PROVE  HookInv => HookInv'
BY DEF HookInv

LEMMA HookInvNext ==
    ASSUME IterationsToSkip = {}
    PROVE  TypeOK /\ HookInv /\ [Next]_vars => HookInv'
<1> SUFFICES ASSUME TypeOK, HookInv, [Next]_vars PROVE HookInv'
  OBVIOUS
<1>1. /\ hooks \in BOOLEAN /\ enabled \in BOOLEAN /\ stale \in BOOLEAN
      /\ step \in Nat /\ start \in Nat /\ ToggleHook \in BOOLEAN
  BY LoopConstants DEF LoopConstants, TypeOK
<1>2. ASSUME NEW kind \in Kinds, SaveAs(kind) \/ SaveNothing
      PROVE  stale' => stale
  BY <1>2 DEF SaveAs, SaveNothing
<1>k. "persistent" \in Kinds /\ "nonPersistent" \in Kinds
  BY DEF Kinds
<1>3. CASE StartTraining
  BY <1>3, <1>1 DEF StartTraining, HookInv
<1>4. CASE LoopHead
  BY <1>4, <1>2, <1>k, HooksLeftAlone DEF LoopHead
<1>5. CASE SkipIteration
  BY <1>5 DEF SkipIteration
<1>6. ASSUME NEW skippedIter \in BOOLEAN, TrainStep(skippedIter) PROVE HookInv'
  <2>1. /\ pc = "skip" /\ pc' = "eval" /\ step' = step + 1
        /\ stale' = IF skippedIter THEN stale /\ ~hooks ELSE ToggleHook
        /\ start' = IF step = start /\ skippedIter THEN step + 1 ELSE start
    BY <1>6 DEF TrainStep, EnableHook
  <2>2. enabled = hooks /\ (stale => hooks) /\ (hooks => ToggleHook)
    BY <2>1 DEF HookInv
  <2>3. ToggleHook /\ ~hooks => step = start
    BY <2>1 DEF HookInv
  <2>4. CASE step = start /\ ~skippedIter /\ ToggleHook /\ ~enabled
    <3>1. hooks' /\ enabled' /\ hooks' = enabled'
      BY <1>6, <2>4 DEF TrainStep, EnableHook
    <3> QED BY <2>1, <2>4, <3>1 DEF HookInv
  <2>5. CASE ~(step = start /\ ~skippedIter /\ ToggleHook /\ ~enabled)
    <3>1. hooks' = hooks /\ enabled' = enabled
      BY <1>6, <2>5 DEF TrainStep, EnableHook
    <3>2. stale' => hooks'
      BY <2>1, <2>2, <2>3, <2>5, <3>1, <1>1
    <3>3. ToggleHook /\ ~hooks' => step' = start'
      BY <2>1, <2>2, <2>3, <2>5, <3>1, <1>1
    <3> QED BY <2>1, <2>2, <3>1, <3>2, <3>3 DEF HookInv
  <2> QED BY <2>4, <2>5
<1>7. CASE RerunExit
  BY <1>7, <1>2, <1>k, HooksLeftAlone DEF RerunExit
<1>8. CASE Evaluate
  BY <1>8, <1>1 DEF Evaluate, AroundHooks, HookInv
<1>9. CASE CheckWeightHash
  BY <1>9, <1>1 DEF CheckWeightHash, AroundHooks, HookInv
<1>10. CASE SignalExit
  BY <1>10, <1>2, <1>k, HooksLeftAlone DEF SignalExit
<1>11. CASE RegularSave
  BY <1>11, <1>2, <1>k, HooksLeftAlone DEF RegularSave
<1>12. CASE DecideExit
  BY <1>12, <1>2, <1>k, HooksLeftAlone DEF DecideExit
<1>13. CASE StayInLoop
  BY <1>13, HooksLeftAlone DEF StayInLoop
<1>14. CASE EndLoop
  BY <1>14, <1>2, <1>k, HooksLeftAlone DEF EndLoop
<1>15. CASE CloseHooks
  BY <1>15 DEF CloseHooks, HookInv
<1>16. CASE SignalArrives
  BY <1>16, HooksLeftAlone DEF SignalArrives
<1>17. CASE Restart
  BY <1>17 DEF Restart, HookInv
<1>18. CASE UNCHANGED vars
  BY <1>18 DEF vars, HookInv
<1> QED
  BY <1>3, <1>4, <1>5, <1>6, <1>7, <1>8, <1>9, <1>10, <1>11, <1>12, <1>13, <1>14,
     <1>15, <1>16, <1>17, <1>18 DEF Next, Run

LEMMA ToggleInvNext ==
    ASSUME IterationsToSkip = {}
    PROVE  TypeOK /\ HookInv /\ ToggleInv /\ [Next]_vars => ToggleInv'
<1> SUFFICES ASSUME TypeOK, HookInv, ToggleInv, [Next]_vars PROVE ToggleInv'
  OBVIOUS
<1>1. hooks \in BOOLEAN /\ enabled \in BOOLEAN /\ {Fp16, ToggleHook} \subseteq BOOLEAN
  BY LoopConstants DEF LoopConstants, TypeOK
<1> USE DEF HooksToggledInTurn
<1>q. ASSUME UNCHANGED hooks, pc' # "raised",
             pc' \in {"eval", "hash", "decide", "exit"} => pc \in {"eval", "hash", "decide", "exit"}
      PROVE  ToggleInv'
  BY <1>q DEF ToggleInv
\* Hooks that are removed and are not there: no step has been taken.
<1>t. ASSUME pc \in {"eval", "hash"}, ToggleHook, ~hooks, UNCHANGED <<hooks, step, start>>,
             pc' = "raised"
      PROVE  ToggleInv'
  BY <1>t, <1>1 DEF HookInv, ToggleInv
<1>3. CASE StartTraining
  BY <1>3 DEF StartTraining, ToggleInv
<1>4. CASE LoopHead
  BY <1>4, <1>q DEF LoopHead
<1>5. CASE SkipIteration
  BY <1>5 DEF SkipIteration
<1>6. ASSUME NEW skippedIter \in BOOLEAN, TrainStep(skippedIter) PROVE ToggleInv'
  <2>1. pc = "skip" /\ pc' = "eval" /\ (skippedIter => Fp16)
    BY <1>6 DEF TrainStep
  <2>2. enabled = hooks /\ (ToggleHook /\ ~hooks => step = start)
    BY <2>1 DEF HookInv
  <2>3. ~Fp16 /\ ToggleHook => hooks'
    BY <1>6, <2>1, <2>2, <1>1 DEF TrainStep, EnableHook
  <2> QED BY <2>1, <2>3 DEF ToggleInv
<1>7. CASE RerunExit
  BY <1>7, <1>q DEF RerunExit
<1>8. CASE Evaluate
  <2>1. pc = "eval" /\ UNCHANGED <<hooks, step, start>>
    BY <1>8 DEF Evaluate
  <2>2. pc' = "hash" \/ (pc' = "raised" /\ ToggleHook /\ ~hooks)
    BY <1>8 DEF Evaluate, AroundHooks
  <2> QED BY <2>1, <2>2, <1>q, <1>t
<1>9. CASE CheckWeightHash
  <2>1. pc = "hash" /\ UNCHANGED <<hooks, step, start>>
    BY <1>9 DEF CheckWeightHash
  <2>2. pc' = "decide" \/ (pc' = "raised" /\ ToggleHook /\ ~hooks)
    BY <1>9 DEF CheckWeightHash, AroundHooks
  <2> QED BY <2>1, <2>2, <1>q, <1>t
<1>10. CASE SignalExit
  BY <1>10, <1>q DEF SignalExit
<1>11. CASE RegularSave
  BY <1>11, <1>q DEF RegularSave
<1>12. CASE DecideExit
  BY <1>12, <1>q DEF DecideExit
<1>13. CASE StayInLoop
  BY <1>13, <1>q DEF StayInLoop
<1>14. CASE EndLoop
  BY <1>14, <1>q DEF EndLoop
<1>15. CASE CloseHooks
  BY <1>15 DEF CloseHooks, HookInv, ToggleInv
<1>16. CASE SignalArrives
  BY <1>16, <1>q DEF SignalArrives, ToggleInv
<1>17. CASE Restart
  BY <1>17 DEF Restart, ToggleInv
<1>18. CASE UNCHANGED vars
  BY <1>18 DEF vars, ToggleInv
<1> QED
  BY <1>3, <1>4, <1>5, <1>6, <1>7, <1>8, <1>9, <1>10, <1>11, <1>12, <1>13, <1>14,
     <1>15, <1>16, <1>17, <1>18 DEF Next, Run

\* Where no iteration is skipped by configuration, no forward pass runs on parameters
\* nothing will gather, whatever the intervals, steps the loss scaler skips, exits, saves
\* and crashes.
THEOREM ForwardsGather ==
    ASSUME IterationsToSkip = {}
    PROVE  Spec => []ForwardUsesHook
<1>1. HookInv => ForwardUsesHook
  BY DEF HookInv, ForwardUsesHook
<1>2. Init => HookInv
  BY HookInvInit
<1>3. TypeOK /\ HookInv /\ [Next]_vars => HookInv'
  BY HookInvNext
<1> QED
  BY <1>1, <1>2, <1>3, LoopTypeCorrect, PTL DEF Spec

\* Where no iteration is skipped by configuration, hooks that are not registered are only
\* removed in a run whose steps the loss scaler has all skipped, whatever the intervals,
\* exits and crashes.
THEOREM HooksKept ==
    ASSUME IterationsToSkip = {}
    PROVE  Spec => []HooksToggledInTurn
<1>1. ToggleInv => HooksToggledInTurn
  BY DEF ToggleInv
<1>2. Init => HookInv /\ ToggleInv
  BY HookInvInit
<1>3. TypeOK /\ HookInv /\ ToggleInv /\ [Next]_vars => HookInv' /\ ToggleInv'
  BY HookInvNext, ToggleInvNext
<1> QED
  BY <1>1, <1>2, <1>3, LoopTypeCorrect, PTL DEF Spec

-----------------------------------------------------------------------------
(* Counters. *)

\* Inside an iteration the data iterator is where the counters are, and the number of
\* microbatches is the one these ask for.
ScheduleInv ==
    /\ CountersFollowSchedule
    /\ pc \in {"top", "skip", "eval", "hash", "decide", "exit"} => drawn = consumed
    /\ pc = "skip" => microbatches = NumMicrobatches(consumed)

\* A step takes the job from one position to the next.
LEMMA PositionAdvances ==
    ASSUME NEW n \in Nat
    PROVE  /\ Position(0) = 0 /\ Position(n) \in Nat
           /\ Position(n + 1) = Position(n) + NumMicrobatches(Position(n))
BY LoopConstants DEF LoopConstants, Position, NumMicrobatches

LEMMA ScheduleInvInit == Init => ScheduleInv
BY PositionAdvances DEF Init, ScheduleInv, CountersFollowSchedule

LEMMA ScheduleInvNext == LoopInv /\ ScheduleInv /\ [Next]_vars => ScheduleInv'
<1> SUFFICES ASSUME TypeOK, InLoop, ScheduleInv, [Next]_vars PROVE ScheduleInv'
  BY DEF LoopInv
<1>1. /\ disk \in [Kinds -> [step : 0 .. TrainIters, consumed : Nat]]
      /\ step \in Nat /\ consumed \in Nat
  BY DEF TypeOK
<1>k. "persistent" \in Kinds /\ "nonPersistent" \in Kinds
  BY DEF Kinds
<1>p. \A k \in Kinds : disk[k].consumed = Position(disk[k].step)
  BY DEF ScheduleInv, CountersFollowSchedule
\* A save keeps a position.
<1>2. ASSUME NEW kind \in Kinds, SaveAs(kind) \/ SaveNothing, pc # "start"
      PROVE  \A k \in Kinds : disk'[k].consumed = Position(disk'[k].step)
  <2>1. consumed = Position(step)
    BY <1>2 DEF ScheduleInv, CountersFollowSchedule
  <2> QED BY <2>1, <1>1, <1>2, <1>p DEF SaveAs, SaveNothing
\* An action that is not a step leaves the counters.
<1>q. ASSUME \A k \in Kinds : disk'[k].consumed = Position(disk'[k].step),
             UNCHANGED <<step, consumed>>, pc # "start",
             pc' \in {"top", "skip", "eval", "hash", "decide", "exit"} =>
                 UNCHANGED drawn /\ pc \in {"top", "skip", "eval", "hash", "decide", "exit"},
             pc' = "skip" => microbatches' = NumMicrobatches(consumed)
      PROVE  ScheduleInv'
  BY <1>q DEF ScheduleInv, CountersFollowSchedule
\* A step, run or skipped.
<1>s. ASSUME pc = "skip", pc' \in {"top", "eval"}, UNCHANGED disk,
             step' = step + 1, consumed' = consumed + microbatches, drawn' = drawn + microbatches
      PROVE  ScheduleInv'
  <2>1. consumed = Position(step) /\ drawn = consumed /\ microbatches = NumMicrobatches(consumed)
    BY <1>s DEF ScheduleInv, CountersFollowSchedule
  <2>2. consumed' = Position(step')
    BY <2>1, <1>1, <1>s, PositionAdvances
  <2> QED BY <2>1, <2>2, <1>s, <1>p DEF ScheduleInv, CountersFollowSchedule
<1>3. CASE StartTraining
  <2>1. Newest.consumed = Position(Newest.step)
    BY <1>p, <1>k DEF Newest
  <2> QED BY <2>1, <1>3, <1>p DEF StartTraining, ScheduleInv, CountersFollowSchedule
<1>4. CASE LoopHead
  BY <1>4, <1>2, <1>q, <1>k DEF LoopHead
<1>5. CASE SkipIteration
  BY <1>5, <1>s DEF SkipIteration
<1>6. ASSUME NEW skippedIter \in BOOLEAN, TrainStep(skippedIter) PROVE ScheduleInv'
  BY <1>6, <1>s DEF TrainStep
<1>7. CASE RerunExit
  BY <1>7, <1>2, <1>q, <1>k DEF RerunExit
<1>8. CASE Evaluate
  BY <1>8, <1>p, <1>q DEF Evaluate, AroundHooks
<1>9. CASE CheckWeightHash
  BY <1>9, <1>p, <1>q DEF CheckWeightHash, AroundHooks
<1>10. CASE SignalExit
  BY <1>10, <1>2, <1>q, <1>k DEF SignalExit
<1>11. CASE RegularSave
  BY <1>11, <1>2, <1>q, <1>k DEF RegularSave
<1>12. CASE DecideExit
  BY <1>12, <1>2, <1>q, <1>k DEF DecideExit
<1>13. CASE StayInLoop
  BY <1>13, <1>p, <1>q DEF StayInLoop
<1>14. CASE EndLoop
  BY <1>14, <1>2, <1>q, <1>k DEF EndLoop
<1>15. CASE CloseHooks
  BY <1>15, <1>p, <1>q DEF CloseHooks
<1>16. CASE SignalArrives
  BY <1>16 DEF SignalArrives, ScheduleInv, CountersFollowSchedule
<1>17. CASE Restart
  BY <1>17, <1>p DEF Restart, ScheduleInv, CountersFollowSchedule
<1>18. CASE UNCHANGED vars
  BY <1>18 DEF vars, ScheduleInv, CountersFollowSchedule
<1> QED
  BY <1>3, <1>4, <1>5, <1>6, <1>7, <1>8, <1>9, <1>10, <1>11, <1>12, <1>13, <1>14,
     <1>15, <1>16, <1>17, <1>18 DEF Next, Run

\* Whatever is skipped, saved, interrupted and resumed, a run is where one that never
\* stopped would be after as many steps, and so is every checkpoint.
THEOREM CountersKept == Spec => []CountersFollowSchedule
<1>1. ScheduleInv => CountersFollowSchedule
  BY DEF ScheduleInv
<1> QED
  BY <1>1, LoopInvInit, LoopInvNext, ScheduleInvInit, ScheduleInvNext, PTL DEF Spec

-----------------------------------------------------------------------------
(* Signals. *)

\* All steps between a signal and the last one were skipped, and so was the last one
\* where the next decision is still to come.
SignalInv ==
    signalAt # NoSignal =>
        /\ \A s \in signalAt + 1 .. step - 1 : s \in IterationsToSkip
        /\ pc \in {"top", "skip", "exit"} =>
               \A s \in signalAt + 1 .. step : s \in IterationsToSkip

LEMMA SignalInvNext == LoopInv /\ SignalInv /\ [Next]_vars => SignalInv'
<1> SUFFICES ASSUME TypeOK, SignalInv, [Next]_vars PROVE SignalInv'
  BY DEF LoopInv
<1>1. step \in Nat /\ (signalAt # NoSignal => signalAt \in Nat)
  BY DEF TypeOK
\* No action but those of a step, a signal and a decision matters.
<1>q. ASSUME UNCHANGED <<step, signalAt>>,
             pc' \in {"top", "skip", "exit"} => pc \in {"top", "skip", "exit"}
      PROVE  SignalInv'
  BY <1>q DEF SignalInv
<1>3. CASE StartTraining
  BY <1>3 DEF StartTraining, SignalInv
<1>4. CASE LoopHead
  BY <1>4, <1>q DEF LoopHead
<1>5. CASE SkipIteration
  <2>1. pc = "skip" /\ step' = step + 1 /\ step + 1 \in IterationsToSkip /\ signalAt' = signalAt
    BY <1>5 DEF SkipIteration
  <2> QED BY <2>1, <1>1 DEF SignalInv
<1>6. ASSUME NEW skippedIter \in BOOLEAN, TrainStep(skippedIter) PROVE SignalInv'
  <2>1. pc = "skip" /\ pc' = "eval" /\ step' = step + 1 /\ signalAt' = signalAt
    BY <1>6 DEF TrainStep
  <2> QED BY <2>1, <1>1 DEF SignalInv
<1>7. CASE RerunExit
  BY <1>7, <1>q DEF RerunExit
<1>8. CASE Evaluate
  BY <1>8, <1>q DEF Evaluate, AroundHooks
<1>9. CASE CheckWeightHash
  BY <1>9, <1>q DEF CheckWeightHash, AroundHooks
<1>10. CASE SignalExit
  BY <1>10, <1>q DEF SignalExit
<1>11. CASE RegularSave
  BY <1>11 DEF RegularSave, SignalSeen, SignalInv
<1>12. CASE DecideExit
  BY <1>12, <1>q DEF DecideExit
<1>13. CASE StayInLoop
  BY <1>13, <1>q DEF StayInLoop
<1>14. CASE EndLoop
  BY <1>14, <1>q DEF EndLoop
<1>15. CASE CloseHooks
  BY <1>15, <1>q DEF CloseHooks
<1>16. CASE SignalArrives
  BY <1>16, <1>1 DEF SignalArrives, SignalInv
<1>17. CASE Restart
  BY <1>17, <1>q DEF Restart
<1>18. CASE UNCHANGED vars
  BY <1>18, <1>q DEF vars
<1> QED
  BY <1>3, <1>4, <1>5, <1>6, <1>7, <1>8, <1>9, <1>10, <1>11, <1>12, <1>13, <1>14,
     <1>15, <1>16, <1>17, <1>18 DEF Next, Run

\* After an exit signal, at any instant, at most one more step is run, however many are
\* skipped.
THEOREM SignalSeenInTime == Spec => []SignalStopsTraining
<1>1. LoopInv /\ SignalInv => SignalStopsTraining
  <2> SUFFICES ASSUME TypeOK, SignalInv, signalAt # NoSignal
               PROVE  Cardinality({s \in signalAt + 1 .. step : s \notin IterationsToSkip}) <= 1
    BY DEF LoopInv, SignalStopsTraining
  <2>1. step \in Nat /\ signalAt \in Nat
    BY DEF TypeOK
  <2>2. {s \in signalAt + 1 .. step : s \notin IterationsToSkip} \in SUBSET {step}
    BY <2>1 DEF SignalInv
  <2>3. IsFiniteSet({step}) /\ Cardinality({step}) = 1
    BY FS_Singleton
  <2> HIDE DEF SignalInv
  <2> QED BY <2>2, <2>3, FS_Subset
<1>2. Init => SignalInv
  BY DEF Init, SignalInv
<1> QED
  BY <1>1, <1>2, LoopInvInit, LoopInvNext, SignalInvNext, PTL DEF Spec

-----------------------------------------------------------------------------
(* What is on disk when a run ends. *)

\* No checkpoint is ahead of the run that would have to write it, and a run that has
\* saved its step, or has decided to exit, has that step in the newest one.
ExitInv ==
    /\ exit # "no" => pc \in {"close", "done", "raised", "start"}
    /\ pc # "start" => \A k \in Kinds : disk[k].step <= step
    /\ (pc = "exit" /\ saved) \/ (pc \in {"close", "done"} /\ exit = "decided") =>
          Newest.step = step

OnInterval(s) == SaveInterval \notin {Unset, 0} /\ s % SaveInterval = 0

\* The last step is not left to an interval save that a skipped iteration leaves out.
LastStepSaved == OnInterval(TrainIters) => TrainIters \notin IterationsToSkip

\* Non-persistent checkpoints are never of a step that the save interval covers, so that a
\* run which resumes from its last step, if on the interval, has it in a persistent one.
CompletedInv ==
    /\ disk["nonPersistent"].step # 0 => ~OnInterval(disk["nonPersistent"].step)
    /\ \/ pc \in {"top", "exit"} /\ step = TrainIters /\ OnInterval(step)
       \/ pc \in {"close", "done"} /\ exit = "no" /\ SaveInterval # 0
       => disk["persistent"].step = step

LEMMA ExitInvInit == Init => ExitInv
BY DEF Init, ExitInv

LEMMA ExitInvNext == LoopInv /\ ExitInv /\ [Next]_vars => ExitInv'
<1> SUFFICES ASSUME TypeOK, InLoop, ExitInv, [Next]_vars PROVE ExitInv'
  BY DEF LoopInv
<1>1. /\ disk \in [Kinds -> [step : 0 .. TrainIters, consumed : Nat]]
      /\ \A k \in Kinds : disk[k].step \in Nat
      /\ step \in Nat
  BY DEF TypeOK
<1>k. "persistent" \in Kinds /\ "nonPersistent" \in Kinds
      /\ \A k \in Kinds : k = "persistent" \/ k = "nonPersistent"
  BY DEF Kinds
\* A save leaves the newest checkpoint at the step of the run.
<1>2. ASSUME NEW kind \in Kinds, SaveAs(kind), step' = step, pc # "start"
      PROVE  /\ \A k \in Kinds : disk'[k].step <= step'
             /\ Newest'.step = step'
  <2>1. \A k \in Kinds : disk'[k].step = IF k = kind THEN step ELSE disk[k].step
    BY <1>1, <1>2 DEF SaveAs
  <2>2. \A k \in Kinds : disk'[k].step <= step
    BY <2>1, <1>1, <1>2 DEF ExitInv
  <2>3. Newest'.step = IF disk'["nonPersistent"].step >= disk'["persistent"].step
                       THEN disk'["nonPersistent"].step ELSE disk'["persistent"].step
    BY DEF Newest
  <2>4. kind = "persistent" \/ kind = "nonPersistent"
    BY <1>k
  <2> QED BY <1>2, <2>1, <2>2, <2>3, <2>4, <1>1, <1>k
<1>n. UNCHANGED disk => Newest' = Newest
  BY DEF Newest
\* Inside the loop.
<1>q. ASSUME pc # "start", exit' = exit, \A k \in Kinds : disk'[k].step <= step',
             exit = "no", pc' \notin {"exit", "start"}
      PROVE  ExitInv'
  BY <1>q DEF ExitInv
<1>3. CASE StartTraining
  <2>1. step' = Newest.step /\ exit' = "no" /\ pc' = "top" /\ disk' = disk
    BY <1>3 DEF StartTraining
  <2>2. \A k \in Kinds : disk[k].step <= Newest.step
    BY <1>1, <1>k DEF Newest
  <2> QED BY <2>1, <2>2 DEF ExitInv
<1>4. CASE LoopHead
  <2>1. \A k \in Kinds : disk'[k].step <= step'
    BY <1>4, <1>2, <1>k DEF LoopHead, SaveNothing, ExitInv
  <2> QED BY <2>1, <1>4, <1>q DEF LoopHead, ExitInv
<1>s. ASSUME pc = "skip", UNCHANGED <<disk, exit>>, step' = step + 1, pc' \in {"top", "eval"}
      PROVE  ExitInv'
  <2>1. \A k \in Kinds : disk[k].step <= step + 1
    BY <1>s, <1>1 DEF ExitInv
  <2> QED BY <2>1, <1>s, <1>q DEF ExitInv
<1>5. CASE SkipIteration
  BY <1>5, <1>s DEF SkipIteration
<1>6. ASSUME NEW skippedIter \in BOOLEAN, TrainStep(skippedIter) PROVE ExitInv'
  BY <1>6, <1>s DEF TrainStep
<1>7. CASE RerunExit
  <2>1. \A k \in Kinds : disk'[k].step <= step'
    BY <1>7, <1>2, <1>k DEF RerunExit, SaveNothing, ExitInv
  <2> QED BY <2>1, <1>7 DEF RerunExit, ExitInv
<1>8. CASE Evaluate
  BY <1>8, <1>q DEF Evaluate, AroundHooks, ExitInv
<1>9. CASE CheckWeightHash
  BY <1>9, <1>q DEF CheckWeightHash, AroundHooks, ExitInv
<1>10. CASE SignalExit
  BY <1>10, <1>2, <1>k DEF SignalExit, ExitInv
<1>11. CASE RegularSave
  <2>1. pc = "decide" /\ pc' = "exit" /\ step' = step /\ exit' = exit /\ exit = "no"
    BY <1>11 DEF RegularSave, ExitInv
  <2>2. CASE SaveAs("persistent") \/ SaveAs("nonPersistent")
    BY <2>1, <2>2, <1>2, <1>k DEF ExitInv
  <2>3. CASE ~saved' /\ SaveNothing
    BY <2>1, <2>3 DEF ExitInv, SaveNothing
  <2> QED BY <1>11, <2>2, <2>3 DEF RegularSave
<1>12. CASE DecideExit
  <2>1. CASE saved
    <3>1. pc = "exit" /\ pc' = "close" /\ step' = step /\ disk' = disk
      BY <1>12, <2>1 DEF DecideExit, SaveNothing
    <3>2. Newest.step = step
      BY <3>1, <2>1 DEF ExitInv
    <3>3. Newest' = Newest
      BY <3>1, <1>n
    <3> QED BY <3>1, <3>2, <3>3 DEF ExitInv
  <2>2. CASE ~saved
    BY <1>12, <2>2, <1>2, <1>k DEF DecideExit, ExitInv
  <2> QED BY <2>1, <2>2
<1>13. CASE StayInLoop
  BY <1>13, <1>q DEF StayInLoop, ExitInv
<1>14. CASE EndLoop
  <2>1. \A k \in Kinds : disk'[k].step <= step'
    BY <1>14, <1>2, <1>k DEF EndLoop, SaveNothing, ExitInv
  <2> QED BY <2>1, <1>14, <1>q DEF EndLoop, ExitInv
<1>15. CASE CloseHooks
  BY <1>15, <1>n DEF CloseHooks, ExitInv
<1>16. CASE SignalArrives
  BY <1>16, <1>n DEF SignalArrives, ExitInv
<1>17. CASE Restart
  BY <1>17 DEF Restart, ExitInv
<1>18. CASE UNCHANGED vars
  BY <1>18, <1>n DEF vars, ExitInv
<1> QED
  BY <1>3, <1>4, <1>5, <1>6, <1>7, <1>8, <1>9, <1>10, <1>11, <1>12, <1>13, <1>14,
     <1>15, <1>16, <1>17, <1>18 DEF Next, Run

\* Whatever makes a run exit, a signal, the duration, exit_interval or straggler detection,
\* the next one resumes from the step it had reached.
THEOREM ExitsKeepProgress == Spec => []ExitKeepsProgress
<1>1. ExitInv => ExitKeepsProgress
  BY DEF ExitInv, ExitKeepsProgress
<1> QED
  BY <1>1, LoopInvInit, LoopInvNext, ExitInvInit, ExitInvNext, PTL DEF Spec

LEMMA CompletedInvInit == Init => CompletedInv
BY LoopConstants DEF Init, CompletedInv, LoopConstants, Kinds

LEMMA CompletedInvNext ==
    ASSUME LastStepSaved
    PROVE  LoopInv /\ ExitInv /\ CompletedInv /\ [Next]_vars => CompletedInv'
<1> SUFFICES ASSUME TypeOK, InLoop, ExitInv, CompletedInv, [Next]_vars PROVE CompletedInv'
  BY DEF LoopInv
<1>1. /\ disk \in [Kinds -> [step : 0 .. TrainIters, consumed : Nat]]
      /\ \A k \in Kinds : disk[k].step \in 0 .. TrainIters
      /\ step \in 0 .. TrainIters /\ TrainIters \in Nat \ {0}
  BY LoopConstants DEF TypeOK, LoopConstants
<1>k. "persistent" \in Kinds /\ "nonPersistent" \in Kinds
  BY DEF Kinds
\* A persistent save.
<1>2. ASSUME SaveAs("persistent"), step' = step
      PROVE  CompletedInv'
  BY <1>1, <1>2, <1>k DEF SaveAs, CompletedInv, OnInterval
\* An action that neither saves nor steps, nor comes to where the last step counts.
<1>q. ASSUME UNCHANGED <<disk, step>>,
             pc' \in {"top", "exit"} /\ step = TrainIters => pc \in {"top", "exit"},
             pc' \in {"close", "done"} /\ exit' = "no" => pc \in {"close", "done"} /\ exit = "no"
      PROVE  CompletedInv'
  BY <1>q DEF CompletedInv, OnInterval
<1>3. CASE StartTraining
  <2>1. step' = Newest.step /\ pc' = "top" /\ UNCHANGED disk
    BY <1>3 DEF StartTraining
  <2>2. step' = TrainIters /\ OnInterval(step') => disk["persistent"].step = step'
    BY <2>1, <1>1, <1>k DEF Newest, CompletedInv
  <2> QED BY <2>1, <2>2 DEF CompletedInv, OnInterval
<1>4. CASE LoopHead
  BY <1>4, <1>2, <1>q DEF LoopHead, SaveNothing
<1>5. CASE SkipIteration
  <2>1. pc' = "top" /\ step' = step + 1 /\ step' \in IterationsToSkip /\ UNCHANGED disk
    BY <1>5 DEF SkipIteration
  <2> QED BY <2>1 DEF CompletedInv, OnInterval, LastStepSaved
<1>6. ASSUME NEW skippedIter \in BOOLEAN, TrainStep(skippedIter) PROVE CompletedInv'
  BY <1>6 DEF TrainStep, CompletedInv, OnInterval
<1>7. CASE RerunExit
  BY <1>7, <1>2, <1>q DEF RerunExit, SaveNothing
<1>8. CASE Evaluate
  BY <1>8, <1>q DEF Evaluate, AroundHooks
<1>9. CASE CheckWeightHash
  BY <1>9, <1>q DEF CheckWeightHash, AroundHooks
<1>10. CASE SignalExit
  BY <1>10, <1>2 DEF SignalExit
<1>11. CASE RegularSave
  <2>1. pc' = "exit" /\ step' = step
    BY <1>11 DEF RegularSave
  <2>2. CASE PersistentDue
    BY <1>11, <2>2, <1>2 DEF RegularSave
  <2>3. CASE ~PersistentDue
    <3>1. ~OnInterval(step)
      BY <2>3 DEF PersistentDue, Due, OnInterval
    <3>2. SaveAs("nonPersistent") \/ SaveNothing
      BY <1>11, <2>3 DEF RegularSave
    <3>3. disk'["nonPersistent"].step \in {step, disk["nonPersistent"].step}
      BY <3>2, <1>1, <1>k DEF SaveAs, SaveNothing
    <3> QED BY <2>1, <3>1, <3>3 DEF CompletedInv, OnInterval
  <2> QED BY <2>2, <2>3
<1>12. CASE DecideExit
  BY <1>12, <1>2, <1>q DEF DecideExit, SaveNothing
<1>13. CASE StayInLoop
  BY <1>13, <1>q DEF StayInLoop
<1>14. CASE EndLoop
  <2>1. pc = "top" /\ pc' = "close" /\ step = TrainIters /\ UNCHANGED <<step, exit>>
    BY <1>14, <1>1 DEF EndLoop
  <2>2. CASE FinalSaveDue
    BY <1>14, <2>1, <2>2, <1>2 DEF EndLoop
  <2>3. CASE ~FinalSaveDue
    <3>1. UNCHANGED disk
      BY <1>14, <2>3 DEF EndLoop, SaveNothing
    <3>2. SaveInterval # 0 => OnInterval(step)
      BY <2>1, <2>3, <1>1 DEF FinalSaveDue, OnInterval
    <3> QED BY <2>1, <3>1, <3>2 DEF CompletedInv, OnInterval
  <2> QED BY <2>2, <2>3
<1>15. CASE CloseHooks
  BY <1>15, <1>q DEF CloseHooks
<1>16. CASE SignalArrives
  BY <1>16, <1>q DEF SignalArrives
<1>17. CASE Restart
  BY <1>17, <1>q DEF Restart
<1>18. CASE UNCHANGED vars
  BY <1>18, <1>q DEF vars
<1> QED
  BY <1>3, <1>4, <1>5, <1>6, <1>7, <1>8, <1>9, <1>10, <1>11, <1>12, <1>13, <1>14,
     <1>15, <1>16, <1>17, <1>18 DEF Next, Run

\* A run that reaches its last step has it in a persistent checkpoint, also when it was
\* resumed there, unless the last step is on the save interval and its iteration is skipped
\* (then neither the interval save nor the final one is made).
THEOREM CompletedRunsPersisted ==
    ASSUME LastStepSaved
    PROVE  Spec => []CompletedRunPersisted
<1>1. CompletedInv => CompletedRunPersisted
  BY DEF CompletedInv, CompletedRunPersisted
<1>2. LoopInv /\ ExitInv /\ CompletedInv /\ [Next]_vars => LoopInv' /\ ExitInv' /\ CompletedInv'
  BY LoopInvNext, ExitInvNext, CompletedInvNext
<1> QED
  BY <1>1, <1>2, LoopInvInit, ExitInvInit, CompletedInvInit, PTL DEF Spec

=============================================================================
