------------------------ MODULE DurableProgress_proofs ------------------------
(***************************************************************************)
(* CheckpointStore implements DurableProgress, whatever the ranks, the     *)
(* intervals, retention and the kinds of saves, as long as no crash tears  *)
(* a tracker file.                                                         *)
(***************************************************************************)
EXTENDS CheckpointStore_proofs

\* Where a save is not durable yet.
Saving == {"loader", "open", "write", "trainState", "tracker"}

\* What is tracked is behind every save that is pending, and those are in the order in
\* which they will be finalised, the one that is being finalised first.
PendingAhead ==
    /\ \A k \in Kinds : tracker[k] # Torn
    /\ pc # "down" => NewestTracked <= step
    /\ \A i \in 1 .. Len(queue) :
          /\ NewestTracked <= queue[i].step /\ queue[i].step <= step
          /\ \A j \in i .. Len(queue) : queue[i].step <= queue[j].step
    /\ pc \in {"loader", "open"} => cur.step = step
    /\ pc \in {"write", "trainState", "tracker"} =>
          /\ NewestTracked <= cur.step /\ cur.step <= step
          /\ \A i \in 1 .. Len(queue) : cur.step <= queue[i].step

\* The step the job has reached is durable, or will be once what is pending is.
Covered ==
    \/ NewestTracked = step
    \/ \E i \in 1 .. Len(queue) : queue[i].step = step
    \/ pc \in Saving /\ cur.step = step

\* It is covered once the loop is left, and before that on every step of the save
\* interval that checkpoint_and_decide_exit has seen.
LastStepCovered ==
    /\ pc \in {"top", "decide"} => ~exiting
    /\ pc \notin {"down", "decide"} /\ (exiting \/ IntervalReached(SaveInterval)) => Covered
    /\ pc = "drain" => exiting

DurableInv == PendingAhead /\ LastStepCovered

\* The newest tracked step is the greater of the two.
LEMMA NewestIsGreatest ==
    ASSUME TypeOK, \A k \in Kinds : tracker[k] # Torn
    PROVE  /\ NewestTracked \in Nat
           /\ NewestTracked \in {tracker[k] : k \in Kinds}
           /\ \A k \in Kinds : tracker[k] <= NewestTracked
<1>1. \A k \in Kinds : tracker[k] \in Nat
  BY ConstantsAssumption DEF ConstantsAssumption, TypeOK, Steps, None
<1> QED BY <1>1 DEF NewestTracked, Kinds

\* A well-typed state in integers.
LEMMA PendingTypes ==
    ASSUME TypeInv, PendingAhead
    PROVE  /\ step \in Nat /\ NewestTracked \in Nat /\ cur.step \in Nat
           /\ Len(queue) \in Nat
           /\ \A i \in 1 .. Len(queue) : queue[i].step \in Nat
<1>1. \A s \in Steps : s \in Nat
  BY ConstantsAssumption DEF ConstantsAssumption, Steps
<1>2. step \in Nat /\ cur.step \in Nat
  BY <1>1 DEF TypeInv, TypeOK, Save, None
<1>3. NewestTracked \in Nat
  BY NewestIsGreatest DEF TypeInv, PendingAhead
<1>4. \A i \in 1 .. Len(queue) : queue[i].step \in Nat
  BY <1>1, StepTypes DEF TypeInv
<1>5. Len(queue) \in Nat
  BY DEF TypeInv, TypeOK
<1> QED BY <1>2, <1>3, <1>4, <1>5

\* The memo of a process that is starting is empty: the load reads the files.
LEMMA LoadReadsTrackers ==
    ASSUME TypeInv, Load
    PROVE  step' = NewestTracked
<1>1. \A k \in Kinds : ReadTrainState(k) = tracker[k] /\ tracker[k] # Torn
  BY DEF TypeInv, Load, ReadTrainState, NoCache
<1> DEFINE read == [k \in Kinds |-> ReadTrainState(k)]
<1>2. read["persistent"] = tracker["persistent"] /\ read["nonPersistent"] = tracker["nonPersistent"]
  BY <1>1 DEF Kinds
<1>3. step' = read[SelectedKind(read)]
  BY DEF Load
<1> HIDE DEF read
<1>4. \A k \in Kinds : tracker[k] \in Nat
  BY <1>1, ConstantsAssumption DEF ConstantsAssumption, TypeInv, TypeOK, Steps, None
<1>5. tracker["persistent"] \in Nat /\ tracker["nonPersistent"] \in Nat
  BY <1>4 DEF Kinds
<1> QED BY <1>2, <1>3, <1>5 DEF SelectedKind, NewestTracked, None

\* The tracker moves forward, to the step of the save that is being finalised.
LEMMA TrackerMovesForward ==
    ASSUME TypeInv, PendingAhead, WriteTracker
    PROVE  /\ NewestTracked' = cur.step
           /\ \A k \in Kinds : tracker'[k] # Torn
<1>1. /\ cur.kind \in Kinds /\ cur.step \in Steps
      /\ tracker' = [tracker EXCEPT ![cur.kind] = cur.step]
      /\ tracker \in [Kinds -> Steps \cup {None, Torn}]
      /\ NewestTracked <= cur.step
  BY DEF TypeInv, TypeOK, Save, WriteTracker, PendingAhead
<1>2. /\ cur.step \in Nat /\ cur.step # Torn /\ NewestTracked \in Nat
      /\ \A k \in Kinds : tracker[k] \in Nat /\ tracker[k] # Torn /\ tracker[k] <= NewestTracked
  <2>1. \A k \in Kinds : tracker[k] # Torn /\ tracker[k] <= NewestTracked
    BY NewestIsGreatest DEF TypeInv, PendingAhead
  <2>2. \A k \in Kinds : tracker[k] \in Nat
    BY <1>1, <2>1, ConstantsAssumption DEF ConstantsAssumption, Steps, None
  <2> QED BY <2>1, <2>2, PendingTypes DEF Torn
<1>3. \A k \in Kinds : tracker'[k] = IF k = cur.kind THEN cur.step ELSE tracker[k]
  BY <1>1
<1>4. \A k \in Kinds : tracker[k] <= cur.step
  BY <1>1, <1>2
<1>5. NewestTracked' = IF tracker'["persistent"] >= tracker'["nonPersistent"]
                       THEN tracker'["persistent"] ELSE tracker'["nonPersistent"]
  BY DEF NewestTracked
<1>6. cur.kind = "persistent" \/ cur.kind = "nonPersistent"
  BY <1>1 DEF Kinds
<1>7. NewestTracked' = cur.step
  BY <1>2, <1>3, <1>4, <1>5, <1>6 DEF Kinds
<1> QED BY <1>2, <1>3, <1>7

LEMMA DurableInvInit == Init => DurableInv
BY DEF Init, DurableInv, PendingAhead, LastStepCovered, Covered, NewestTracked, Kinds, None, Torn,
       IntervalReached

LEMMA DurableInvNext ==
    ASSUME ~TornTracker, TypeInv, StoreInv, DurableInv, [Next]_vars
    PROVE  DurableInv'
<1>t. /\ step \in Nat /\ NewestTracked \in Nat /\ cur.step \in Nat /\ Len(queue) \in Nat
      /\ \A i \in 1 .. Len(queue) : queue[i].step \in Nat
  BY PendingTypes DEF DurableInv
<1>q. queue \in Seq(AsyncCall)
  BY DEF TypeInv, TypeOK
<1>inv. PendingAhead /\ LastStepCovered /\ SyncInv
  BY DEF DurableInv, StoreInv
<1>n. tracker' = tracker => NewestTracked' = NewestTracked
  BY DEF NewestTracked
<1>i. step' = step => IntervalReached(SaveInterval)' = IntervalReached(SaveInterval)
  BY DEF IntervalReached
<1>1. CASE Load
  <2>1. /\ step' = NewestTracked /\ NewestTracked' = NewestTracked
        /\ pc' = "top" /\ ~exiting' /\ queue' = <<>>
        /\ UNCHANGED tracker
    BY <1>1, <1>n, <1>inv, LoadReadsTrackers DEF Load, disk, TypeInv
  <2> QED BY <2>1, <1>inv, <1>t DEF DurableInv, PendingAhead, LastStepCovered, Covered
<1>2. CASE FinalizeHead
  <2>1. /\ queue # <<>> /\ cur'.step = queue[1].step /\ pc' = "trainState" /\ pc \in {"top", "drain"}
        /\ queue' = Tail(queue)
        /\ UNCHANGED <<tracker, step, exiting>>
    BY <1>2 DEF FinalizeHead, HeadDone, disk
  <2>2. /\ Len(queue') = Len(queue) - 1 /\ Len(queue) >= 1
        /\ \A i \in 1 .. Len(queue') : i + 1 \in 1 .. Len(queue) /\ queue'[i] = queue[i + 1]
    BY <2>1, <1>q
  <2>3. PendingAhead'
    <3>1. /\ NewestTracked <= queue[1].step /\ queue[1].step <= step
          /\ \A j \in 1 .. Len(queue) : queue[1].step <= queue[j].step
      BY <2>2, <1>t, <1>inv DEF PendingAhead
    <3>2. ASSUME NEW i \in 1 .. Len(queue')
          PROVE  /\ NewestTracked <= queue'[i].step /\ queue'[i].step <= step
                 /\ queue[1].step <= queue'[i].step
                 /\ \A j \in i .. Len(queue') : queue'[i].step <= queue'[j].step
      <4>1. i + 1 \in 1 .. Len(queue) /\ queue'[i] = queue[i + 1]
        BY <2>2
      <4>2. \A j \in i .. Len(queue') : j + 1 \in i + 1 .. Len(queue) /\ queue'[j] = queue[j + 1]
        BY <2>2, <1>t
      <4> QED BY <3>1, <4>1, <4>2, <1>inv DEF PendingAhead
    <3> QED BY <2>1, <3>1, <3>2, <1>n, <1>inv DEF PendingAhead
  <2>4. Covered => Covered'
    <3>1. ASSUME NEW i \in 1 .. Len(queue), queue[i].step = step
          PROVE  cur'.step = step \/ \E j \in 1 .. Len(queue') : queue'[j].step = step
      <4>1. i = 1 \/ (i - 1 \in 1 .. Len(queue') /\ queue'[i - 1] = queue[i])
        BY <2>2, <1>t
      <4> QED BY <2>1, <3>1, <4>1
    <3> QED BY <2>1, <3>1, <1>n DEF Covered, Saving
  <2> QED BY <2>1, <2>3, <2>4, <1>i, <1>inv DEF DurableInv, LastStepCovered
<1>3. CASE TrainStep
  <2>1. /\ step' = step + 1 /\ pc = "top" /\ pc' = "decide"
        /\ UNCHANGED <<tracker, queue, exiting>>
    BY <1>3 DEF TrainStep, disk
  <2> QED BY <2>1, <1>n, <1>t, <1>inv DEF DurableInv, PendingAhead, LastStepCovered
<1>4. CASE SignalSave \/ IntervalSave \/ NonPersistentSave
  <2>1. /\ cur'.step = step /\ pc' \in {"loader", "open"} /\ pc = "decide"
        /\ UNCHANGED <<tracker, queue, step>>
    BY <1>4 DEF SignalSave, IntervalSave, NonPersistentSave, BeginSave, disk
  <2> QED BY <2>1, <1>n, <1>t, <1>inv DEF DurableInv, PendingAhead, LastStepCovered, Covered, Saving
<1>5. CASE NoSave
  <2>1. /\ pc = "decide" /\ pc' = "top" /\ ~IntervalReached(SaveInterval)
        /\ UNCHANGED <<tracker, queue, step, cur, exiting>>
    BY <1>5 DEF NoSave, disk
  <2> QED BY <2>1, <1>n, <1>i, <1>inv DEF DurableInv, PendingAhead, LastStepCovered
<1>6. CASE EndLoop
  <2>1. /\ pc = "top" /\ exiting'
        /\ \/ pc' = "drain" /\ IntervalReached(SaveInterval)
           \/ pc' \in {"loader", "open"} /\ cur'.step = step
        /\ UNCHANGED <<tracker, queue, step>>
    BY <1>6 DEF EndLoop, BeginSave, disk
  <2> QED BY <2>1, <1>n, <1>i, <1>t, <1>inv DEF DurableInv, PendingAhead, LastStepCovered, Covered, Saving
<1>7. CASE SaveLoaderState
  <2>1. /\ pc = "loader" /\ pc' = "open"
        /\ UNCHANGED <<tracker, queue, step, cur, exiting>>
    BY <1>7 DEF SaveLoaderState
  <2> QED BY <2>1, <1>n, <1>i, <1>inv DEF DurableInv, PendingAhead, LastStepCovered, Covered, Saving
<1>8. CASE OpenCheckpoint
  <2>1. /\ pc = "open" /\ cur.step = step
        /\ UNCHANGED <<tracker, step, cur, exiting>>
    BY <1>8, <1>inv DEF OpenCheckpoint, PendingAhead
  <2>2. CASE AsyncSave
    <3> DEFINE call == [kind |-> cur.kind, step |-> cur.step, written |-> {}]
    <3>1. /\ queue' = Append(queue, call) /\ call.step = step
          /\ pc' = IF exiting THEN "drain" ELSE "top"
      BY <1>8, <2>1, <2>2 DEF OpenCheckpoint, Continue
    <3> HIDE DEF call
    <3>2. /\ Len(queue') = Len(queue) + 1 /\ queue'[Len(queue')].step = step
          /\ \A i \in 1 .. Len(queue) : queue'[i] = queue[i]
      BY <3>1, <1>q
    <3>3. PendingAhead'
      <4>1. ASSUME NEW i \in 1 .. Len(queue')
            PROVE  /\ NewestTracked <= queue'[i].step /\ queue'[i].step <= step
                   /\ \A j \in i .. Len(queue') : queue'[i].step <= queue'[j].step
        <5>1. CASE i = Len(queue')
          BY <2>1, <3>2, <5>1, <1>inv, <1>t DEF PendingAhead
        <5>2. CASE i # Len(queue')
          <6>1. i \in 1 .. Len(queue) /\ queue'[i] = queue[i]
            BY <3>2, <5>2, <1>t
          <6>2. \A j \in i .. Len(queue') : j = Len(queue') \/ (j \in i .. Len(queue) /\ queue'[j] = queue[j])
            BY <3>2, <6>1, <1>t
          <6> QED BY <3>2, <6>1, <6>2, <1>inv DEF PendingAhead
        <5> QED BY <5>1, <5>2
      <4> QED BY <2>1, <3>1, <4>1, <1>n, <1>inv DEF PendingAhead
    <3>4. Covered'
      <4>1. Len(queue') \in 1 .. Len(queue')
        BY <3>2, <1>t
      <4> QED BY <2>1, <3>2, <4>1 DEF Covered
    <3> QED BY <2>1, <3>1, <3>3, <3>4 DEF DurableInv, LastStepCovered
  <2>3. CASE ~AsyncSave
    <3>1. pc' = "write" /\ queue' = queue /\ queue = <<>>
      BY <1>8, <2>3, <1>inv DEF OpenCheckpoint, SyncInv
    <3> QED BY <2>1, <3>1, <1>n, <1>t, <1>inv
            DEF DurableInv, PendingAhead, LastStepCovered, Covered, Saving
  <2> QED BY <2>2, <2>3
<1>9. CASE (\E r \in Ranks : WriteFiles(r)) \/ (\E d \in Dirs : Rmtree(d)) \/ UNCHANGED vars
  <2>1. UNCHANGED <<pc, tracker, queue, step, cur, exiting>>
    BY <1>9 DEF WriteFiles, Rmtree, process, vars
  <2> QED BY <2>1, <1>n, <1>i, <1>inv DEF DurableInv, PendingAhead, LastStepCovered, Covered, Saving
<1>10. CASE SaveBarrier \/ WriteTrainState
  <2>1. /\ \/ pc = "write" /\ pc' = "trainState"
           \/ pc = "trainState" /\ pc' = "tracker"
        /\ UNCHANGED <<tracker, queue, step, cur, exiting>>
    BY <1>10 DEF SaveBarrier, WriteTrainState, disk
  <2> QED BY <2>1, <1>n, <1>i, <1>inv DEF DurableInv, PendingAhead, LastStepCovered, Covered, Saving
<1>11. CASE \E r \in Ranks : BackgroundWrite(r)
  <2>1. PICK r \in Ranks, n \in 1 .. Len(queue) : queue' = [queue EXCEPT ![n].written = @ \cup {r}]
    BY <1>11 DEF BackgroundWrite
  <2>2. UNCHANGED <<pc, tracker, step, cur, exiting>>
    BY <1>11 DEF BackgroundWrite
  <2>3. /\ Len(queue') = Len(queue)
        /\ \A i \in 1 .. Len(queue) : queue'[i].step = queue[i].step
    <3>1. queue[n] \in AsyncCall
      BY <1>q
    <3>2. [queue[n] EXCEPT !.written = @ \cup {r}].step = queue[n].step
      BY <3>1 DEF AsyncCall
    <3> QED BY <2>1, <3>2, <1>q
  <2> QED BY <2>2, <2>3, <1>n, <1>i, <1>t, <1>inv
          DEF DurableInv, PendingAhead, LastStepCovered, Covered, Saving
<1>12. CASE WriteTracker
  <2>1. /\ pc = "tracker" /\ pc' = "legacy"
        /\ NewestTracked' = cur.step /\ \A k \in Kinds : tracker'[k] # Torn
        /\ UNCHANGED <<queue, step, cur, exiting>>
    BY <1>12, <1>inv, TrackerMovesForward DEF WriteTracker
  <2>2. PendingAhead'
    BY <2>1, <1>inv DEF PendingAhead
  <2>3. Covered => Covered'
    BY <2>1, <1>inv, <1>t DEF Covered, PendingAhead
  <2> QED BY <2>1, <2>2, <2>3, <1>i, <1>inv DEF DurableInv, LastStepCovered
<1>13. CASE WriteLegacyTracker \/ Publish \/ Cleanup \/ SweepDone
  <2>1. /\ pc \in {"legacy", "publish", "cleanup", "sweep"}
        /\ \/ pc' \in {"publish", "cleanup", "sweep"}
           \/ pc' = IF exiting THEN "drain" ELSE "top"
        /\ UNCHANGED <<tracker, queue, step, cur, exiting>>
    BY <1>13 DEF WriteLegacyTracker, Publish, Cleanup, SweepDone, Continue, disk
  <2> QED BY <2>1, <1>n, <1>i, <1>inv DEF DurableInv, PendingAhead, LastStepCovered, Covered, Saving
<1>14. CASE Finish
  <2>1. /\ pc = "drain" /\ pc' = "done"
        /\ UNCHANGED <<tracker, queue, step, cur, exiting>>
    BY <1>14 DEF Finish, disk
  <2> QED BY <2>1, <1>n, <1>i, <1>inv DEF DurableInv, PendingAhead, LastStepCovered, Covered, Saving
<1>15. CASE Relaunch \/ Crash \/ InProcessRestart
  <2>1. /\ pc' = "down" /\ queue' = <<>>
        /\ UNCHANGED tracker
    BY <1>15 DEF Relaunch, Crash, InProcessRestart, Fault, LoseProcess, disk
  <2> QED BY <2>1, <1>inv DEF DurableInv, PendingAhead, LastStepCovered
<1>16. CASE CrashInTrackerCopy
  BY <1>16 DEF CrashInTrackerCopy
<1> QED
  BY <1>1, <1>2, <1>3, <1>4, <1>5, <1>6, <1>7, <1>8, <1>9, <1>10, <1>11, <1>12, <1>13,
     <1>14, <1>15, <1>16
  DEF Next, Loop, SaveCheckpoint, Finalize

\* Every step of the store is one of DurableProgress, or none.
LEMMA StepImplements ==
    ASSUME ~TornTracker, TypeInv, DurableInv, [Next]_vars
    PROVE  [Promise!DNext]_(Promise!dvars)
<1> USE DEF Promise!DNext, Promise!dvars, Promise!Resume, Promise!Advance, Promise!Commit, Promise!End,
            Promise!Stop
<1>t. /\ step \in Nat /\ NewestTracked \in Nat /\ cur.step \in Nat /\ Len(queue) \in Nat
  BY PendingTypes DEF DurableInv
<1>inv. PendingAhead /\ LastStepCovered
  BY DEF DurableInv
<1>n. tracker' = tracker => NewestTracked' = NewestTracked
  BY DEF NewestTracked
<1>1. CASE Load
  <2>1. step' = NewestTracked /\ pc = "down" /\ pc' = "top" /\ tracker' = tracker
    BY <1>1, <1>inv, LoadReadsTrackers DEF Load, disk
  <2> QED BY <2>1, <1>n
<1>2. CASE TrainStep
  <2>1. pc = "top" /\ pc' = "decide" /\ step < TrainIters /\ step' = step + 1 /\ tracker' = tracker
    BY <1>2 DEF TrainStep, disk
  <2> QED BY <2>1, <1>n
<1>3. CASE WriteTracker
  <2>1. /\ pc = "tracker" /\ pc' = "legacy" /\ step' = step
        /\ NewestTracked' = cur.step /\ NewestTracked <= cur.step /\ cur.step <= step
    BY <1>3, <1>inv, TrackerMovesForward DEF WriteTracker, PendingAhead
  <2> QED BY <2>1, <1>t
<1>4. CASE Finish
  <2>1. pc = "drain" /\ pc' = "done" /\ queue = <<>> /\ step' = step /\ tracker' = tracker
    BY <1>4 DEF Finish, disk
  <2>2. NewestTracked = step
    BY <2>1, <1>inv DEF LastStepCovered, Covered, Saving
  <2> QED BY <2>1, <2>2, <1>n
<1>5. CASE Relaunch \/ Crash \/ InProcessRestart
  <2>1. pc # "down" /\ pc' = "down" /\ step' = 0 /\ tracker' = tracker
    BY <1>5 DEF Relaunch, Crash, InProcessRestart, Fault, LoseProcess, disk, None
  <2> QED BY <2>1, <1>n
<1>6. CASE CrashInTrackerCopy
  BY <1>6 DEF CrashInTrackerCopy
<1>7. CASE SignalSave \/ IntervalSave \/ NonPersistentSave \/ NoSave \/ EndLoop
  <2>1. /\ pc \notin {"down", "done"} /\ pc' \notin {"down", "done"}
        /\ UNCHANGED <<step, tracker>>
    BY <1>7 DEF SignalSave, IntervalSave, NonPersistentSave, NoSave, EndLoop, BeginSave, disk
  <2> QED BY <2>1, <1>n
<1>8. CASE SaveLoaderState \/ OpenCheckpoint \/ SaveBarrier
  <2>1. /\ pc \notin {"down", "done"} /\ pc' \notin {"down", "done"}
        /\ UNCHANGED <<step, tracker>>
    BY <1>8 DEF SaveLoaderState, OpenCheckpoint, SaveBarrier, Continue, disk
  <2> QED BY <2>1, <1>n
<1>9. CASE FinalizeHead \/ WriteTrainState \/ WriteLegacyTracker \/ Publish \/ Cleanup \/ SweepDone
  <2>1. /\ pc \notin {"down", "done"} /\ pc' \notin {"down", "done"}
        /\ UNCHANGED <<step, tracker>>
    BY <1>9 DEF FinalizeHead, WriteTrainState, WriteLegacyTracker, Publish, Cleanup, SweepDone, Continue,
                disk
  <2> QED BY <2>1, <1>n
<1>10. CASE \/ \E r \in Ranks : WriteFiles(r) \/ BackgroundWrite(r)
            \/ \E d \in Dirs : Rmtree(d)
            \/ UNCHANGED vars
  <2>1. UNCHANGED <<pc, step, tracker>>
    BY <1>10 DEF WriteFiles, BackgroundWrite, Rmtree, process, vars
  <2> QED BY <2>1, <1>n
<1> QED
  BY <1>1, <1>2, <1>3, <1>4, <1>5, <1>6, <1>7, <1>8, <1>9, <1>10
  DEF Next, Loop, SaveCheckpoint, Finalize

\* The store keeps the promise of checkpointing: with any number of ranks, saves in flight,
\* intervals and retention, progress is durable only forwards and only as far as the
\* job has got, a restart resumes from exactly that, and a job ends only with its last step
\* durable.
THEOREM StoreKeepsPromise ==
    ASSUME ~TornTracker
    PROVE  Spec => ImplementsDurableProgress
<1> DEFINE Inv == TypeInv /\ LastInv /\ StoreInv /\ DurableInv
<1>1. Init => Inv
  BY TypeInvInit, LastInvInit, StoreInvInit, DurableInvInit
<1>2. Inv /\ [Next]_vars => Inv'
  BY TypeInvNext, LastInvNext, StoreInvNext, DurableInvNext
<1>3. Init => Promise!DInit
  BY DEF Init, Promise!DInit, NewestTracked, Kinds, None
<1>4. Inv /\ [Next]_vars => [Promise!DNext]_(Promise!dvars)
  BY StepImplements
<1> QED
  BY <1>1, <1>2, <1>3, <1>4, PTL DEF Spec, ImplementsDurableProgress, Promise!DurableSpec

\* A restart, after a crash or in the same process, resumes from the newest step that the
\* tracker files name, never from what an earlier invocation has read.
THEOREM RestartReadsNewest == Spec => ResumesNewest
<1>1. TypeInv /\ [Next]_vars => [pc = "down" /\ pc' = "top" => step' = NewestTracked]_vars
  <2> SUFFICES ASSUME TypeInv, [Next]_vars, pc = "down", pc' = "top"
               PROVE  step' = NewestTracked
    OBVIOUS
  <2>1. CASE Load
    BY <2>1, LoadReadsTrackers
  <2>2. CASE TrainStep \/ IntervalSave \/ NonPersistentSave \/ NoSave \/ EndLoop \/ Finish \/ SignalSave
    BY <2>2 DEF TrainStep, IntervalSave, NonPersistentSave, NoSave, EndLoop, Finish, SignalSave
  <2>3. CASE SaveCheckpoint
    BY <2>3 DEF SaveCheckpoint, SaveLoaderState, OpenCheckpoint, SaveBarrier, WriteFiles
  <2>4. CASE Finalize
    BY <2>4 DEF Finalize, FinalizeHead, WriteTrainState, WriteTracker, WriteLegacyTracker, Publish, Cleanup,
                SweepDone
  <2>5. CASE (\E r \in Ranks : BackgroundWrite(r)) \/ (\E d \in Dirs : Rmtree(d)) \/ UNCHANGED vars
    BY <2>5 DEF BackgroundWrite, Rmtree, vars
  <2>6. CASE Relaunch \/ Crash \/ InProcessRestart \/ CrashInTrackerCopy
    BY <2>6 DEF Relaunch, Crash, InProcessRestart, CrashInTrackerCopy, Fault, LoseProcess
  <2> QED BY <2>1, <2>2, <2>3, <2>4, <2>5, <2>6 DEF Next, Loop
<1> QED
  BY <1>1, TypeInvInit, TypeInvNext, PTL DEF Spec, ResumesNewest
=============================================================================
