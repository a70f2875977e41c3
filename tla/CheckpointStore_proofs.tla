------------------------ MODULE CheckpointStore_proofs ------------------------
(***************************************************************************)
(* Proofs about CheckpointStore, for every value of its constants.         *)
(***************************************************************************)
EXTENDS CheckpointStore, FiniteSetTheorems, TLAPS

-----------------------------------------------------------------------------
(* The inductive invariant behind TrackersWhole. *)

\* One persistent checkpoint, of the last step, beside non-persistent ones in a directory of
\* their own that retention trims.
OnlyLast ==
    /\ SaveInterval = TrainIters /\ ~ExitSignals
    /\ MostRecentK # 0 /\ ~NestedNonPersistent /\ ~Energon

\* No persistent save removes a persistent checkpoint, and a finished job that is started
\* again has nothing left to save.
Undisturbed == (MostRecentK < 0 /\ TrainIters % SaveInterval = 0) \/ OnlyLast

\* The kinds retention leaves alone until a newer checkpoint is tracked: non-persistent ones
\* unless a persistent save removes below them.
Protected(k) ==
    IF k = "persistent"
    THEN Undisturbed
    ELSE MostRecentK < 0 \/ (~NestedNonPersistent /\ ~Energon)

\* Persistent directories are of the last step.
LastInv ==
    OnlyLast =>
        /\ dirs["persistent"] \subseteq {TrainIters} /\ dirs["energon"] = {}
        /\ pc = "open" /\ cur.kind = "persistent" => cur.step = TrainIters
        /\ pc # "loader"

TrackedInv ==
    \A k \in Kinds :
        Protected(k) /\ tracker[k] \notin {None, Torn} => Complete(k, tracker[k])

\* A queued save is newer than what is tracked and older than those behind it.
QueueInv ==
    \A i \in 1 .. Len(queue) : LET q == queue[i] IN
        Protected(q.kind) =>
            /\ q.step \in dirs[q.kind] /\ q.written \subseteq files[q.kind][q.step]
            /\ Energon => files["energon"][q.step] = Ranks
            /\ tracker[q.kind] < q.step /\ q.step <= step
            /\ pc = "decide" => q.step < step
            /\ \A j \in i + 1 .. Len(queue) :
                  queue[j].kind = q.kind => q.step < queue[j].step

\* Removal threads are behind the tracker.
CleaningInv ==
    \A d \in cleaning :
        /\ d[1] = "energon" => MostRecentK >= 0
        /\ d[1] \in Kinds /\ Protected(d[1]) => d[2] < tracker[d[1]]

\* The tracker is behind the training step.
StepInv ==
    pc # "down" =>
        \A k \in Kinds : Protected(k) =>
            /\ tracker[k] # Torn /\ tracker[k] <= step
            /\ pc = "decide" => tracker[k] < step

\* What each stage of a save has established of the checkpoint it works on.
CurInv ==
    Protected(cur.kind) =>
        /\ pc \in {"loader", "open"} =>
              /\ cur.step = step
              /\ \A i \in 1 .. Len(queue) :
                    queue[i].kind = cur.kind => queue[i].step < cur.step
        /\ pc \in {"loader", "open", "write", "trainState", "tracker"} =>
              tracker[cur.kind] < cur.step /\ cur.step <= step
        /\ pc \in {"open", "write", "trainState", "tracker"} =>
              (Energon => files["energon"][cur.step] = Ranks)
        /\ pc \in {"write", "trainState", "tracker"} =>
              /\ cur.step \in dirs[cur.kind]
              /\ \A i \in 1 .. Len(queue) :
                    queue[i].kind = cur.kind => cur.step < queue[i].step
        /\ pc \in {"trainState", "tracker"} => files[cur.kind][cur.step] = Ranks
        /\ pc = "tracker" => cur.step \in trainState[cur.kind]
        /\ pc \in {"legacy", "publish", "cleanup"} => tracker[cur.kind] = cur.step

SyncInv == /\ ~AsyncSave => queue = <<>>
           /\ pc = "write" => ~AsyncSave

StoreInv == TrackedInv /\ QueueInv /\ CleaningInv /\ StepInv /\ CurInv /\ SyncInv

-----------------------------------------------------------------------------
(* Types. *)

\* TypeOK is not inductive: a save needs a step to save, and the first read of a
\* tracker needs the memo of the previous invocation to be gone.
TypeInv ==
    /\ TypeOK
    /\ pc = "decide" => step \in Steps
    /\ pc = "down" => queue = <<>> /\ cache = NoCache

\* A save of any step is well formed, the placeholder of a fresh process included.
LEMMA SaveTypes ==
    /\ [kind |-> "persistent", step |-> 1] \in Save
    /\ \A k \in Kinds, s \in Steps : [kind |-> k, step |-> s] \in Save
    /\ "persistent" \in Kinds /\ "nonPersistent" \in Kinds
    /\ Kinds \subseteq Roots /\ "energon" \in Roots /\ "energon" \notin Kinds
    /\ TrainIters \in Steps /\ None \notin Steps /\ Torn \notin Steps
BY ConstantsAssumption
DEF ConstantsAssumption, Save, Kinds, Roots, Steps, None, Torn

\* Popping the queue, and marking one of its saves as written by a rank.
LEMMA QueueTypes ==
    ASSUME NEW q \in Seq(AsyncCall), q # <<>>
    PROVE  /\ Tail(q) \in Seq(AsyncCall)
           /\ Head(q) \in AsyncCall
           /\ Head(q).kind \in Kinds /\ Head(q).step \in Steps
<1>1. Tail(q) \in Seq(AsyncCall) /\ Head(q) \in AsyncCall
  OBVIOUS
<1> QED BY <1>1 DEF AsyncCall

LEMMA WrittenTypes ==
    ASSUME NEW q \in Seq(AsyncCall), NEW i \in 1 .. Len(q), NEW r \in Ranks
    PROVE  [q EXCEPT ![i].written = @ \cup {r}] \in Seq(AsyncCall)
<1>1. q[i] \in AsyncCall
  OBVIOUS
<1>2. [q[i] EXCEPT !.written = @ \cup {r}] \in AsyncCall
  BY <1>1 DEF AsyncCall
<1>3. [q EXCEPT ![i] = [q[i] EXCEPT !.written = @ \cup {r}]] \in Seq(AsyncCall)
  BY <1>2
<1> QED BY <1>3

LEMMA ExcessTypes ==
    ASSUME TypeOK
    PROVE  Excess(cur) \in SUBSET Dirs
<1>1. NonPersistentExcess(cur.step) \subseteq Dirs
  BY DEF NonPersistentExcess, Oldest, TypeOK, Dirs, Roots, Kinds
<1>2. PersistentExcess \subseteq Dirs
  BY DEF PersistentExcess, Oldest
<1> QED BY <1>1, <1>2 DEF Excess

LEMMA TypeInvInit == Init => TypeInv
<1> SUFFICES ASSUME Init PROVE TypeInv
  OBVIOUS
<1> USE DEF Init
<1>1. files \in [Roots -> [Steps -> SUBSET Ranks]]
  OBVIOUS
<1>2. cur \in Save
  BY SaveTypes
<1>3. queue \in Seq(AsyncCall)
  OBVIOUS
<1>4. cache \in [Kinds -> Steps \cup {None}]
  BY DEF NoCache
<1>5. faults \in 0 .. MaxFaults
  BY ConstantsAssumption DEF ConstantsAssumption
<1>6. pc \in PCs
  BY DEF PCs
<1>7. /\ dirs \in [Roots -> SUBSET Steps]
      /\ trainState \in [Kinds -> SUBSET Steps]
      /\ tracker \in [Kinds -> Steps \cup {None, Torn}]
      /\ legacy \in [Kinds -> Steps \cup {None}]
  OBVIOUS
<1> QED BY <1>1, <1>2, <1>3, <1>4, <1>5, <1>6, <1>7 DEF TypeInv, TypeOK

LEMMA TypeInvNext == TypeInv /\ [Next]_vars => TypeInv'
<1> SUFFICES ASSUME TypeInv, [Next]_vars PROVE TypeInv'
  OBVIOUS
<1> USE ConstantsAssumption DEF ConstantsAssumption, TypeInv, TypeOK, disk, process
<1>1. CASE Load
  <2>1. cache = NoCache
    BY <1>1 DEF Load
  <2>2. \A k \in Kinds : ReadTrainState(k) \in Steps \cup {None}
    BY <1>1, <2>1 DEF Load, ReadTrainState, NoCache
  <2>3. SelectedKind([k \in Kinds |-> ReadTrainState(k)]) \in Kinds
    BY DEF SelectedKind, Kinds
  <2> QED BY <1>1, <2>2, <2>3 DEF Load, PCs
<1>2. CASE FinalizeHead
  BY <1>2, QueueTypes, SaveTypes DEF FinalizeHead, HeadDone, PCs
<1>3. CASE TrainStep
  BY <1>3 DEF TrainStep, PCs, Steps, None
<1>4. CASE SignalSave \/ IntervalSave \/ NonPersistentSave
  <2>1. step \in Steps
    BY <1>4 DEF SignalSave, IntervalSave, NonPersistentSave
  <2>2. cur' \in Save
    BY <1>4, <2>1, SaveTypes DEF SignalSave, IntervalSave, NonPersistentSave, BeginSave
  <2>3. pc' \in {"loader", "open"}
    BY <1>4 DEF SignalSave, IntervalSave, NonPersistentSave, BeginSave
  <2> QED BY <1>4, <2>2, <2>3 DEF SignalSave, IntervalSave, NonPersistentSave, PCs
<1>5. CASE NoSave
  BY <1>5 DEF NoSave, PCs
<1>6. CASE EndLoop
  BY <1>6, SaveTypes DEF EndLoop, BeginSave, PCs
<1>7. CASE SaveLoaderState
  BY <1>7 DEF SaveLoaderState, Save, Roots, PCs
<1>8. CASE OpenCheckpoint
  <2>1. cur.kind \in Kinds /\ cur.step \in Steps
    BY DEF Save
  <2>2. Append(queue, [kind |-> cur.kind, step |-> cur.step, written |-> {}])
          \in Seq(AsyncCall)
    BY <2>1 DEF AsyncCall
  <2> QED BY <1>8, <2>1, <2>2, SaveTypes DEF OpenCheckpoint, Continue, PCs
<1>9. CASE \E r \in Ranks : WriteFiles(r)
  BY <1>9 DEF WriteFiles, Save, Roots
<1>10. CASE SaveBarrier
  BY <1>10 DEF SaveBarrier, PCs
<1>11. CASE \E r \in Ranks : BackgroundWrite(r)
  <2> PICK r \in Ranks : BackgroundWrite(r)
    BY <1>11
  <2> PICK i \in 1 .. Len(queue) :
          /\ queue' = [queue EXCEPT ![i].written = @ \cup {r}]
          /\ files' = [files EXCEPT ![queue[i].kind][queue[i].step] = @ \cup {r}]
    BY DEF BackgroundWrite
  <2>1. queue' \in Seq(AsyncCall)
    BY WrittenTypes
  <2>4. queue[i] \in AsyncCall
    OBVIOUS
  <2>5. queue[i].kind \in Roots /\ queue[i].step \in Steps
    BY <2>4, SaveTypes DEF AsyncCall
  <2>2. files' \in [Roots -> [Steps -> SUBSET Ranks]]
    BY <2>5
  <2>3. queue # <<>>
    OBVIOUS
  <2> QED BY <2>1, <2>2, <2>3 DEF BackgroundWrite
<1>12. CASE WriteTrainState
  BY <1>12 DEF WriteTrainState, Save, PCs
<1>13. CASE WriteTracker
  BY <1>13 DEF WriteTracker, Save, PCs
<1>14. CASE WriteLegacyTracker
  BY <1>14 DEF WriteLegacyTracker, Save, PCs
<1>15. CASE Publish
  BY <1>15 DEF Publish, PCs
<1>16. CASE Cleanup
  BY <1>16, ExcessTypes DEF Cleanup, Continue, PCs
<1>17. CASE \E d \in Dirs : Rmtree(d)
  <2> PICK d \in Dirs : Rmtree(d)
    BY <1>17
  <2>1. d[1] \in Roots /\ d[2] \in Steps
    BY DEF Dirs
  <2>2. files' \in [Roots -> [Steps -> SUBSET Ranks]]
    <3>1. files' = [files EXCEPT ![d[1]][d[2]] = {}] \/ files' = files
      BY DEF Rmtree
    <3>2. [files[d[1]] EXCEPT ![d[2]] = {}] \in [Steps -> SUBSET Ranks]
      BY <2>1
    <3>3. [files EXCEPT ![d[1]][d[2]] = {}] \in [Roots -> [Steps -> SUBSET Ranks]]
      BY <2>1, <3>2
    <3> QED BY <3>1, <3>3
  <2>3. dirs' \in [Roots -> SUBSET Steps] /\ cleaning' \in SUBSET Dirs
    <3>1. \/ dirs' = [dirs EXCEPT ![d[1]] = @ \ {d[2]}] /\ cleaning' = cleaning \ {d}
          \/ dirs' = dirs /\ cleaning' = cleaning
      BY DEF Rmtree
    <3>2. [dirs EXCEPT ![d[1]] = @ \ {d[2]}] \in [Roots -> SUBSET Steps]
      BY <2>1
    <3>3. cleaning \ {d} \in SUBSET Dirs
      OBVIOUS
    <3> QED BY <3>1, <3>2, <3>3
  <2>4. trainState' \in [Kinds -> SUBSET Steps]
    BY DEF Rmtree
  <2> QED BY <2>2, <2>3, <2>4 DEF Rmtree
<1>18. CASE SweepDone
  BY <1>18 DEF SweepDone, Continue, PCs
<1>19. CASE Finish
  BY <1>19 DEF Finish, PCs
<1>24. ASSUME LoseProcess
       PROVE  /\ pc' = "down" /\ pc' \in PCs
              /\ step' \in Steps \cup {None} /\ exiting' \in BOOLEAN
              /\ cur' \in Save
              /\ queue' = <<>> /\ queue' \in Seq(AsyncCall)
  <2>1. cur' \in Save
    BY <1>24, SaveTypes DEF LoseProcess
  <2>2. queue' = <<>> /\ queue' \in Seq(AsyncCall)
    BY <1>24 DEF LoseProcess
  <2> QED BY <1>24, <2>1, <2>2 DEF LoseProcess, PCs
<1>25. NoCache \in [Kinds -> Steps \cup {None}]
  BY DEF NoCache
<1>20. CASE Relaunch
  BY <1>20, <1>24, <1>25 DEF Relaunch
<1>21. CASE Crash \/ InProcessRestart
  BY <1>21, <1>24, <1>25 DEF Crash, InProcessRestart, Fault
<1>22. CASE CrashInTrackerCopy
  <2>1. tracker' \in [Kinds -> Steps \cup {None, Torn}]
    BY <1>22 DEF CrashInTrackerCopy
  <2> QED BY <1>22, <1>24, <1>25, <2>1 DEF CrashInTrackerCopy, Fault
<1>23. CASE UNCHANGED vars
  BY <1>23 DEF vars
<1> QED
  BY <1>1, <1>2, <1>3, <1>4, <1>5, <1>6, <1>7, <1>8, <1>9, <1>10, <1>11, <1>12,
     <1>13, <1>14, <1>15, <1>16, <1>17, <1>18, <1>19, <1>20, <1>21, <1>22, <1>23
  DEF Next, Loop, SaveCheckpoint, Finalize

\* Every reachable state is well typed: a save is of a step that was trained, and
\* no tracker is torn except by the crash that tears it.
THEOREM TypeCorrect == Spec => []TypeOK
<1>1. Init => TypeInv
  BY TypeInvInit
<1>2. TypeInv /\ [Next]_vars => TypeInv'
  BY TypeInvNext
<1>3. TypeInv => TypeOK
  BY DEF TypeInv
<1> QED BY <1>1, <1>2, <1>3, PTL DEF Spec

-----------------------------------------------------------------------------
(* The checkpoint a tracker names is whole. *)

\* The steps and trackers of a well-typed state are integers.
LEMMA StepTypes ==
    ASSUME TypeOK
    PROVE  /\ \A s \in Steps : s \in Int /\ s > 0
           /\ step \in Int /\ TrainIters \in Int
           /\ \A k \in Kinds : tracker[k] \in Int
           /\ \A k \in Kinds : tracker[k] \notin {None, Torn} => tracker[k] \in Steps
           /\ cur.kind \in Kinds /\ cur.step \in Steps
           /\ \A i \in 1 .. Len(queue) : /\ queue[i] \in AsyncCall
                                         /\ queue[i].kind \in Kinds
                                         /\ queue[i].step \in Steps
                                         /\ queue[i].written \subseteq Ranks
<1>1. /\ \A s \in Steps : s \in Int /\ s > 0
      /\ step \in Int /\ TrainIters \in Int
  BY ConstantsAssumption DEF ConstantsAssumption, Steps, TypeOK, None
<1>2. \A k \in Kinds : tracker[k] \in Steps \cup {None, Torn}
  BY DEF TypeOK
<1>3. None \in Int /\ Torn \in Int
  BY DEF None, Torn
<1>4. cur.kind \in Kinds /\ cur.step \in Steps
  BY DEF TypeOK, Save
<1>5. \A i \in 1 .. Len(queue) : queue[i] \in AsyncCall
  BY DEF TypeOK
<1> QED BY <1>1, <1>2, <1>3, <1>4, <1>5 DEF AsyncCall

\* Retention of a non-persistent save removes older checkpoints only: the one just
\* saved is the newest it looks at, and at least one is kept.
LEMMA NonPersistentExcessOlder ==
    ASSUME TypeOK, NEW s \in Steps, s \in dirs["nonPersistent"],
           NEW d \in NonPersistentExcess(s)
    PROVE  d[1] = "nonPersistent" /\ d[2] < s
<1> DEFINE C == {e \in {"nonPersistent"} \X dirs["nonPersistent"] : e[2] <= s}
           Newer == {e \in C : SortsAfter(e, d)}
<1>1. d \in C /\ Cardinality(Newer) >= NonPersistentKeep
  BY DEF NonPersistentExcess, Oldest
<1>2. NonPersistentKeep >= 1
  BY ConstantsAssumption DEF ConstantsAssumption, NonPersistentKeep
<1>3. NonPersistentKeep \in Int
  BY ConstantsAssumption DEF ConstantsAssumption, NonPersistentKeep
<1>4. Newer # {}
  <2> SUFFICES ASSUME Newer = {} PROVE FALSE
    OBVIOUS
  <2>1. Cardinality(Newer) = 0
    BY FS_EmptySet
  <2> QED BY <1>1, <1>2, <1>3, <2>1
<1>5. PICK e \in C : SortsAfter(e, d)
  BY <1>4
<1>6. e[1] = d[1] /\ d[1] = "nonPersistent"
  BY <1>1, <1>5
<1>7. e[2] \in Steps /\ d[2] \in Steps /\ e[2] <= s
  BY <1>1, <1>5, SaveTypes DEF TypeOK
<1>8. RglobOrder["nonPersistent"] = 1
  BY SaveTypes DEF RglobOrder
<1>9. e[2] > d[2]
  BY <1>5, <1>6, <1>8 DEF SortsAfter
<1> QED BY <1>6, <1>7, <1>9, StepTypes

\* A persistent save that is due, is due at the last step.
LEMMA LastIsDue ==
    ASSUME OnlyLast, NEW s \in Steps, s % SaveInterval = 0
    PROVE  s = TrainIters
<1>1. SaveInterval = TrainIters /\ TrainIters \in Nat \ {0} /\ s \in Nat /\ s > 0 /\ s <= TrainIters
  BY ConstantsAssumption DEF ConstantsAssumption, OnlyLast, Steps
<1>2. s < TrainIters => s % TrainIters = s
  BY <1>1
<1> QED BY <1>1, <1>2

LEMMA LastInvInit == Init => LastInv
BY SaveTypes DEF Init, LastInv

LEMMA LastInvNext == TypeInv /\ LastInv /\ [Next]_vars => LastInv'
<1> SUFFICES ASSUME TypeInv, LastInv, [Next]_vars, OnlyLast PROVE LastInv'
  BY DEF LastInv
<1> USE DEF disk, process
<1>t. /\ dirs \in [Roots -> SUBSET Steps]
      /\ "persistent" \in Roots /\ "nonPersistent" \in Roots /\ "energon" \in Roots
      /\ pc = "decide" => step \in Steps
      /\ ~ExitSignals /\ ~Energon /\ TrainIters \in Steps
      /\ cur.kind \in Kinds /\ "energon" \notin Kinds
      /\ TrainIters % SaveInterval = 0 /\ SaveInterval # 0
  BY StepTypes, SaveTypes, ConstantsAssumption DEF ConstantsAssumption, TypeInv, TypeOK, OnlyLast
<1>l. /\ dirs["persistent"] \subseteq {TrainIters} /\ dirs["energon"] = {} /\ pc # "loader"
      /\ pc = "open" /\ cur.kind = "persistent" => cur.step = TrainIters
  BY DEF LastInv
<1>1. CASE SignalSave \/ IntervalSave \/ NonPersistentSave
  <2>1. dirs' = dirs /\ pc' = "open"
    BY <1>1, <1>t DEF SignalSave, IntervalSave, NonPersistentSave, BeginSave
  <2>2. cur'.kind = "persistent" => cur'.step = step /\ step \in Steps /\ step % SaveInterval = 0
    BY <1>1, <1>t DEF SignalSave, IntervalSave, NonPersistentSave, BeginSave, IntervalReached
  <2> QED BY <1>l, <2>1, <2>2, LastIsDue DEF LastInv
<1>2. CASE EndLoop
  <2>1. dirs' = dirs /\ pc' = "drain"
    BY <1>2, <1>t DEF EndLoop, IntervalReached
  <2> QED BY <1>l, <2>1 DEF LastInv
<1>3. CASE OpenCheckpoint
  <2>1. /\ dirs' = [dirs EXCEPT ![cur.kind] = @ \cup {cur.step}] /\ cur' = cur
        /\ pc = "open" /\ pc' \in {"top", "drain", "write"}
    BY <1>3 DEF OpenCheckpoint, Continue
  <2>2. dirs'["energon"] = {} /\ dirs'["persistent"] \subseteq {TrainIters}
    BY <1>t, <1>l, <2>1
  <2> QED BY <2>1, <2>2 DEF LastInv
<1>4. CASE \E d \in Dirs : Rmtree(d)
  <2>1. \A r \in Roots : dirs'[r] \subseteq dirs[r]
    BY <1>4, <1>t DEF Rmtree
  <2>2. pc' = pc /\ cur' = cur
    BY <1>4 DEF Rmtree
  <2> QED BY <1>t, <1>l, <2>1, <2>2 DEF LastInv
<1>5. ~SaveLoaderState
  BY <1>l DEF SaveLoaderState
<1>6. CASE /\ dirs' = dirs /\ pc' # "loader"
           /\ pc' = "open" => pc = "open" /\ cur' = cur
  BY <1>6, <1>l DEF LastInv
<1>7. CASE Load \/ TrainStep \/ NoSave \/ Finish \/ SaveBarrier \/ (\E r \in Ranks : WriteFiles(r) \/ BackgroundWrite(r))
  BY <1>6, <1>7, <1>l DEF Load, TrainStep, NoSave, Finish, SaveBarrier, WriteFiles, BackgroundWrite
<1>8. CASE FinalizeHead \/ WriteTrainState \/ WriteTracker \/ WriteLegacyTracker \/ Publish \/ Cleanup
           \/ SweepDone
  BY <1>6, <1>8 DEF FinalizeHead, WriteTrainState, WriteTracker, WriteLegacyTracker, Publish, Cleanup,
                    SweepDone, Continue
<1>9. CASE Relaunch \/ Crash \/ InProcessRestart \/ CrashInTrackerCopy \/ UNCHANGED vars
  BY <1>6, <1>9, <1>l DEF Relaunch, Crash, InProcessRestart, CrashInTrackerCopy, Fault, LoseProcess, vars
<1> QED BY <1>1, <1>2, <1>3, <1>4, <1>5, <1>7, <1>8, <1>9 DEF Next, Loop, SaveCheckpoint, Finalize

\* The one persistent checkpoint is the most recent: its own retention keeps it.
LEMMA LastIsKept ==
    ASSUME TypeOK, LastInv, OnlyLast, MostRecentK >= 0
    PROVE  PersistentExcess = {}
<1> SUFFICES ASSUME NEW d \in PersistentExcess PROVE FALSE
  OBVIOUS
<1> DEFINE C == {e \in Dirs : /\ e[2] \in dirs[e[1]]
                              /\ e[1] = "nonPersistent" => NestedNonPersistent}
           After == {e \in C : SortsAfter(e, d)}
<1>1. MostRecentK \in Nat \ {0} /\ d \in C /\ Cardinality(After) >= MostRecentK
  BY ConstantsAssumption DEF ConstantsAssumption, PersistentExcess, Oldest, OnlyLast
<1>2. ASSUME NEW e \in C PROVE e[1] = "persistent" /\ e[2] = TrainIters
  <2>1. e[1] \in Roots /\ e[2] \in dirs[e[1]] /\ e[1] # "nonPersistent"
    BY DEF Dirs, OnlyLast
  <2>2. e[1] # "energon"
    BY <2>1 DEF LastInv
  <2> QED BY <2>1, <2>2 DEF LastInv, Roots, Kinds
<1>3. After = {}
  <2> SUFFICES ASSUME NEW e \in After PROVE FALSE
    OBVIOUS
  <2>1. e[1] = d[1] /\ e[2] = d[2] /\ d[2] = TrainIters /\ e[1] = "persistent" /\ e \in C
    BY <1>1, <1>2
  <2>2. RglobOrder["persistent"] = 0 /\ TrainIters \in Int
    BY SaveTypes, StepTypes DEF RglobOrder
  <2> QED BY <2>1, <2>2 DEF SortsAfter
<1>4. Cardinality(After) = 0
  <2> HIDE DEF After
  <2> QED BY <1>3, FS_EmptySet
<1> QED BY <1>1, <1>4

LEMMA StoreInvInit == Init => StoreInv
BY DEF Init, StoreInv, TrackedInv, QueueInv, CleaningInv, StepInv, CurInv, SyncInv,
       None, Torn

\* One step per action; a conjunct an action leaves alone follows from the types.
LEMMA StoreInvNext == TypeInv /\ LastInv /\ StoreInv /\ [Next]_vars => StoreInv'
<1> SUFFICES ASSUME TypeInv, LastInv, StoreInv, [Next]_vars PROVE StoreInv'
  OBVIOUS
<1> USE DEF disk, process
<1>t. TypeOK /\ TypeOK'
  BY TypeInvNext DEF TypeInv
<1>inv. TrackedInv /\ QueueInv /\ CleaningInv /\ StepInv /\ CurInv /\ SyncInv
  BY DEF StoreInv
<1>1. CASE Load
  <2>1. queue = <<>> /\ cache = NoCache /\ pc = "down"
    BY <1>1 DEF Load, TypeInv
  <2>2. \A k \in Kinds : ReadTrainState(k) = tracker[k]
    BY <2>1 DEF ReadTrainState, NoCache
  <2>3. \A k \in Kinds : tracker[k] # Torn
    BY <1>1, <2>2 DEF Load
  <2>4. \A k \in Kinds : tracker[k] <= step'
    <3>1. step' = tracker[SelectedKind([k \in Kinds |-> tracker[k]])]
      BY <1>1, <2>2 DEF Load, SelectedKind, Kinds
    <3>2. \A k \in Kinds : tracker[k] \in Int /\ tracker[k] >= 0
      BY <1>t, <2>3, StepTypes DEF None, Torn
    <3> QED BY <3>1, <3>2 DEF SelectedKind, Kinds, None
  <2>5. StepInv' /\ CurInv' /\ QueueInv' /\ SyncInv'
    BY <1>1, <1>inv, <2>1, <2>3, <2>4 DEF Load, StepInv, CurInv, QueueInv, SyncInv
  <2>6. TrackedInv' /\ CleaningInv'
    BY <1>1, <1>inv DEF Load, TrackedInv, CleaningInv, Complete, Loadable
  <2> QED BY <2>5, <2>6 DEF StoreInv
<1>2. CASE FinalizeHead
  <2>1. /\ queue # <<>> /\ 1 \in 1 .. Len(queue) /\ Len(queue) \in Nat
        /\ Len(queue') = Len(queue) - 1
        /\ \A i \in 1 .. Len(queue') : queue'[i] = queue[i + 1]
    BY <1>2, <1>t DEF FinalizeHead, HeadDone, TypeOK
  <2>2. /\ cur'.kind = queue[1].kind /\ cur'.step = queue[1].step
        /\ queue[1].written = Ranks
    BY <1>2 DEF FinalizeHead, HeadDone
  <2>3. TrackedInv' /\ CleaningInv' /\ StepInv' /\ SyncInv'
    BY <1>2, <1>inv, <2>1 DEF FinalizeHead, TrackedInv, CleaningInv, StepInv, SyncInv,
                              Complete, Loadable
  <2>4. QueueInv'
    <3> SUFFICES ASSUME NEW i \in 1 .. Len(queue'), Protected(queue'[i].kind)
                 PROVE  /\ queue'[i].step \in dirs[queue'[i].kind]
                        /\ queue'[i].written \subseteq files[queue'[i].kind][queue'[i].step]
                        /\ Energon => files["energon"][queue'[i].step] = Ranks
                        /\ tracker[queue'[i].kind] < queue'[i].step
                        /\ queue'[i].step <= step
                        /\ \A j \in i + 1 .. Len(queue') :
                             queue'[j].kind = queue'[i].kind
                                 => queue'[i].step < queue'[j].step
      BY <1>2 DEF QueueInv, FinalizeHead
    <3>1. i + 1 \in 1 .. Len(queue) /\ queue'[i] = queue[i + 1]
      BY <2>1
    <3>2. \A j \in i + 1 .. Len(queue') : /\ j + 1 \in (i + 1) + 1 .. Len(queue)
                                          /\ queue'[j] = queue[j + 1]
      BY <2>1
    <3> QED BY <1>inv, <3>1, <3>2 DEF QueueInv
  <2>5. CurInv'
    <3> SUFFICES ASSUME Protected(queue[1].kind) PROVE CurInv'
      BY <2>2 DEF CurInv
    <3>1. /\ queue[1].step \in dirs[queue[1].kind]
          /\ Ranks \subseteq files[queue[1].kind][queue[1].step]
          /\ Energon => files["energon"][queue[1].step] = Ranks
          /\ tracker[queue[1].kind] < queue[1].step /\ queue[1].step <= step
          /\ \A j \in 1 + 1 .. Len(queue) :
               queue[j].kind = queue[1].kind => queue[1].step < queue[j].step
      BY <1>inv, <2>1, <2>2 DEF QueueInv
    <3>2. files[queue[1].kind][queue[1].step] \subseteq Ranks
      BY <1>t, <2>1, StepTypes, SaveTypes DEF TypeOK
    <3>3. \A i \in 1 .. Len(queue') : /\ i + 1 \in 1 + 1 .. Len(queue)
                                      /\ queue'[i] = queue[i + 1]
      BY <2>1
    <3>4. \A i \in 1 .. Len(queue') :
             queue'[i].kind = queue[1].kind => queue[1].step < queue'[i].step
      BY <3>1, <3>3
    <3> QED BY <1>2, <2>2, <3>1, <3>2, <3>4 DEF CurInv, FinalizeHead
  <2> QED BY <2>3, <2>4, <2>5 DEF StoreInv
<1>3. CASE TrainStep
  <2>1. step' = step + 1 /\ pc = "top" /\ pc' = "decide"
        /\ UNCHANGED <<dirs, files, trainState, tracker, cur, queue, cleaning>>
    BY <1>3 DEF TrainStep
  <2>2. TrackedInv' /\ CleaningInv' /\ SyncInv' /\ CurInv'
    BY <2>1, <1>inv DEF TrackedInv, CleaningInv, SyncInv, CurInv, Complete, Loadable
  <2>3. StepInv'
    BY <2>1, <1>inv, <1>t, StepTypes DEF StepInv
  <2>4. QueueInv'
    BY <2>1, <1>inv, <1>t, StepTypes DEF QueueInv
  <2> QED BY <2>2, <2>3, <2>4 DEF StoreInv
<1>4. CASE SignalSave \/ IntervalSave \/ NonPersistentSave
  <2>1. /\ pc = "decide" /\ pc' \in {"loader", "open"} /\ (pc' = "open" => ~Energon)
        /\ cur'.step = step
        /\ UNCHANGED <<dirs, files, trainState, tracker, step, queue, cleaning>>
    BY <1>4 DEF SignalSave, IntervalSave, NonPersistentSave, BeginSave
  <2>2. TrackedInv' /\ CleaningInv' /\ SyncInv' /\ StepInv' /\ QueueInv'
    BY <2>1, <1>inv
    DEF TrackedInv, CleaningInv, SyncInv, StepInv, QueueInv, Complete, Loadable
  <2>3. cur'.kind \in Kinds
    BY <1>t DEF TypeOK, Save
  <2>4. CurInv'
    BY <2>1, <2>3, <1>inv, <1>t, StepTypes DEF CurInv, StepInv, QueueInv
  <2> QED BY <2>2, <2>4 DEF StoreInv
<1>5. CASE NoSave \/ Publish \/ SweepDone \/ Finish
  <2>1. /\ pc \in {"decide", "publish", "sweep", "drain"}
        /\ pc' \in {"top", "cleanup", "drain", "done"} /\ (pc' = "cleanup" => pc = "publish")
        /\ UNCHANGED <<dirs, files, trainState, tracker, step, cur, queue, cleaning>>
    BY <1>5 DEF NoSave, Publish, SweepDone, Finish, Continue
  <2>2. TrackedInv' /\ CleaningInv' /\ SyncInv' /\ StepInv' /\ QueueInv'
    BY <2>1, <1>inv
    DEF TrackedInv, CleaningInv, SyncInv, StepInv, QueueInv, Complete, Loadable
  <2>3. CurInv'
    BY <2>1, <1>inv DEF CurInv
  <2> QED BY <2>2, <2>3 DEF StoreInv
<1>6. CASE EndLoop
  <2>1. /\ pc = "top" /\ pc' \in {"drain", "loader", "open"}
        /\ pc' # "drain" => cur'.kind = "persistent" /\ ~IntervalReached(SaveInterval)
        /\ step = TrainIters
        /\ UNCHANGED <<dirs, files, trainState, tracker, step, queue, cleaning>>
    BY <1>6 DEF EndLoop, BeginSave
  <2>2. pc' # "drain" => ~Protected("persistent")
    <3>1. SaveInterval = TrainIters => TrainIters % SaveInterval = 0
      BY ConstantsAssumption DEF ConstantsAssumption
    <3> QED BY <2>1, <3>1, ConstantsAssumption
            DEF ConstantsAssumption, IntervalReached, Protected, Undisturbed, OnlyLast
  <2>3. TrackedInv' /\ CleaningInv' /\ SyncInv' /\ StepInv' /\ QueueInv'
    BY <2>1, <1>inv
    DEF TrackedInv, CleaningInv, SyncInv, StepInv, QueueInv, Complete, Loadable
  <2>4. CurInv'
    BY <2>1, <2>2 DEF CurInv
  <2> QED BY <2>3, <2>4 DEF StoreInv
<1>7. CASE SaveLoaderState
  <2>1. /\ pc = "loader" /\ pc' = "open"
        /\ files'["energon"][cur.step] = Ranks
        /\ \A t \in Steps : files["energon"][t] = Ranks => files'["energon"][t] = Ranks
        /\ \A k \in Kinds : files'[k] = files[k] /\ dirs'[k] = dirs[k]
        /\ UNCHANGED <<trainState, tracker, step, cur, queue, cleaning>>
    BY <1>7, <1>t, StepTypes, SaveTypes DEF SaveLoaderState, TypeOK
  <2>2. TrackedInv'
    BY <2>1, <1>inv, <1>t, StepTypes DEF TrackedInv, Complete, Loadable
  <2>3. QueueInv'
    BY <2>1, <1>inv, <1>t, StepTypes DEF QueueInv
  <2>4. CleaningInv' /\ SyncInv' /\ StepInv'
    BY <2>1, <1>inv DEF CleaningInv, SyncInv, StepInv
  <2>5. CurInv'
    BY <2>1, <1>inv, <1>t, StepTypes DEF CurInv
  <2> QED BY <2>2, <2>3, <2>4, <2>5 DEF StoreInv
<1>8. CASE OpenCheckpoint
  <2>1. /\ pc = "open"
        /\ dirs' = [dirs EXCEPT ![cur.kind] = @ \cup {cur.step}]
        /\ files' = [files EXCEPT ![cur.kind][cur.step] = {}]
        /\ UNCHANGED <<trainState, tracker, step, cur, cleaning>>
    BY <1>8 DEF OpenCheckpoint
  <2>2. /\ cur.step \in dirs'[cur.kind]
        /\ \A r \in Roots : dirs[r] \subseteq dirs'[r]
        /\ files'["energon"] = files["energon"]
        /\ \A k \in Kinds, t \in Steps :
              k # cur.kind \/ t # cur.step => files'[k][t] = files[k][t]
    BY <2>1, <1>t, StepTypes, SaveTypes DEF TypeOK
  <2>3. TrackedInv'
    <3> SUFFICES ASSUME NEW k \in Kinds, Protected(k), tracker[k] \notin {None, Torn}
                 PROVE  Complete(k, tracker[k])'
      BY <2>1 DEF TrackedInv
    <3>1. Complete(k, tracker[k]) /\ tracker[k] \in Steps
      BY <1>inv, <1>t, StepTypes DEF TrackedInv
    <3>2. k = cur.kind => tracker[k] # cur.step
      BY <2>1, <1>inv, <1>t, StepTypes DEF CurInv
    <3> QED BY <2>1, <2>2, <3>1, <3>2, SaveTypes DEF Complete, Loadable
  <2>4. CleaningInv' /\ StepInv'
    <3>1. pc' # "decide" /\ pc # "down"
      BY <1>8 DEF OpenCheckpoint, Continue
    <3> QED BY <2>1, <3>1, <1>inv DEF CleaningInv, StepInv
  <2>5. CASE ~AsyncSave
    <3>1. queue' = queue /\ queue = <<>> /\ pc' = "write"
      BY <2>5, <1>8, <1>inv DEF OpenCheckpoint, SyncInv
    <3>2. QueueInv' /\ SyncInv'
      BY <2>5, <3>1 DEF QueueInv, SyncInv
    <3>3. CurInv'
      BY <2>1, <2>2, <3>1, <1>inv DEF CurInv
    <3> QED BY <2>3, <2>4, <3>2, <3>3 DEF StoreInv
  <2>6. CASE AsyncSave
    <3> DEFINE new == [kind |-> cur.kind, step |-> cur.step, written |-> {}]
    <3>1. queue' = Append(queue, new) /\ pc' \in {"top", "drain"}
      BY <2>6, <1>8 DEF OpenCheckpoint, Continue
    <3>2. /\ Len(queue) \in Nat /\ Len(queue') = Len(queue) + 1
          /\ \A i \in 1 .. Len(queue) : queue'[i] = queue[i]
          /\ queue'[Len(queue) + 1] = new
      BY <3>1, <1>t DEF TypeOK
    <3>3. SyncInv' /\ CurInv'
      BY <2>1, <2>6, <3>1 DEF SyncInv, CurInv
    <3>4. QueueInv'
      <4> SUFFICES ASSUME NEW i \in 1 .. Len(queue'), Protected(queue'[i].kind)
                   PROVE  /\ queue'[i].step \in dirs'[queue'[i].kind]
                          /\ queue'[i].written
                                \subseteq files'[queue'[i].kind][queue'[i].step]
                          /\ Energon => files'["energon"][queue'[i].step] = Ranks
                          /\ tracker[queue'[i].kind] < queue'[i].step
                          /\ queue'[i].step <= step
                          /\ \A j \in i + 1 .. Len(queue') :
                               queue'[j].kind = queue'[i].kind
                                   => queue'[i].step < queue'[j].step
        BY <2>1, <3>1 DEF QueueInv
      <4>1. CASE i = Len(queue) + 1
        BY <4>1, <2>1, <2>2, <3>2, <1>inv DEF CurInv
      <4>2. CASE i \in 1 .. Len(queue)
        <5>1. queue'[i] = queue[i] /\ queue[i].kind \in Kinds /\ queue[i].step \in Steps
          BY <4>2, <3>2, <1>t, StepTypes
        <5>2. queue[i].kind = cur.kind => queue[i].step < cur.step
          BY <2>1, <4>2, <5>1, <1>inv DEF CurInv
        <5>3. files'[queue[i].kind][queue[i].step] = files[queue[i].kind][queue[i].step]
          BY <2>2, <5>1, <5>2, <1>t, StepTypes
        <5>4. \A j \in i + 1 .. Len(queue') :
                 queue'[j].kind = queue'[i].kind => queue'[i].step < queue'[j].step
          <6> SUFFICES ASSUME NEW j \in i + 1 .. Len(queue'),
                              queue'[j].kind = queue[i].kind
                       PROVE  queue[i].step < queue'[j].step
            BY <5>1
          <6>1. CASE j = Len(queue) + 1
            BY <6>1, <3>2, <5>2
          <6>2. CASE j # Len(queue) + 1
            <7>1. j \in i + 1 .. Len(queue) /\ queue'[j] = queue[j]
              BY <6>2, <3>2
            <7> QED BY <7>1, <4>2, <5>1, <1>inv DEF QueueInv
          <6> QED BY <6>1, <6>2
        <5> QED BY <4>2, <5>1, <5>3, <5>4, <2>1, <2>2, <1>inv, SaveTypes DEF QueueInv
      <4> QED BY <4>1, <4>2, <3>2
    <3> QED BY <2>3, <2>4, <3>3, <3>4 DEF StoreInv
  <2> QED BY <2>5, <2>6
<1>9. CASE \E r \in Ranks : WriteFiles(r)
  <2> PICK r \in Ranks : WriteFiles(r)
    BY <1>9
  <2>1. /\ pc = "write"
        /\ files' = [files EXCEPT ![cur.kind][cur.step] = @ \cup {r}]
        /\ UNCHANGED <<dirs, trainState, tracker, step, pc, cur, queue, cleaning>>
    BY DEF WriteFiles
  <2>2. /\ files'["energon"] = files["energon"]
        /\ \A k \in Kinds, t \in Steps :
              k # cur.kind \/ t # cur.step => files'[k][t] = files[k][t]
    BY <2>1, <1>t, StepTypes, SaveTypes DEF TypeOK
  <2>3. TrackedInv'
    <3> SUFFICES ASSUME NEW k \in Kinds, Protected(k), tracker[k] \notin {None, Torn}
                 PROVE  Complete(k, tracker[k])'
      BY <2>1 DEF TrackedInv
    <3>1. Complete(k, tracker[k]) /\ tracker[k] \in Steps
      BY <1>inv, <1>t, StepTypes DEF TrackedInv
    <3>2. k = cur.kind => tracker[k] # cur.step
      BY <2>1, <1>inv, <1>t, StepTypes DEF CurInv
    <3> QED BY <2>1, <2>2, <3>1, <3>2 DEF Complete, Loadable
  <2>4. queue = <<>>
    BY <2>1, <1>inv DEF SyncInv
  <2>5. QueueInv' /\ CleaningInv' /\ StepInv' /\ SyncInv'
    BY <2>1, <2>4, <1>inv DEF QueueInv, CleaningInv, StepInv, SyncInv
  <2>6. CurInv'
    BY <2>1, <2>2, <1>inv DEF CurInv
  <2> QED BY <2>3, <2>5, <2>6 DEF StoreInv
<1>10. CASE SaveBarrier
  <2>1. /\ pc = "write" /\ pc' = "trainState" /\ files[cur.kind][cur.step] = Ranks
        /\ UNCHANGED <<dirs, files, trainState, tracker, step, cur, queue, cleaning>>
    BY <1>10 DEF SaveBarrier
  <2>2. TrackedInv' /\ CleaningInv' /\ SyncInv' /\ StepInv' /\ QueueInv'
    BY <2>1, <1>inv
    DEF TrackedInv, CleaningInv, SyncInv, StepInv, QueueInv, Complete, Loadable
  <2>3. CurInv'
    BY <2>1, <1>inv DEF CurInv
  <2> QED BY <2>2, <2>3 DEF StoreInv
<1>11. CASE \E r \in Ranks : BackgroundWrite(r)
  <2> PICK r \in Ranks, i \in 1 .. Len(queue) :
           /\ queue' = [queue EXCEPT ![i].written = @ \cup {r}]
           /\ files' = [files EXCEPT ![queue[i].kind][queue[i].step] = @ \cup {r}]
    BY <1>11 DEF BackgroundWrite
  <2>1. UNCHANGED <<dirs, trainState, tracker, step, pc, cur, cleaning>>
    BY <1>11 DEF BackgroundWrite
  <2>2. /\ Len(queue') = Len(queue)
        /\ \A j \in 1 .. Len(queue) :
              /\ queue'[j].kind = queue[j].kind /\ queue'[j].step = queue[j].step
              /\ queue'[j].written = IF j = i THEN queue[j].written \cup {r}
                                     ELSE queue[j].written
    <3> DEFINE e == [queue[i] EXCEPT !.written = @ \cup {r}]
    <3>1. queue \in Seq(AsyncCall) /\ queue[i] \in AsyncCall
      BY <1>t, StepTypes DEF TypeOK
    <3>2. queue' = [queue EXCEPT ![i] = e]
      OBVIOUS
    <3>3. e.kind = queue[i].kind /\ e.step = queue[i].step
          /\ e.written = queue[i].written \cup {r}
      BY <3>1 DEF AsyncCall
    <3> HIDE DEF e
    <3>4. /\ Len(queue') = Len(queue) /\ queue'[i] = e
          /\ \A j \in 1 .. Len(queue) : j # i => queue'[j] = queue[j]
      BY <3>1, <3>2
    <3>5. ASSUME NEW j \in 1 .. Len(queue)
          PROVE  /\ queue'[j].kind = queue[j].kind /\ queue'[j].step = queue[j].step
                 /\ queue'[j].written = IF j = i THEN queue[j].written \cup {r}
                                        ELSE queue[j].written
      <4>1. CASE j = i
        BY <3>3, <3>4, <4>1
      <4>2. CASE j # i
        BY <3>4, <4>2
      <4> QED BY <4>1, <4>2
    <3> QED BY <3>4, <3>5
  <2>3. /\ files'["energon"] = files["energon"]
        /\ \A k \in Kinds, t \in Steps :
              files'[k][t] = IF k = queue[i].kind /\ t = queue[i].step
                             THEN files[k][t] \cup {r} ELSE files[k][t]
    <3>1. queue[i].kind \in Kinds /\ queue[i].step \in Steps
      BY <1>t, StepTypes
    <3>2. files \in [Roots -> [Steps -> SUBSET Ranks]]
      BY <1>t DEF TypeOK
    <3>3. files'[queue[i].kind]
            = [files[queue[i].kind] EXCEPT ![queue[i].step] = @ \cup {r}]
      BY <3>1, <3>2, SaveTypes
    <3>4. \A k \in Roots : k # queue[i].kind => files'[k] = files[k]
      BY <3>1, <3>2
    <3> QED BY <3>1, <3>2, <3>3, <3>4, SaveTypes
  <2>4. \A k \in Kinds, t \in Steps :
           files[k][t] \subseteq files'[k][t] /\ (files[k][t] = Ranks => files'[k][t] = Ranks)
    BY <2>3
  <2>5. TrackedInv'
    BY <2>1, <2>3, <2>4, <1>inv, <1>t, StepTypes DEF TrackedInv, Complete, Loadable
  <2>6. QueueInv'
    <3> SUFFICES ASSUME NEW j \in 1 .. Len(queue), Protected(queue[j].kind)
                 PROVE  /\ queue[j].step \in dirs[queue[j].kind]
                        /\ queue'[j].written \subseteq files'[queue[j].kind][queue[j].step]
                        /\ Energon => files'["energon"][queue[j].step] = Ranks
                        /\ tracker[queue[j].kind] < queue[j].step
                        /\ queue[j].step <= step
                        /\ pc = "decide" => queue[j].step < step
                        /\ \A m \in j + 1 .. Len(queue) :
                             queue'[m].kind = queue[j].kind
                                 => queue[j].step < queue'[m].step
      BY <2>1, <2>2 DEF QueueInv
    <3>1. \A m \in j + 1 .. Len(queue) : m \in 1 .. Len(queue)
      OBVIOUS
    <3>2. queue[j].kind \in Kinds /\ queue[j].step \in Steps
      BY <1>t, StepTypes
    <3>3. queue'[j].written \subseteq files'[queue[j].kind][queue[j].step]
      <4>1. queue[j].written \subseteq files[queue[j].kind][queue[j].step]
        BY <1>inv DEF QueueInv
      <4>2. CASE j = i
        <5>1. queue'[i].written = queue[i].written \cup {r}
          BY <2>2
        <5>2. files'[queue[i].kind][queue[i].step]
                = files[queue[i].kind][queue[i].step] \cup {r}
          BY <2>3, <3>2, <4>2
        <5> QED BY <4>1, <4>2, <5>1, <5>2
      <4>3. CASE j # i
        BY <2>2, <2>4, <3>2, <4>1, <4>3
      <4> QED BY <4>2, <4>3
    <3> QED BY <2>2, <2>3, <3>1, <3>3, <1>inv DEF QueueInv
  <2>7. CleaningInv' /\ StepInv'
    BY <2>1, <1>inv DEF CleaningInv, StepInv
  <2>8. SyncInv'
    BY <2>1, <1>inv DEF SyncInv
  <2>9. CurInv'
    BY <2>1, <2>2, <2>3, <2>4, <1>inv, <1>t, StepTypes DEF CurInv
  <2> QED BY <2>5, <2>6, <2>7, <2>8, <2>9 DEF StoreInv
<1>12. CASE WriteTrainState
  <2>1. /\ pc = "trainState" /\ pc' = "tracker"
        /\ cur.step \in trainState'[cur.kind]
        /\ \A k \in Kinds : trainState[k] \subseteq trainState'[k]
        /\ UNCHANGED <<dirs, files, tracker, step, cur, queue, cleaning>>
    BY <1>12, <1>t, StepTypes DEF WriteTrainState, TypeOK
  <2>2. TrackedInv' /\ CleaningInv' /\ SyncInv' /\ StepInv' /\ QueueInv'
    BY <2>1, <1>inv
    DEF TrackedInv, CleaningInv, SyncInv, StepInv, QueueInv, Complete, Loadable
  <2>3. CurInv'
    BY <2>1, <1>inv DEF CurInv
  <2> QED BY <2>2, <2>3 DEF StoreInv
<1>13. CASE WriteTracker
  <2>1. /\ pc = "tracker" /\ pc' = "legacy"
        /\ tracker'[cur.kind] = cur.step
        /\ \A k \in Kinds : k # cur.kind => tracker'[k] = tracker[k]
        /\ UNCHANGED <<dirs, files, trainState, step, cur, queue, cleaning>>
    BY <1>13, <1>t, StepTypes DEF WriteTracker, TypeOK
  <2>2. Protected(cur.kind) => tracker[cur.kind] < cur.step /\ cur.step <= step
    BY <2>1, <1>inv DEF CurInv
  <2>3. TrackedInv'
    <3>1. Protected(cur.kind) => Complete(cur.kind, cur.step)
      BY <2>1, <1>inv DEF CurInv, Complete, Loadable
    <3> QED BY <2>1, <3>1, <1>inv DEF TrackedInv, Complete, Loadable
  <2>4. QueueInv'
    BY <2>1, <1>inv, <1>t, StepTypes DEF QueueInv, CurInv
  <2>5. CleaningInv'
    <3> SUFFICES ASSUME NEW d \in cleaning, d[1] \in Kinds, Protected(d[1])
                 PROVE  d[2] < tracker'[d[1]]
      BY <2>1, <1>inv DEF CleaningInv
    <3>1. d[2] < tracker[d[1]] /\ d[2] \in Steps
      BY <1>inv, <1>t DEF CleaningInv, TypeOK, Dirs
    <3> QED BY <2>1, <2>2, <3>1, <1>t, StepTypes
  <2>6. StepInv'
    BY <2>1, <2>2, <1>inv, <1>t, StepTypes, SaveTypes DEF StepInv
  <2>7. SyncInv' /\ CurInv'
    BY <2>1, <1>inv DEF SyncInv, CurInv
  <2> QED BY <2>3, <2>4, <2>5, <2>6, <2>7 DEF StoreInv
<1>14. CASE WriteLegacyTracker
  <2>1. /\ pc = "legacy" /\ pc' = "publish"
        /\ UNCHANGED <<dirs, files, trainState, tracker, step, cur, queue, cleaning>>
    BY <1>14 DEF WriteLegacyTracker
  <2>2. TrackedInv' /\ CleaningInv' /\ SyncInv' /\ StepInv' /\ QueueInv'
    BY <2>1, <1>inv
    DEF TrackedInv, CleaningInv, SyncInv, StepInv, QueueInv, Complete, Loadable
  <2>3. CurInv'
    BY <2>1, <1>inv DEF CurInv
  <2> QED BY <2>2, <2>3 DEF StoreInv
<1>15. CASE Cleanup
  <2>1. /\ pc = "cleanup" /\ pc' \in {"top", "drain", "sweep"}
        /\ cleaning' = cleaning \cup Excess(cur)
        /\ UNCHANGED <<dirs, files, trainState, tracker, step, cur, queue>>
    BY <1>15 DEF Cleanup, Continue
  <2>2. CleaningInv'
    <3> SUFFICES ASSUME NEW d \in Excess(cur)
                 PROVE  /\ d[1] = "energon" => MostRecentK >= 0
                        /\ d[1] \in Kinds /\ Protected(d[1]) => d[2] < tracker[d[1]]
      BY <2>1, <1>inv DEF CleaningInv
    <3>1. CASE cur.kind = "nonPersistent"
      <4>1. d \in NonPersistentExcess(cur.step)
        BY <3>1 DEF Excess
      <4>2. d[1] = "nonPersistent"
        BY <4>1 DEF NonPersistentExcess, Oldest
      <4>3. CASE Protected("nonPersistent")
        <5>1. tracker["nonPersistent"] = cur.step
          BY <2>1, <3>1, <4>3, <1>inv DEF CurInv
        <5>2. cur.step \in dirs["nonPersistent"]
          BY <4>3, <5>1, <1>inv, <1>t, StepTypes, SaveTypes
          DEF TrackedInv, Complete, Loadable
        <5> QED BY <4>1, <4>2, <5>1, <5>2, <1>t, StepTypes, SaveTypes,
                   NonPersistentExcessOlder
      <4> QED BY <4>2, <4>3
    <3>2. CASE cur.kind # "nonPersistent"
      <4>1. d \in PersistentExcess
        BY <3>2 DEF Excess
      <4>2. ~(MostRecentK < 0) /\ (d[1] = "nonPersistent" => NestedNonPersistent)
        BY <4>1 DEF PersistentExcess, Oldest
      <4>3. MostRecentK \in Int
        BY ConstantsAssumption DEF ConstantsAssumption
      <4>4. ~OnlyLast
        BY <4>1, <4>2, <4>3, <1>t, LastIsKept
      <4> QED BY <4>2, <4>3, <4>4 DEF Protected, Undisturbed, Kinds
    <3> QED BY <3>1, <3>2
  <2>3. TrackedInv' /\ SyncInv' /\ StepInv' /\ QueueInv'
    BY <2>1, <1>inv DEF TrackedInv, SyncInv, StepInv, QueueInv, Complete, Loadable
  <2>4. CurInv'
    BY <2>1 DEF CurInv
  <2> QED BY <2>2, <2>3, <2>4 DEF StoreInv
<1>16. CASE \E d \in Dirs : Rmtree(d)
  <2> PICK d \in cleaning : Rmtree(d)
    BY <1>16 DEF Rmtree
  <2>1. UNCHANGED <<tracker, step, pc, cur, queue>> /\ cleaning' \subseteq cleaning
    BY DEF Rmtree
  <2>2. /\ \A k \in Kinds, t \in Steps : <<k, t>> # d =>
              /\ t \in dirs[k] => t \in dirs'[k]
              /\ files'[k][t] = files[k][t]
              /\ t \in trainState[k] => t \in trainState'[k]
        /\ d[1] # "energon" => files'["energon"] = files["energon"]
    <3>1. d \in Roots \X Steps
      BY <1>t DEF TypeOK, Dirs
    <3>2. PICK r \in Roots, u \in Steps : d = <<r, u>>
      BY <3>1
    <3>3. \/ files' = files
          \/ files' = [files EXCEPT ![r][u] = {}]
      BY <3>2 DEF Rmtree
    <3>4. \/ dirs' = dirs
          \/ dirs' = [dirs EXCEPT ![r] = @ \ {u}]
      BY <3>2 DEF Rmtree
    <3>5. \/ trainState' = trainState
          \/ trainState' = [k \in Kinds |-> IF k = r THEN trainState[k] \ {u}
                                            ELSE trainState[k]]
      BY <3>2 DEF Rmtree
    <3>6. \A k \in Roots, t \in Steps : k # r \/ t # u => files'[k][t] = files[k][t]
      BY <1>t, <3>2, <3>3 DEF TypeOK
    <3>7. \A k \in Roots, t \in Steps : (k # r \/ t # u) /\ t \in dirs[k] => t \in dirs'[k]
      BY <1>t, <3>2, <3>4 DEF TypeOK
    <3>8. r # "energon" => files'["energon"] = files["energon"]
      BY <1>t, <3>2, <3>3, SaveTypes DEF TypeOK
    <3> QED BY <3>2, <3>5, <3>6, <3>7, <3>8, SaveTypes
  \* What is removed is older than what is tracked, let alone in flight.
  <2>3. \A k \in Kinds, t \in Steps :
           Protected(k) /\ ~(t < tracker[k]) => <<k, t>> # d
    BY <1>inv DEF CleaningInv
  <2>4. Energon /\ (\E k \in Kinds : Protected(k))
           => files'["energon"] = files["energon"]
    <3>1. Energon /\ (\E k \in Kinds : Protected(k)) => MostRecentK < 0
      BY DEF Protected, Undisturbed, OnlyLast
    <3>2. d[1] = "energon" => MostRecentK >= 0
      BY <1>inv DEF CleaningInv
    <3>3. MostRecentK \in Int
      BY ConstantsAssumption DEF ConstantsAssumption
    <3> QED BY <2>2, <3>1, <3>2, <3>3
  <2>5. TrackedInv'
    <3> SUFFICES ASSUME NEW k \in Kinds, Protected(k), tracker[k] \notin {None, Torn}
                 PROVE  Complete(k, tracker[k])'
      BY <2>1 DEF TrackedInv
    <3>1. Complete(k, tracker[k]) /\ tracker[k] \in Steps
      BY <1>inv, <1>t, StepTypes DEF TrackedInv
    <3>2. <<k, tracker[k]>> # d
      BY <2>3, <3>1, <1>t, StepTypes
    <3> QED BY <2>1, <2>2, <2>4, <3>1, <3>2 DEF Complete, Loadable
  <2>6. QueueInv'
    <3> SUFFICES ASSUME NEW j \in 1 .. Len(queue), Protected(queue[j].kind)
                 PROVE  /\ queue[j].step \in dirs'[queue[j].kind]
                        /\ queue[j].written \subseteq files'[queue[j].kind][queue[j].step]
                        /\ Energon => files'["energon"][queue[j].step] = Ranks
                        /\ tracker[queue[j].kind] < queue[j].step
                        /\ queue[j].step <= step
                        /\ pc = "decide" => queue[j].step < step
                        /\ \A m \in j + 1 .. Len(queue) :
                             queue[m].kind = queue[j].kind
                                 => queue[j].step < queue[m].step
      BY <2>1 DEF QueueInv
    <3>1. queue[j].kind \in Kinds /\ queue[j].step \in Steps
      BY <1>t, StepTypes
    <3>2. tracker[queue[j].kind] < queue[j].step
      BY <1>inv DEF QueueInv
    <3>3. <<queue[j].kind, queue[j].step>> # d
      BY <2>3, <3>1, <3>2, <1>t, StepTypes
    <3> QED BY <2>2, <2>4, <3>1, <3>3, <1>inv DEF QueueInv
  <2>7. CleaningInv' /\ StepInv' /\ SyncInv'
    BY <2>1, <1>inv DEF CleaningInv, StepInv, SyncInv
  <2>8. CurInv'
    <3> SUFFICES ASSUME Protected(cur.kind) PROVE CurInv'
      BY <2>1 DEF CurInv
    <3>1. cur.kind \in Kinds /\ cur.step \in Steps
      BY <1>t, StepTypes
    <3>2. pc \in {"write", "trainState", "tracker"} => <<cur.kind, cur.step>> # d
      BY <2>3, <3>1, <1>inv, <1>t, StepTypes DEF CurInv
    <3> QED BY <2>1, <2>2, <2>4, <3>1, <3>2, <1>inv DEF CurInv
  <2> QED BY <2>5, <2>6, <2>7, <2>8 DEF StoreInv
<1>17. CASE Relaunch \/ Crash \/ InProcessRestart
  <2>1. /\ pc' = "down" /\ queue' = <<>> /\ cleaning' \subseteq cleaning
        /\ UNCHANGED <<dirs, files, trainState, tracker>>
    BY <1>17 DEF Relaunch, Crash, InProcessRestart, Fault, LoseProcess
  <2>2. TrackedInv' /\ CleaningInv'
    BY <2>1, <1>inv DEF TrackedInv, CleaningInv, Complete, Loadable
  <2>3. QueueInv' /\ StepInv' /\ CurInv' /\ SyncInv'
    BY <2>1 DEF QueueInv, StepInv, CurInv, SyncInv
  <2> QED BY <2>2, <2>3 DEF StoreInv
<1>18. CASE CrashInTrackerCopy
  <2>1. /\ pc' = "down" /\ queue' = <<>> /\ cleaning' = {}
        /\ \A k \in Kinds : tracker'[k] \in {tracker[k], Torn}
        /\ UNCHANGED <<dirs, files, trainState>>
    BY <1>18, <1>t DEF CrashInTrackerCopy, Fault, LoseProcess, TypeOK
  <2>2. TrackedInv'
    BY <2>1, <1>inv DEF TrackedInv, Complete, Loadable
  <2>3. QueueInv' /\ StepInv' /\ CurInv' /\ SyncInv' /\ CleaningInv'
    BY <2>1 DEF QueueInv, StepInv, CurInv, SyncInv, CleaningInv
  <2> QED BY <2>2, <2>3 DEF StoreInv
<1>19. CASE UNCHANGED vars
  BY <1>19, <1>inv
  DEF vars, StoreInv, TrackedInv, QueueInv, CleaningInv, StepInv, CurInv, SyncInv,
      Complete, Loadable
<1> QED
  BY <1>1, <1>2, <1>3, <1>4, <1>5, <1>6, <1>7, <1>8, <1>9, <1>10, <1>11, <1>12, <1>13,
     <1>14, <1>15, <1>16, <1>17, <1>18, <1>19
  DEF Next, Loop, SaveCheckpoint, Finalize

\* The strengthened invariant holds of every reachable state.
THEOREM StoreInvariant == Spec => [](TypeOK /\ StoreInv)
<1> DEFINE Inv == TypeInv /\ LastInv /\ StoreInv
<1>1. Init => Inv
  BY TypeInvInit, LastInvInit, StoreInvInit
<1>2. Inv /\ [Next]_vars => Inv'
  BY TypeInvNext, LastInvNext, StoreInvNext
<1>3. Inv => TypeOK /\ StoreInv
  BY DEF TypeInv
<1> QED BY <1>1, <1>2, <1>3, PTL DEF Spec

\* When every checkpoint is kept and the last step is a save step, or the only persistent
\* checkpoint is the last one and the others have a directory of their own, both trackers always
\* name a whole checkpoint: at any crash, with any number of ranks, saves in flight and restarts.
THEOREM UndisturbedTrackersWhole ==
    ASSUME Undisturbed
    PROVE  Spec => []TrackersWhole
<1>1. StoreInv => TrackersWhole
  <2>1. Protected("persistent") /\ Protected("nonPersistent")
    BY DEF Protected, Undisturbed, OnlyLast
  <2> QED BY <2>1 DEF StoreInv, TrackedInv, TrackersWhole, Kinds
<1> QED BY <1>1, StoreInvariant, PTL

\* Under the same assumptions so is the checkpoint a restart selects: in particular when
\* retention trims overlapping asynchronous saves all along the run.
THEOREM UndisturbedResumePoint ==
    ASSUME Undisturbed
    PROVE  Spec => []ResumePointWhole
<1>1. TrackersWhole => ResumePointWhole
  BY SaveTypes DEF TrackersWhole, ResumePointWhole, SelectedKind
<1> QED BY <1>1, UndisturbedTrackersWhole, PTL

\* Whatever most_recent_k is, overlapping non-persistent saves to a directory of
\* their own never lose the one their tracker names: max_iteration keeps retention
\* behind it.
THEOREM NonPersistentTrackerWhole ==
    ASSUME ~NestedNonPersistent, ~Energon
    PROVE  Spec => [](tracker["nonPersistent"] \notin {None, Torn}
                        => Complete("nonPersistent", tracker["nonPersistent"]))
<1>1. StoreInv => (tracker["nonPersistent"] \notin {None, Torn}
                        => Complete("nonPersistent", tracker["nonPersistent"]))
  BY SaveTypes DEF StoreInv, TrackedInv, Protected
<1> QED BY <1>1, StoreInvariant, PTL

-----------------------------------------------------------------------------
(* The Megatron-LM tracker, and the saves in flight. *)

\* A complete checkpoint of a protected kind stays complete, unless its directory is
\* opened for another save or held by a removal.
LEMMA CompletePersists ==
    ASSUME TypeInv, StoreInv, [Next]_vars,
           NEW k \in Kinds, Protected(k), NEW s \in Steps, Complete(k, s),
           ~(pc = "open" /\ cur.kind = k /\ cur.step = s), <<k, s>> \notin cleaning
    PROVE  Complete(k, s)'
<1> USE DEF disk, process
<1>t. /\ dirs \in [Roots -> SUBSET Steps]
      /\ files \in [Roots -> [Steps -> SUBSET Ranks]]
      /\ trainState \in [Kinds -> SUBSET Steps]
      /\ cur.kind \in Kinds /\ cur.step \in Steps
  BY StepTypes DEF TypeInv, TypeOK
<1>k. k \in Roots /\ k # "energon" /\ cur.kind \in Roots /\ cur.kind # "energon" /\ "energon" \in Roots
  BY <1>t, SaveTypes
<1>c. /\ s \in dirs[k] /\ files[k][s] = Ranks /\ s \in trainState[k]
      /\ Energon => files["energon"][s] = Ranks
  BY DEF Complete, Loadable
<1> SUFFICES /\ s \in dirs'[k] /\ files'[k][s] = Ranks /\ s \in trainState'[k]
             /\ Energon => files'["energon"][s] = Ranks
  BY DEF Complete, Loadable
<1>1. CASE SaveLoaderState
  <2>1. /\ dirs' = [dirs EXCEPT !["energon"] = @ \cup {cur.step}]
        /\ files' = [files EXCEPT !["energon"][cur.step] = Ranks]
        /\ trainState' = trainState
    BY <1>1 DEF SaveLoaderState
  <2>2. files'[k] = files[k] /\ dirs'[k] = dirs[k]
    BY <1>t, <1>k, <2>1
  <2>3. files'["energon"][s] = IF s = cur.step THEN Ranks ELSE files["energon"][s]
    BY <1>t, <1>k, <2>1
  <2> QED BY <1>c, <2>1, <2>2, <2>3
<1>2. CASE OpenCheckpoint
  <2>1. /\ dirs' = [dirs EXCEPT ![cur.kind] = @ \cup {cur.step}]
        /\ files' = [files EXCEPT ![cur.kind][cur.step] = {}]
        /\ trainState' = trainState /\ pc = "open"
    BY <1>2 DEF OpenCheckpoint
  <2>2. files'["energon"] = files["energon"] /\ s \in dirs'[k]
    BY <1>t, <1>k, <1>c, <2>1
  <2>3. files'[k][s] = files[k][s]
    BY <1>t, <1>k, <2>1
  <2> QED BY <1>c, <2>1, <2>2, <2>3
<1>3. CASE \E r \in Ranks : WriteFiles(r) \/ BackgroundWrite(r)
  <2>1. PICK r \in Ranks, j \in Kinds, u \in Steps : files' = [files EXCEPT ![j][u] = @ \cup {r}]
    <3>1. CASE \E r \in Ranks : WriteFiles(r)
      BY <1>t, <3>1 DEF WriteFiles
    <3>2. CASE \E r \in Ranks : BackgroundWrite(r)
      <4>1. PICK r \in Ranks, i \in 1 .. Len(queue) :
                files' = [files EXCEPT ![queue[i].kind][queue[i].step] = @ \cup {r}]
        BY <3>2 DEF BackgroundWrite
      <4> QED BY <4>1, StepTypes DEF TypeInv
    <3> QED BY <1>3, <3>1, <3>2
  <2>2. UNCHANGED <<dirs, trainState>>
    BY <1>3 DEF WriteFiles, BackgroundWrite
  <2>3. files'["energon"] = files["energon"]
    BY <1>t, <2>1, SaveTypes
  <2>4. files'[k][s] = files[k][s] \/ files'[k][s] = files[k][s] \cup {r}
    BY <1>t, <1>k, <2>1, SaveTypes
  <2> QED BY <1>c, <2>2, <2>3, <2>4
<1>4. CASE WriteTrainState
  BY <1>4, <1>t, <1>c DEF WriteTrainState
<1>5. CASE \E d \in Dirs : Rmtree(d)
  <2>1. PICK j \in Roots, u \in Steps : Rmtree(<<j, u>>)
    BY <1>5 DEF Dirs
  <2>2. <<j, u>> \in cleaning /\ (j # k \/ u # s)
    BY <2>1 DEF Rmtree
  <2>3. j = "energon" => ~Energon
    <3>1. j = "energon" => ~(MostRecentK < 0)
      BY <2>2, ConstantsAssumption DEF ConstantsAssumption, StoreInv, CleaningInv
    <3> QED BY <3>1 DEF Protected, Undisturbed, OnlyLast
  <2>4. /\ files' = files \/ files' = [files EXCEPT ![j][u] = {}]
        /\ dirs' = dirs \/ dirs' = [dirs EXCEPT ![j] = @ \ {u}]
        /\ \/ trainState' = trainState
           \/ trainState' = [i \in Kinds |-> IF i = j THEN trainState[i] \ {u} ELSE trainState[i]]
    BY <2>1 DEF Rmtree
  <2>5. files'[k][s] = files[k][s] /\ s \in dirs'[k] /\ s \in trainState'[k]
    BY <1>t, <1>k, <1>c, <2>2, <2>4
  <2>6. j # "energon" => files'["energon"] = files["energon"]
    BY <1>t, <1>k, <2>4
  <2> QED BY <1>c, <2>3, <2>5, <2>6
<1>6. CASE UNCHANGED <<dirs, files, trainState>>
  BY <1>6, <1>c
<1> QED
  BY <1>1, <1>2, <1>3, <1>4, <1>5, <1>6
  DEF Next, Loop, SaveCheckpoint, Finalize, Load, TrainStep, IntervalSave, NonPersistentSave, NoSave, EndLoop,
      Finish, SaveBarrier, FinalizeHead, WriteTracker, WriteLegacyTracker, Publish, Cleanup, SweepDone,
      SignalSave, Relaunch, Crash, InProcessRestart, CrashInTrackerCopy, vars

\* What latest_checkpointed_iteration.txt names is whole and not ahead of its Bridge
\* counterpart, and removals are behind it as well.
LegacyInv ==
    /\ \A k \in Kinds : Protected(k) =>
          /\ legacy[k] # None => Complete(k, legacy[k])
          /\ tracker[k] # Torn => legacy[k] <= tracker[k]
    /\ \A d \in cleaning : d[1] \in Kinds /\ Protected(d[1]) => d[2] < legacy[d[1]]
    /\ pc \in {"publish", "cleanup"} /\ Protected(cur.kind) => legacy[cur.kind] = cur.step

LEMMA LegacyInvNext ==
    ASSUME TypeInv, LastInv, StoreInv, LegacyInv, [Next]_vars
    PROVE  LegacyInv'
<1> USE DEF disk, process
<1>t. /\ TypeOK /\ cur.kind \in Kinds /\ cur.step \in Steps
      /\ legacy \in [Kinds -> Steps \cup {None}] /\ tracker \in [Kinds -> Steps \cup {None, Torn}]
      /\ \A k \in Kinds : legacy[k] \in Int /\ tracker[k] \in Int /\ (legacy[k] # None => legacy[k] \in Steps)
      /\ \A x \in Steps : x \in Int /\ x > 0
  BY StepTypes, ConstantsAssumption DEF ConstantsAssumption, TypeInv, TypeOK, Steps, None, Torn
<1>inv. TrackedInv /\ CleaningInv /\ StepInv /\ CurInv
  BY DEF StoreInv
<1>w. ASSUME NEW k \in Kinds, Protected(k), NEW s \in Steps, s = legacy[k]
      PROVE  Complete(k, s) /\ Complete(k, s)'
  <2>1. Complete(k, s)
    BY <1>w, <1>t, SaveTypes DEF LegacyInv
  <2>2. <<k, s>> \notin cleaning
    BY <1>w, <1>t DEF LegacyInv
  <2>3. ~(pc = "open" /\ cur.kind = k /\ cur.step = s)
    BY <1>w, <1>t, <1>inv DEF LegacyInv, CurInv, StepInv
  <2> QED BY <1>w, <2>1, <2>2, <2>3, CompletePersists
<1>1. CASE WriteLegacyTracker
  <2>1. /\ pc = "legacy" /\ pc' = "publish"
        /\ legacy'[cur.kind] = cur.step
        /\ \A k \in Kinds : k # cur.kind => legacy'[k] = legacy[k]
        /\ UNCHANGED <<dirs, files, trainState, tracker, cur, cleaning>>
    BY <1>1, <1>t DEF WriteLegacyTracker
  <2>2. Protected(cur.kind) =>
            /\ tracker[cur.kind] = cur.step /\ Complete(cur.kind, cur.step)
            /\ legacy[cur.kind] <= cur.step
    BY <2>1, <1>inv, <1>t, SaveTypes DEF CurInv, TrackedInv, LegacyInv, StepInv
  <2>3. ASSUME NEW k \in Kinds, Protected(k)
        PROVE  /\ legacy'[k] # None => Complete(k, legacy'[k])
               /\ tracker[k] # Torn => legacy'[k] <= tracker[k]
    BY <2>1, <2>2, <2>3, <1>t DEF LegacyInv
  <2>4. ASSUME NEW d \in cleaning, d[1] \in Kinds, Protected(d[1])
        PROVE  d[2] < legacy'[d[1]]
    <3>1. d[2] \in Int
      BY <1>t DEF TypeOK, Dirs
    <3> QED BY <2>1, <2>2, <2>4, <3>1, <1>t DEF LegacyInv
  <2> QED BY <2>1, <2>3, <2>4 DEF LegacyInv, Complete, Loadable
<1>2. CASE WriteTracker
  <2>1. /\ pc = "tracker" /\ pc' = "legacy"
        /\ tracker'[cur.kind] = cur.step
        /\ \A k \in Kinds : k # cur.kind => tracker'[k] = tracker[k]
        /\ UNCHANGED <<dirs, files, trainState, legacy, cur, cleaning>>
    BY <1>2, <1>t DEF WriteTracker
  <2>2. Protected(cur.kind) => tracker[cur.kind] < cur.step /\ tracker[cur.kind] # Torn
    BY <2>1, <1>inv, <1>t DEF CurInv, StepInv
  <2> QED BY <2>1, <2>2, <1>t DEF LegacyInv, Complete, Loadable
<1>3. CASE Cleanup
  <2>1. /\ pc = "cleanup" /\ pc' \in {"top", "drain", "sweep"}
        /\ cleaning' = cleaning \cup Excess(cur)
        /\ UNCHANGED <<dirs, files, trainState, tracker, legacy, cur>>
    BY <1>3 DEF Cleanup, Continue
  <2>2. ASSUME NEW d \in Excess(cur), d[1] \in Kinds, Protected(d[1])
        PROVE  d[2] < legacy[d[1]]
    <3>1. d[1] = cur.kind
      <4>1. CASE cur.kind = "nonPersistent"
        BY <4>1 DEF Excess, NonPersistentExcess, Oldest
      <4>2. CASE cur.kind # "nonPersistent"
        <5>k. cur.kind \in Kinds
          BY <1>t
        <5>1. d \in PersistentExcess
          BY <2>2, <4>2 DEF Excess
        <5>2. ~(MostRecentK < 0) /\ (d[1] = "nonPersistent" => NestedNonPersistent)
          BY <5>1 DEF PersistentExcess, Oldest
        <5>3. d[1] # "nonPersistent"
          BY <5>2, <2>2 DEF Protected, Undisturbed, OnlyLast
        <5> QED BY <2>2, <4>2, <5>k, <5>3 DEF Kinds
      <4> QED BY <4>1, <4>2
    <3>2. legacy[d[1]] = tracker[d[1]]
      BY <2>1, <2>2, <3>1, <1>inv DEF LegacyInv, CurInv
    <3>3. d[2] < tracker'[d[1]]
      BY <2>1, <2>2, StoreInvNext DEF StoreInv, CleaningInv
    <3> QED BY <2>1, <3>2, <3>3
  <2> QED BY <2>1, <2>2 DEF LegacyInv, Complete, Loadable
<1>4. CASE /\ legacy' = legacy /\ cleaning' \subseteq cleaning
           /\ \A k \in Kinds : tracker'[k] \in {tracker[k], Torn}
           /\ pc' \in {"publish", "cleanup"} =>
                  pc \in {"publish", "cleanup"} /\ cur' = cur
  <2>1. ASSUME NEW k \in Kinds, Protected(k), legacy[k] # None
        PROVE  Complete(k, legacy[k])'
    <3>1. PICK s \in Steps : s = legacy[k]
      BY <2>1, <1>t
    <3>2. Complete(k, s)'
      BY <1>w, <2>1, <3>1
    <3> QED BY <1>4, <3>1, <3>2 DEF Complete, Loadable
  <2> QED BY <1>4, <2>1, <1>t DEF LegacyInv
<1>5. CASE Relaunch \/ Crash \/ InProcessRestart \/ CrashInTrackerCopy
  <2>1. /\ legacy' = legacy /\ cleaning' \subseteq cleaning /\ pc' = "down"
        /\ \A k \in Kinds : tracker'[k] \in {tracker[k], Torn}
    BY <1>5, <1>t DEF Relaunch, Crash, InProcessRestart, CrashInTrackerCopy, Fault, LoseProcess
  <2> QED BY <1>4, <2>1
<1>6. CASE Load \/ TrainStep \/ IntervalSave \/ NonPersistentSave \/ NoSave \/ EndLoop \/ Finish \/ SignalSave
  BY <1>4, <1>6 DEF Load, TrainStep, IntervalSave, NonPersistentSave, NoSave, EndLoop, Finish, SignalSave,
                    BeginSave
<1>7. CASE SaveLoaderState \/ OpenCheckpoint \/ SaveBarrier \/ (\E r \in Ranks : WriteFiles(r) \/ BackgroundWrite(r))
  BY <1>4, <1>7 DEF SaveLoaderState, OpenCheckpoint, Continue, SaveBarrier, WriteFiles, BackgroundWrite
<1>8. CASE FinalizeHead \/ WriteTrainState \/ Publish \/ SweepDone \/ (\E d \in Dirs : Rmtree(d)) \/ UNCHANGED vars
  BY <1>4, <1>8 DEF FinalizeHead, WriteTrainState, Publish, SweepDone, Continue, Rmtree, vars
<1> QED
  BY <1>1, <1>2, <1>3, <1>5, <1>6, <1>7, <1>8 DEF Next, Loop, SaveCheckpoint, Finalize

\* Under the same assumptions what the Megatron-LM tracker names is whole, and it is never
\* ahead of the Bridge tracker, although a crash may fall between the two.
THEOREM UndisturbedLegacyWhole ==
    ASSUME Undisturbed
    PROVE  Spec => []LegacyTrackerWhole
<1> DEFINE Inv == TypeInv /\ LastInv /\ StoreInv /\ LegacyInv
<1>1. Init => Inv
  <2>1. Init => LegacyInv
    BY DEF Init, LegacyInv, None
  <2> QED BY <2>1, TypeInvInit, LastInvInit, StoreInvInit
<1>2. Inv /\ [Next]_vars => Inv'
  BY TypeInvNext, LastInvNext, StoreInvNext, LegacyInvNext
<1>3. Inv => LegacyTrackerWhole
  <2>1. Protected("persistent") /\ Protected("nonPersistent")
    BY DEF Protected, Undisturbed, OnlyLast
  <2> QED BY <2>1 DEF LegacyInv, LegacyTrackerWhole, Kinds
<1> QED BY <1>1, <1>2, <1>3, PTL DEF Spec

\* Under the same assumptions no removal thread ever holds the directory of a save that is
\* still in flight, of either kind.
THEOREM UndisturbedInFlight ==
    ASSUME Undisturbed
    PROVE  Spec => []InFlightNotRemoved
<1>1. TypeOK /\ StoreInv => InFlightNotRemoved
  <2> SUFFICES ASSUME TypeOK, StoreInv, NEW i \in 1 .. Len(queue),
                      <<queue[i].kind, queue[i].step>> \in cleaning
               PROVE  FALSE
    BY DEF InFlightNotRemoved
  <2>1. queue[i].kind \in Kinds /\ queue[i].step \in Int /\ tracker[queue[i].kind] \in Int
    BY StepTypes
  <2>2. Protected(queue[i].kind)
    BY <2>1 DEF Protected, Undisturbed, OnlyLast
  <2>3. queue[i].step < tracker[queue[i].kind]
    BY <2>1, <2>2 DEF StoreInv, CleaningInv
  <2>4. tracker[queue[i].kind] < queue[i].step
    BY <2>2 DEF StoreInv, QueueInv
  <2> QED BY <2>1, <2>3, <2>4
<1> QED BY <1>1, StoreInvariant, PTL
-----------------------------------------------------------------------------
(* How many non-persistent checkpoints retention leaves. *)

\* A set of naturals has a least member: a smallest of the intervals 0 .. x that end
\* in it.
LEMMA LeastOf ==
    ASSUME NEW S, S \subseteq Nat, NEW n \in S
    PROVE  \E x \in S : \A y \in S : x <= y
<1> DEFINE Below == {U \in SUBSET (0 .. n) : \E x \in S : U = 0 .. x}
<1>1. Below # {}
  <2>1. 0 .. n \in Below
    OBVIOUS
  <2> QED BY <2>1
<1>2. Below \subseteq FiniteSubsetsOf(0 .. n)
  BY FS_Interval, FS_FiniteSubsetsOfFinite
<1>3. PICK U \in Below : \A V \in Below : ~(<<V, U>> \in StrictSubsetOrdering(0 .. n))
  <2> HIDE DEF Below
  <2> QED BY <1>1, <1>2, FS_StrictSubsetOrderingWellFounded, WFMin
<1>4. PICK x \in S : U = 0 .. x
  OBVIOUS
<1>5. ASSUME NEW y \in S PROVE x <= y
  <2>1. CASE y >= n
    <3>1. x \in 0 .. n
      BY <1>4
    <3> QED BY <3>1, <2>1
  <2>2. CASE y < n /\ y < x
    <3>1. 0 .. y \in Below
      BY <2>2
    <3>2. (0 .. y) \subseteq (0 .. x) /\ (0 .. y) # (0 .. x)
      BY <2>2
    <3> QED BY <1>3, <1>4, <3>1, <3>2 DEF StrictSubsetOrdering
  <2> QED BY <2>1, <2>2
<1> QED BY <1>5

\* In one directory, all but `keep' checkpoints at most are among the oldest.
LEMMA OldestLeavesFew ==
    ASSUME NEW S \in SUBSET Nat, IsFiniteSet(S), NEW keep \in Nat
    PROVE  Cardinality({s \in S : <<"nonPersistent", s>>
                                      \notin Oldest({"nonPersistent"} \X S, keep)}) <= keep
<1> DEFINE C == {"nonPersistent"} \X S
           Kept == {s \in S : <<"nonPersistent", s>> \notin Oldest(C, keep)}
<1>1. IsFiniteSet(Kept) /\ Cardinality(Kept) \in Nat
  BY FS_Subset, FS_CardinalityType
<1> SUFFICES ASSUME Cardinality(Kept) > keep PROVE FALSE
  BY <1>1
<1>2. Kept # {}
  <2> HIDE DEF Kept
  <2>1. Kept = {} => Cardinality(Kept) = 0
    BY FS_EmptySet
  <2> QED BY <2>1
<1>3. PICK x \in Kept : \A y \in Kept : x <= y
  BY <1>2, LeastOf
<1> DEFINE After == {e \in C : SortsAfter(e, <<"nonPersistent", x>>)}
           Others == {"nonPersistent"} \X (Kept \ {x})
<1>4. Others \subseteq After
  <2>1. ASSUME NEW s \in Kept, s # x PROVE <<"nonPersistent", s>> \in After
    <3>1. s \in Nat /\ x \in Nat /\ x <= s
      BY <1>3
    <3>2. SortsAfter(<<"nonPersistent", s>>, <<"nonPersistent", x>>)
      BY <2>1, <3>1 DEF SortsAfter
    <3> QED BY <3>2
  <2>2. \A e \in Others : \E s \in Kept : s # x /\ e = <<"nonPersistent", s>>
    <3> HIDE DEF Kept
    <3> QED OBVIOUS
  <2> HIDE DEF Kept, After, Others
  <2> QED BY <2>1, <2>2
<1>5. IsFiniteSet(After)
  <2>1. IsFiniteSet({"nonPersistent"}) /\ IsFiniteSet(C)
    BY FS_Singleton, FS_Product
  <2> QED BY <2>1, FS_Subset
<1>6. Cardinality(Others) = Cardinality(Kept) - 1
  <2>1. IsFiniteSet(Kept \ {x}) /\ Cardinality(Kept \ {x}) = Cardinality(Kept) - 1
    BY <1>1, FS_RemoveElement
  <2>2. IsFiniteSet({"nonPersistent"}) /\ Cardinality({"nonPersistent"}) = 1
    BY FS_Singleton
  <2>3. Cardinality(Others) = 1 * (Cardinality(Kept) - 1)
    BY <2>1, <2>2, FS_Product
  <2> QED BY <2>3, <1>1
<1>7. Cardinality(After) >= Cardinality(Others) /\ Cardinality(After) \in Nat
  BY <1>4, <1>5, FS_Subset, FS_CardinalityType
<1>8. Cardinality(After) >= keep
  BY <1>1, <1>6, <1>7
<1>9. <<"nonPersistent", x>> \in Oldest(C, keep)
  BY <1>8 DEF Oldest
<1> QED BY <1>9

\* The non-persistent checkpoints up to the tracked one that no removal holds.
Standing == {s \in dirs["nonPersistent"] :
                s <= tracker["nonPersistent"] /\ <<"nonPersistent", s>> \notin cleaning}

\* Between the write of the tracker and the removal that follows one more may stand.
Trimming == pc \in {"legacy", "publish", "cleanup"} /\ cur.kind = "nonPersistent"

\* No save goes beyond the training step, and one that opens a non-persistent directory is
\* of a step after the tracked one: it does not count until retention has looked at it.
BoundInv ==
    /\ pc # "down" => tracker["nonPersistent"] <= step
    /\ pc = "decide" => tracker["nonPersistent"] < step
    /\ pc \in {"loader", "open"} =>
          /\ cur.step = step
          /\ cur.kind = "nonPersistent" => tracker["nonPersistent"] < step
    /\ pc \in {"write", "trainState", "tracker"} => cur.step <= step
    /\ \A i \in 1 .. Len(queue) : queue[i].step <= step
    /\ Trimming => tracker["nonPersistent"] = cur.step
    /\ faults = 0 /\ ~Trimming => Cardinality(Standing) <= NonPersistentKeep

\* A step that adds no directory that counts leaves the bound as it was.
LEMMA StandingShrinks ==
    ASSUME TypeOK, BoundInv, Standing' \subseteq Standing, faults' >= faults, faults' \in Nat,
           faults' = 0 /\ ~Trimming' => ~Trimming
    PROVE  faults' = 0 /\ ~Trimming' => Cardinality(Standing') <= NonPersistentKeep
<1>1. faults \in Nat /\ NonPersistentKeep \in Nat
  BY ConstantsAssumption DEF ConstantsAssumption, TypeOK, NonPersistentKeep
<1>2. IsFiniteSet(Standing)
  <2>1. IsFiniteSet(Steps)
    BY FS_Interval, ConstantsAssumption DEF ConstantsAssumption, Steps
  <2>2. Standing \subseteq Steps
    BY SaveTypes DEF Standing, TypeOK
  <2> QED BY <2>1, <2>2, FS_Subset
<1>3. /\ Cardinality(Standing') <= Cardinality(Standing)
      /\ Cardinality(Standing') \in Nat /\ Cardinality(Standing) \in Nat
  BY <1>2, FS_Subset, FS_CardinalityType
<1> QED BY <1>1, <1>3 DEF BoundInv

LEMMA BoundInvInit == Init => BoundInv
<1> SUFFICES ASSUME Init PROVE BoundInv
  OBVIOUS
<1>1. Standing = {}
  BY SaveTypes DEF Init, Standing
<1>2. Cardinality(Standing) = 0 /\ 0 <= NonPersistentKeep
  BY <1>1, FS_EmptySet, ConstantsAssumption DEF ConstantsAssumption, NonPersistentKeep
<1> QED BY <1>2 DEF Init, BoundInv, Trimming

\* Retention of a non-persistent save brings the count back to what it keeps.
LEMMA CleanupTrims ==
    ASSUME TypeOK, BoundInv, Cleanup, cur.kind = "nonPersistent"
    PROVE  Cardinality(Standing') <= NonPersistentKeep
<1> DEFINE S == {s \in dirs["nonPersistent"] : s <= cur.step}
           Left == {s \in S : <<"nonPersistent", s>>
                                  \notin Oldest({"nonPersistent"} \X S, NonPersistentKeep)}
<1>1. S \in SUBSET Steps /\ Steps \subseteq Nat
  BY SaveTypes, ConstantsAssumption DEF ConstantsAssumption, Steps, TypeOK
<1>2. IsFiniteSet(S)
  BY <1>1, FS_Interval, FS_Subset, ConstantsAssumption DEF ConstantsAssumption, Steps
<1>3. NonPersistentKeep \in Nat
  BY ConstantsAssumption DEF ConstantsAssumption, NonPersistentKeep
<1>4. Cardinality(Left) <= NonPersistentKeep
  BY <1>1, <1>2, <1>3, OldestLeavesFew
<1>5. Excess(cur) = Oldest({"nonPersistent"} \X S, NonPersistentKeep)
  <2>1. {d \in {"nonPersistent"} \X dirs["nonPersistent"] : d[2] <= cur.step}
          = {"nonPersistent"} \X S
    OBVIOUS
  <2> QED BY <2>1 DEF Excess, NonPersistentExcess
<1>6. tracker["nonPersistent"] = cur.step
  BY DEF BoundInv, Trimming, Cleanup
<1>7. Standing' \subseteq Left
  BY <1>5, <1>6 DEF Cleanup, disk, Standing
<1>8. IsFiniteSet(Left) /\ Cardinality(Left) \in Nat
  <2>1. Left \in SUBSET S
    OBVIOUS
  <2> HIDE DEF Left
  <2> QED BY <1>2, <2>1, FS_Subset, FS_CardinalityType
<1>9. Cardinality(Standing') <= Cardinality(Left) /\ Cardinality(Standing') \in Nat
  BY <1>7, <1>8, FS_Subset, FS_CardinalityType
<1> QED BY <1>3, <1>4, <1>8, <1>9

\* One step per action: opening a directory, writing a tracker, the removals; the rest
\* leaves what counts alone.
LEMMA BoundInvNext ==
    ASSUME TypeInv, BoundInv, [Next]_vars
    PROVE  BoundInv'
<1> USE DEF disk, process
<1>t. /\ TypeOK /\ TypeOK' /\ step \in Int /\ cur.kind \in Kinds /\ cur.step \in Int
      /\ \A k \in Kinds : tracker[k] \in Int
      /\ dirs \in [Roots -> SUBSET Steps] /\ tracker \in [Kinds -> Steps \cup {None, Torn}]
      /\ \A i \in 1 .. Len(queue) : queue[i].step \in Int
      /\ faults \in Nat
      /\ \A s \in Steps : s \in Int
  BY TypeInvNext, StepTypes, ConstantsAssumption DEF TypeInv, TypeOK, ConstantsAssumption
<1>n. "nonPersistent" \in Kinds /\ "nonPersistent" \in Roots
  BY SaveTypes
<1> DEFINE Bounded == faults = 0 /\ ~Trimming => Cardinality(Standing) <= NonPersistentKeep
           Behind == /\ pc # "down" => tracker["nonPersistent"] <= step
                     /\ pc = "decide" => tracker["nonPersistent"] < step
                     /\ pc \in {"loader", "open"} =>
                           /\ cur.step = step
                           /\ cur.kind = "nonPersistent" => tracker["nonPersistent"] < step
                     /\ pc \in {"write", "trainState", "tracker"} => cur.step <= step
                     /\ \A i \in 1 .. Len(queue) : queue[i].step <= step
                     /\ Trimming => tracker["nonPersistent"] = cur.step
<1>s. SUFFICES Behind' /\ Bounded'
  BY DEF BoundInv
<1>b. Behind
  BY DEF BoundInv
<1>k. ASSUME Standing' \subseteq Standing, faults' = faults,
             faults' = 0 /\ ~Trimming' => ~Trimming
      PROVE  Bounded'
  BY <1>k, <1>t, StandingShrinks
<1>1. CASE Load
  <2>1. queue = <<>> /\ cache = NoCache /\ pc = "down" /\ pc' = "top"
        /\ UNCHANGED <<dirs, tracker, cur, queue, cleaning, faults>>
    BY <1>1 DEF Load, TypeInv
  <2>2. \A k \in Kinds : ReadTrainState(k) = tracker[k]
    BY <2>1 DEF ReadTrainState, NoCache
  <2>3. \A k \in Kinds : tracker[k] # Torn
    BY <1>1, <2>2 DEF Load
  <2>4. tracker["nonPersistent"] <= step'
    <3>1. step' = tracker[SelectedKind([k \in Kinds |-> tracker[k]])]
      BY <1>1, <2>2 DEF Load, SelectedKind, Kinds
    <3>2. \A k \in Kinds : tracker[k] \in Int /\ tracker[k] >= 0
      BY <1>t, <2>3, StepTypes DEF None, Torn
    <3> QED BY <3>1, <3>2 DEF SelectedKind, Kinds, None
  <2>5. Behind'
    BY <2>1, <2>4 DEF Trimming
  <2> QED BY <2>1, <2>5, <1>k DEF Standing, Trimming
<1>2. CASE FinalizeHead
  <2>1. /\ queue # <<>> /\ pc' = "trainState"
        /\ cur'.step = queue[1].step /\ queue' = Tail(queue)
        /\ UNCHANGED <<dirs, tracker, step, cleaning, faults>>
        /\ pc \in {"top", "drain"}
    BY <1>2 DEF FinalizeHead, HeadDone
  <2>2. /\ Len(queue) \in Nat /\ 1 \in 1 .. Len(queue)
        /\ \A i \in 1 .. Len(queue') : i + 1 \in 1 .. Len(queue) /\ queue'[i] = queue[i + 1]
    BY <2>1, <1>t DEF TypeOK
  <2>3. Behind'
    BY <2>1, <2>2, <1>b DEF Trimming
  <2> QED BY <2>1, <2>3, <1>k DEF Standing, Trimming
<1>3. CASE TrainStep
  <2>1. /\ pc = "top" /\ pc' = "decide" /\ step' = step + 1
        /\ UNCHANGED <<dirs, tracker, cur, queue, cleaning, faults>>
    BY <1>3 DEF TrainStep
  <2>2. Behind'
    BY <2>1, <1>b, <1>t, <1>n DEF Trimming
  <2> QED BY <2>1, <2>2, <1>k DEF Standing, Trimming
<1>4. CASE SignalSave \/ IntervalSave \/ NonPersistentSave \/ EndLoop \/ NoSave
  <2>1. /\ pc \in {"decide", "top"} /\ pc' \in {"loader", "open", "drain", "top"}
        /\ pc' \in {"loader", "open"} => cur'.step = step
        /\ pc = "top" => pc' = "drain" \/ cur'.kind = "persistent"
        /\ UNCHANGED <<dirs, tracker, step, queue, cleaning, faults>>
    BY <1>4 DEF SignalSave, IntervalSave, NonPersistentSave, EndLoop, NoSave, BeginSave
  <2>2. Behind'
    BY <2>1, <1>b DEF Trimming
  <2> QED BY <2>1, <2>2, <1>k DEF Standing, Trimming
<1>5. CASE OpenCheckpoint
  <2>1. /\ pc = "open" /\ pc' \in {"top", "drain", "write"}
        /\ dirs' = [dirs EXCEPT ![cur.kind] = @ \cup {cur.step}]
        /\ UNCHANGED <<tracker, step, cur, cleaning, faults>>
    BY <1>5 DEF OpenCheckpoint, Continue
  <2>2. \/ queue' = queue
        \/ queue' = Append(queue, [kind |-> cur.kind, step |-> cur.step, written |-> {}])
    BY <1>5 DEF OpenCheckpoint
  <2>3. \A i \in 1 .. Len(queue') : queue'[i].step <= step
    <3>1. queue \in Seq(AsyncCall) /\ Len(queue) \in Nat
      BY <1>t DEF TypeOK
    <3>2. CASE queue' = queue
      BY <3>2, <1>b
    <3>3. CASE queue' = Append(queue, [kind |-> cur.kind, step |-> cur.step, written |-> {}])
      <4>1. \A i \in 1 .. Len(queue') :
               IF i \in 1 .. Len(queue) THEN queue'[i] = queue[i] ELSE queue'[i].step = cur.step
        BY <3>1, <3>3
      <4> QED BY <4>1, <1>b, <1>t, <2>1
    <3> QED BY <2>2, <3>2, <3>3
  <2>4. Behind'
    BY <2>1, <2>3, <1>b, <1>t DEF Trimming
  <2>5. Standing' \subseteq Standing
    BY <2>1, <1>b, <1>t, <1>n, SaveTypes DEF Standing
  <2> QED BY <2>1, <2>4, <2>5, <1>k DEF Trimming
<1>6. CASE WriteTracker
  <2>1. /\ pc = "tracker" /\ pc' = "legacy"
        /\ tracker' = [tracker EXCEPT ![cur.kind] = cur.step]
        /\ UNCHANGED <<dirs, step, cur, queue, cleaning, faults>>
    BY <1>6 DEF WriteTracker
  <2>2. Behind'
    BY <2>1, <1>b, <1>t, <1>n DEF Trimming
  <2>3. cur.kind # "nonPersistent" => tracker'["nonPersistent"] = tracker["nonPersistent"]
    BY <2>1, <1>t, <1>n
  <2> QED BY <2>1, <2>2, <2>3, <1>k DEF Standing, Trimming
<1>7. CASE Cleanup
  <2>1. /\ pc = "cleanup" /\ pc' \in {"top", "drain", "sweep"}
        /\ cleaning \subseteq cleaning'
        /\ UNCHANGED <<dirs, tracker, step, cur, queue, faults>>
    BY <1>7 DEF Cleanup, Continue
  <2>2. Behind'
    BY <2>1, <1>b DEF Trimming
  <2>3. Bounded'
    <3>1. CASE cur.kind = "nonPersistent"
      BY <1>7, <1>t, <3>1, CleanupTrims
    <3>2. CASE cur.kind # "nonPersistent"
      BY <2>1, <3>2, <1>k DEF Standing, Trimming
    <3> QED BY <3>1, <3>2
  <2> QED BY <2>2, <2>3
<1>8. CASE \E d \in Dirs : Rmtree(d)
  <2> PICK d \in Dirs : Rmtree(d)
    BY <1>8
  <2>1. /\ UNCHANGED <<tracker, step, pc, cur, queue, faults>>
        /\ \/ dirs' = dirs /\ cleaning' = cleaning
           \/ dirs' = [dirs EXCEPT ![d[1]] = @ \ {d[2]}] /\ cleaning' = cleaning \ {d}
    BY DEF Rmtree
  <2>2. Standing' \subseteq Standing
    <3>1. d = <<d[1], d[2]>>
      BY DEF Dirs
    <3> QED BY <2>1, <3>1, <1>t, <1>n DEF Standing
  <2>3. Behind'
    BY <2>1, <1>b DEF Trimming
  <2> QED BY <2>1, <2>2, <2>3, <1>k DEF Trimming
<1>9. CASE \E r \in Ranks : BackgroundWrite(r)
  <2> PICK r \in Ranks, i \in 1 .. Len(queue) : queue' = [queue EXCEPT ![i].written = @ \cup {r}]
    BY <1>9 DEF BackgroundWrite
  <2>1. UNCHANGED <<dirs, tracker, step, pc, cur, cleaning, faults>>
    BY <1>9 DEF BackgroundWrite
  <2>2. \A j \in 1 .. Len(queue') : j \in 1 .. Len(queue) /\ queue'[j].step = queue[j].step
    <3>1. queue \in Seq(AsyncCall) /\ queue[i] \in AsyncCall
      BY <1>t DEF TypeOK
    <3>2. [queue[i] EXCEPT !.written = @ \cup {r}].step = queue[i].step
      BY <3>1 DEF AsyncCall
    <3> QED BY <3>1, <3>2
  <2>3. Behind'
    BY <2>1, <2>2, <1>b DEF Trimming
  <2> QED BY <2>1, <2>3, <1>k DEF Standing, Trimming
<1>10. CASE SaveLoaderState
  <2>1. /\ pc = "loader" /\ pc' = "open" /\ dirs'["nonPersistent"] = dirs["nonPersistent"]
        /\ UNCHANGED <<tracker, step, cur, queue, cleaning, faults>>
    BY <1>10, <1>t, <1>n DEF SaveLoaderState, Roots
  <2>2. Behind'
    BY <2>1, <1>b DEF Trimming
  <2> QED BY <2>1, <2>2, <1>k DEF Standing, Trimming
<1>11. CASE \/ \E r \in Ranks : WriteFiles(r)
            \/ SweepDone \/ Finish \/ UNCHANGED vars
  <2>1. /\ UNCHANGED <<dirs, tracker, step, cur, cleaning, queue, faults>>
        /\ \/ pc' = pc
           \/ pc' \in {"top", "drain", "done"} /\ pc \in {"sweep", "drain"}
    BY <1>11 DEF WriteFiles, SweepDone, Finish, Continue, vars
  <2>2. Behind'
    BY <2>1, <1>b DEF Trimming
  <2> QED BY <2>1, <2>2, <1>k DEF Standing, Trimming
<1>14. CASE SaveBarrier \/ WriteTrainState \/ WriteLegacyTracker \/ Publish
  <2>1. /\ UNCHANGED <<dirs, tracker, step, cur, cleaning, queue, faults>>
        /\ \/ pc = "write" /\ pc' = "trainState"
           \/ pc = "trainState" /\ pc' = "tracker"
           \/ pc = "legacy" /\ pc' = "publish"
           \/ pc = "publish" /\ pc' = "cleanup"
    BY <1>14 DEF SaveBarrier, WriteTrainState, WriteLegacyTracker, Publish
  <2>2. Behind'
    BY <2>1, <1>b DEF Trimming
  <2> QED BY <2>1, <2>2, <1>k DEF Standing, Trimming
<1>12. CASE Relaunch
  <2>1. /\ pc = "done" /\ pc' = "down" /\ queue' = <<>>
        /\ UNCHANGED <<dirs, tracker, cleaning, faults>>
    BY <1>12 DEF Relaunch, LoseProcess
  <2>2. Behind'
    BY <2>1 DEF Trimming
  <2> QED BY <2>1, <2>2, <1>k DEF Standing, Trimming
<1>13. CASE Crash \/ InProcessRestart \/ CrashInTrackerCopy
  <2>1. pc' = "down" /\ queue' = <<>> /\ faults' = faults + 1
    BY <1>13 DEF Crash, InProcessRestart, CrashInTrackerCopy, Fault, LoseProcess
  <2> QED BY <2>1, <1>t DEF Trimming
<1> QED
  BY <1>1, <1>2, <1>3, <1>4, <1>5, <1>6, <1>7, <1>8, <1>9, <1>10, <1>11, <1>12, <1>13,
     <1>14
  DEF Next, Loop, SaveCheckpoint, Finalize

\* Whatever the intervals, the number of ranks and the saves in flight, a run without faults
\* leaves no more non-persistent checkpoints than retention asks for: max_iteration hides newer
\* ones from a removal, and none of them is forgotten by the removals that follow.
THEOREM NonPersistentStaysBounded == Spec => []NonPersistentBounded
<1> DEFINE Inv == TypeInv /\ BoundInv
<1>1. Init => Inv
  BY TypeInvInit, BoundInvInit
<1>2. Inv /\ [Next]_vars => Inv'
  BY TypeInvNext, BoundInvNext
<1>3. Inv => NonPersistentBounded
  <2> SUFFICES ASSUME Inv, faults = 0, pc \in {"top", "done"}, cleaning = {}
               PROVE  Cardinality({s \in dirs["nonPersistent"] : s <= tracker["nonPersistent"]})
                          <= NonPersistentKeep
    BY DEF NonPersistentBounded
  <2>1. Standing = {s \in dirs["nonPersistent"] : s <= tracker["nonPersistent"]}
    BY DEF Standing
  <2> QED BY <2>1 DEF BoundInv, Trimming
<1> QED BY <1>1, <1>2, <1>3, PTL DEF Spec
-----------------------------------------------------------------------------
(* Retention of synchronous saves: the checkpoint a restart selects. *)

\* The job saves at fixed steps, each of one kind; the last step is one of them.
Regular ==
    /\ ~AsyncSave /\ ~ExitSignals /\ TrainIters % SaveInterval = 0
    /\ MostRecentK # 0 /\ (Energon => MostRecentK # 1)

Due(s) == \/ s % SaveInterval = 0
          \/ NonPersistentInterval # 0 /\ s % NonPersistentInterval = 0

DueKind(s) == IF s % SaveInterval = 0 THEN "persistent" ELSE "nonPersistent"

NoneDue(a, b) == \A s \in Steps : a < s /\ s < b => ~Due(s)

\* A torn tracker stops the job for good: no restart reads past it.
Intact == \A k \in Kinds : tracker[k] # Torn

\* The persistent tracker names a whole checkpoint, the other one if it is newer.
WholeInv ==
    /\ tracker["persistent"] \notin {None, Torn} => Complete("persistent", tracker["persistent"])
    /\ Intact => /\ tracker["nonPersistent"] > tracker["persistent"]
                        => Complete("nonPersistent", tracker["nonPersistent"])
                 /\ \A k \in Kinds : tracker[k] # None => DueKind(tracker[k]) = k

\* What is on disk, a crash's leftovers included, is at most of the save after the
\* newest tracked one: the job comes back to it before it saves anything else.
LeftoverInv ==
    Intact => \A r \in Roots : \A e \in dirs[r] :
                  /\ r = "energon" => Energon
                  /\ Due(e) /\ (r # "energon" => DueKind(e) = r)
                  /\ NoneDue(NewestTracked, e)

\* No save is passed over.
ScheduleInv ==
    pc # "down" =>
        /\ Intact /\ NewestTracked <= step
        /\ pc = "top" => NoneDue(NewestTracked, step + 1)
        /\ pc \in {"decide", "loader", "open", "write", "trainState", "tracker"} =>
              NewestTracked < step /\ NoneDue(NewestTracked, step)
        /\ pc \notin {"top", "decide", "drain", "done"} =>
              cur.step = step /\ Due(step) /\ cur.kind = DueKind(step)
        /\ pc \in {"legacy", "publish", "cleanup", "sweep"} =>
              /\ tracker[cur.kind] = step /\ NewestTracked = step
              /\ \A r \in Roots : \A e \in dirs[r] : e <= step
        /\ exiting => pc \in {"drain", "done"}

\* What each stage of the save has established.
SavedInv ==
    /\ pc = "loader" => Energon
    /\ pc \in {"open", "write", "trainState", "tracker"} =>
          (Energon => files["energon"][cur.step] = Ranks)
    /\ pc \in {"write", "trainState", "tracker"} => cur.step \in dirs[cur.kind]
    /\ pc \in {"trainState", "tracker"} => files[cur.kind][cur.step] = Ranks
    /\ pc = "tracker" => cur.step \in trainState[cur.kind]

\* Only older directories are removed, and persistent ones only by persistent saves.
SweepInv ==
    \A d \in cleaning :
        /\ pc = "sweep" /\ d[2] < step
        /\ d[1] # "nonPersistent" => cur.kind = "persistent"

RetentionInv == WholeInv /\ LeftoverInv /\ ScheduleInv /\ SavedInv /\ SweepInv

\* The types and orders the steps below need.
LEMMA RetentionTypes ==
    ASSUME TypeInv
    PROVE  /\ TypeOK /\ step \in Nat /\ TrainIters \in Nat
           /\ dirs \in [Roots -> SUBSET Steps] /\ files \in [Roots -> [Steps -> SUBSET Ranks]]
           /\ trainState \in [Kinds -> SUBSET Steps]
           /\ tracker \in [Kinds -> Steps \cup {None, Torn}]
           /\ \A k \in Kinds : tracker[k] \in Int
           /\ tracker["persistent"] \in Int /\ tracker["nonPersistent"] \in Int
           /\ tracker["persistent"] \in Steps \cup {None, Torn}
           /\ tracker["nonPersistent"] \in Steps \cup {None, Torn}
           /\ \A s \in Steps : s \in Int /\ s > 0
           /\ NewestTracked \in Int
           /\ \A k \in Kinds : tracker[k] <= NewestTracked
           /\ tracker["persistent"] <= NewestTracked /\ tracker["nonPersistent"] <= NewestTracked
           /\ NewestTracked = tracker["persistent"] \/ NewestTracked = tracker["nonPersistent"]
           /\ cur.kind \in Kinds /\ cur.kind \in Roots /\ cur.kind # "energon" /\ cur.step \in Steps
           /\ cleaning \subseteq Dirs
           /\ "persistent" \in Kinds /\ "nonPersistent" \in Kinds /\ "energon" \in Roots
           /\ Kinds \subseteq Roots /\ Roots = Kinds \cup {"energon"}
<1>1. TypeOK
  BY DEF TypeInv
<1>2. step \in Nat /\ TrainIters \in Nat
  BY <1>1, ConstantsAssumption DEF ConstantsAssumption, TypeOK, Steps, None
<1>3. /\ "persistent" \in Kinds /\ "nonPersistent" \in Kinds /\ "energon" \in Roots
      /\ Kinds \subseteq Roots /\ Roots = Kinds \cup {"energon"} /\ "energon" \notin Kinds
  BY SaveTypes DEF Roots
<1>4. \A k \in Kinds : tracker[k] \in Int /\ tracker[k] \in Steps \cup {None, Torn}
  BY <1>1, StepTypes DEF TypeOK
<1>5. /\ NewestTracked \in Int /\ \A k \in Kinds : tracker[k] <= NewestTracked
      /\ NewestTracked = tracker["persistent"] \/ NewestTracked = tracker["nonPersistent"]
  BY <1>3, <1>4 DEF NewestTracked, Kinds
<1> QED BY <1>1, <1>2, <1>3, <1>4, <1>5, StepTypes DEF TypeOK

LEMMA RetentionInit == Init => RetentionInv
BY SaveTypes DEF Init, RetentionInv, WholeInv, LeftoverInv, ScheduleInv, SavedInv, SweepInv,
   None, Torn

\* What a persistent save removes is older than it, when it keeps enough for the save itself:
\* nothing sorts after it but the loader state saved with it.
LEMMA PersistentExcessOlder ==
    ASSUME TypeInv, NEW s \in Steps, Regular, DueKind(s) = "persistent",
           \A r \in Roots : \A e \in dirs[r] : e <= s,
           \A r \in Kinds : \A e \in dirs[r] : DueKind(e) = r,
           \A e \in dirs["energon"] : Energon,
           NEW d \in PersistentExcess
    PROVE  d[2] < s
<1> DEFINE C == {e \in Dirs : /\ e[2] \in dirs[e[1]]
                              /\ e[1] = "nonPersistent" => NestedNonPersistent}
           After == {e \in C : SortsAfter(e, d)}
<1>1. MostRecentK \in Nat \ {0} /\ d \in C /\ Cardinality(After) >= MostRecentK
  BY ConstantsAssumption DEF ConstantsAssumption, PersistentExcess, Oldest, Regular
<1>2. d[1] \in Roots /\ d[2] \in Steps /\ d[2] <= s
  BY <1>1 DEF Dirs
<1>i. \A x \in Steps : x \in Int
  BY RetentionTypes
<1>3. SUFFICES ASSUME d[2] = s PROVE FALSE
  BY <1>2, <1>i
<1>4. ASSUME NEW e \in After
      PROVE  e = <<"energon", s>> /\ d[1] # "energon" /\ Energon
  <2>1. e = <<e[1], e[2]>> /\ e[1] \in Roots /\ e[2] \in dirs[e[1]] /\ e[2] <= s
    BY DEF Dirs
  <2>2. e[2] = s /\ RglobOrder[e[1]] > RglobOrder[d[1]]
    BY <1>3, <2>1, RetentionTypes DEF SortsAfter
  <2>3. e[1] # "nonPersistent"
    BY <2>1, <2>2, RetentionTypes
  <2>4. /\ RglobOrder["persistent"] = 0 /\ RglobOrder["nonPersistent"] = 1
        /\ RglobOrder["energon"] = 2
    BY DEF RglobOrder, Roots, Kinds
  <2>5. e[1] = "energon" /\ d[1] # "energon"
    BY <1>2, <2>1, <2>2, <2>3, <2>4 DEF Roots, Kinds
  <2> QED BY <2>1, <2>2, <2>5
<1>5. CASE After = {}
  <2> HIDE DEF After, C
  <2>1. Cardinality(After) = 0
    BY <1>5, FS_EmptySet
  <2> QED BY <1>1, <2>1
<1>6. CASE After # {}
  <2>1. After = {<<"energon", s>>} /\ Energon
    BY <1>4, <1>6
  <2>2. Cardinality({<<"energon", s>>}) = 1
    BY FS_Singleton
  <2> HIDE DEF After, C
  <2> QED BY <1>1, <2>1, <2>2 DEF Regular
<1> QED BY <1>5, <1>6

\* A step that leaves the files of a tracked checkpoint alone keeps WholeInv.
LEMMA WholeKept ==
    ASSUME TypeInv, WholeInv, UNCHANGED tracker,
           \A k \in Kinds : \A s \in Steps :
              s = tracker[k] /\ Complete(k, s)
                  /\ (k = "persistent" \/ tracker["nonPersistent"] > tracker["persistent"])
                  /\ Intact
              => Complete(k, s)',
           ~Intact => UNCHANGED <<dirs, files, trainState>>
    PROVE  WholeInv'
<1>t. /\ \A k \in Kinds : tracker[k] \in Steps \cup {None, Torn}
      /\ "persistent" \in Kinds /\ "nonPersistent" \in Kinds
      /\ \A s \in Steps : s \in Int /\ s > 0
  BY RetentionTypes
<1>1. CASE Intact
  <2>1. tracker["persistent"] \notin {None, Torn} => Complete("persistent", tracker["persistent"])'
    BY <1>1, <1>t DEF WholeInv, Complete, Loadable
  <2>2. tracker["nonPersistent"] > tracker["persistent"]
           => Complete("nonPersistent", tracker["nonPersistent"])'
    <3>1. tracker["nonPersistent"] > tracker["persistent"] => tracker["nonPersistent"] \in Steps
      BY <1>1, <1>t DEF Intact, None, Torn
    <3> QED BY <1>1, <1>t, <3>1 DEF WholeInv, Complete, Loadable
  <2> QED BY <1>1, <2>1, <2>2 DEF WholeInv, Intact, Complete, Loadable
<1>2. CASE ~Intact
  BY <1>2 DEF WholeInv, Intact, Complete, Loadable
<1> QED BY <1>1, <1>2

\* One step per action.
LEMMA RetentionNext ==
    ASSUME Regular, TypeInv, SyncInv, RetentionInv, [Next]_vars
    PROVE  RetentionInv'
<1> USE DEF disk, process
<1>t. TypeInv /\ TypeInv'
  BY TypeInvNext
<1>q. queue = <<>> /\ ~AsyncSave /\ ~ExitSignals
  BY DEF SyncInv, Regular
<1>inv. WholeInv /\ LeftoverInv /\ ScheduleInv /\ SavedInv /\ SweepInv
  BY DEF RetentionInv
<1>r. /\ step \in Nat /\ NewestTracked \in Int
      /\ tracker["persistent"] \in Int /\ tracker["nonPersistent"] \in Int
      /\ tracker["persistent"] <= NewestTracked /\ tracker["nonPersistent"] <= NewestTracked
      /\ "persistent" \in Kinds /\ "nonPersistent" \in Kinds
      /\ \A s \in Steps : s \in Int /\ s > 0
  BY <1>t, RetentionTypes
<1>k. ASSUME UNCHANGED <<dirs, files, trainState, tracker>>
      PROVE  WholeInv' /\ LeftoverInv' /\ (UNCHANGED NewestTracked) /\ (UNCHANGED Intact)
  BY <1>k, <1>inv DEF WholeInv, LeftoverInv, Intact, NewestTracked, Complete, Loadable
<1>e. ASSUME pc # "sweep", UNCHANGED cleaning
      PROVE  SweepInv' /\ cleaning = {}
  BY <1>e, <1>inv DEF SweepInv
<1>1. CASE Load
  <2>1. /\ cache = NoCache /\ pc = "down" /\ pc' = "top" /\ exiting' = FALSE
        /\ UNCHANGED <<dirs, files, trainState, tracker, cur, cleaning>>
    BY <1>1, <1>t DEF Load, TypeInv
  <2>2. \A k \in Kinds : ReadTrainState(k) = tracker[k]
    BY <2>1 DEF ReadTrainState, NoCache
  <2>3. Intact
    BY <1>1, <2>2 DEF Load, Intact
  <2>4. step' = NewestTracked
    <3>1. step' = tracker[SelectedKind([k \in Kinds |-> tracker[k]])]
      BY <1>1, <2>2 DEF Load, SelectedKind, Kinds
    <3>2. \A k \in Kinds : tracker[k] \in Int /\ tracker[k] >= 0
      BY <1>t, <2>3, RetentionTypes DEF Intact, None, Torn
    <3> QED BY <3>1, <3>2 DEF SelectedKind, Kinds, None, NewestTracked
  <2>5. ScheduleInv'
    <3>1. NewestTracked' = NewestTracked /\ Intact' /\ NewestTracked \in Int
      BY <1>k, <1>t, <2>1, <2>3, RetentionTypes
    <3>2. NoneDue(NewestTracked, NewestTracked + 1)
      BY <3>1, <1>t, RetentionTypes DEF NoneDue
    <3> QED BY <2>1, <2>4, <3>1, <3>2 DEF ScheduleInv
  <2>6. SavedInv' /\ SweepInv'
    BY <2>1, <1>e DEF SavedInv
  <2> QED BY <1>k, <2>1, <2>5, <2>6 DEF RetentionInv
<1>2. ~FinalizeHead
  BY <1>q DEF FinalizeHead, HeadDone
<1>3. CASE TrainStep
  <2>1. /\ pc = "top" /\ pc' = "decide" /\ step' = step + 1
        /\ UNCHANGED <<dirs, files, trainState, tracker, cur, cleaning, exiting>>
    BY <1>3 DEF TrainStep
  <2>2. ScheduleInv'
    BY <2>1, <1>k, <1>inv, <1>t, RetentionTypes DEF ScheduleInv
  <2>3. SavedInv' /\ SweepInv'
    BY <2>1, <1>e DEF SavedInv
  <2> QED BY <1>k, <2>1, <2>2, <2>3 DEF RetentionInv
<1>4. CASE SignalSave \/ IntervalSave \/ NonPersistentSave
  <2>1. /\ pc = "decide" /\ pc' = (IF Energon THEN "loader" ELSE "open")
        /\ cur'.step = step /\ cur'.kind = DueKind(step) /\ Due(step)
        /\ UNCHANGED <<dirs, files, trainState, tracker, step, cleaning, exiting>>
    BY <1>4, <1>q, ConstantsAssumption
    DEF SignalSave, IntervalSave, NonPersistentSave, BeginSave, IntervalReached, Due, DueKind,
        ConstantsAssumption
  <2>2. ScheduleInv'
    BY <2>1, <1>k, <1>inv DEF ScheduleInv
  <2>3. SavedInv' /\ SweepInv'
    BY <2>1, <1>e DEF SavedInv
  <2> QED BY <1>k, <2>1, <2>2, <2>3 DEF RetentionInv
<1>5. CASE NoSave
  <2>1. /\ pc = "decide" /\ pc' = "top" /\ ~Due(step)
        /\ UNCHANGED <<dirs, files, trainState, tracker, step, cur, cleaning, exiting>>
    BY <1>5, ConstantsAssumption DEF NoSave, IntervalReached, Due, ConstantsAssumption
  <2>2. NoneDue(NewestTracked, step + 1)
    <3>1. NoneDue(NewestTracked, step)
      BY <2>1, <1>inv DEF ScheduleInv
    <3>2. \A s \in Steps : s < step + 1 => s < step \/ s = step
      BY <1>r
    <3> QED BY <2>1, <3>1, <3>2 DEF NoneDue
  <2>3. ScheduleInv'
    BY <2>1, <2>2, <1>k, <1>inv DEF ScheduleInv
  <2>4. SavedInv' /\ SweepInv'
    BY <2>1, <1>e DEF SavedInv
  <2> QED BY <1>k, <2>1, <2>3, <2>4 DEF RetentionInv
<1>6. CASE EndLoop \/ Finish
  <2>1. /\ pc \in {"top", "drain"} /\ pc' \in {"drain", "done"}
        /\ UNCHANGED <<dirs, files, trainState, tracker, step, cur, cleaning>>
    BY <1>6, ConstantsAssumption
    DEF EndLoop, Finish, IntervalReached, Regular, ConstantsAssumption
  <2>2. ScheduleInv'
    BY <2>1, <1>k, <1>inv DEF ScheduleInv
  <2>3. SavedInv' /\ SweepInv'
    BY <2>1, <1>e DEF SavedInv
  <2> QED BY <1>k, <2>1, <2>2, <2>3 DEF RetentionInv
<1>7. CASE SaveLoaderState
  <2>1. /\ pc = "loader" /\ pc' = "open"
        /\ dirs' = [dirs EXCEPT !["energon"] = @ \cup {cur.step}]
        /\ files' = [files EXCEPT !["energon"][cur.step] = Ranks]
        /\ UNCHANGED <<trainState, tracker, step, cur, cleaning, exiting>>
    BY <1>7 DEF SaveLoaderState
  <2>2. /\ \A k \in Kinds : dirs'[k] = dirs[k] /\ files'[k] = files[k]
        /\ dirs'["energon"] = dirs["energon"] \cup {cur.step}
        /\ \A s \in Steps : files["energon"][s] = Ranks => files'["energon"][s] = Ranks
        /\ files'["energon"][cur.step] = Ranks
    BY <2>1, <1>t, SaveTypes, RetentionTypes
  <2>3. /\ Energon /\ Intact /\ cur.step = step /\ Due(step) /\ cur.kind = DueKind(step)
        /\ NoneDue(NewestTracked, step) /\ NewestTracked < step
        /\ UNCHANGED <<Intact, NewestTracked>>
    BY <2>1, <1>inv DEF SavedInv, ScheduleInv, Intact, NewestTracked
  <2>4. WholeInv'
    BY <2>1, <2>2, <2>3, <1>t, <1>inv, WholeKept DEF Complete, Loadable
  <2>5. LeftoverInv'
    BY <2>2, <2>3, <1>t, <1>inv, RetentionTypes DEF LeftoverInv
  <2>6. ScheduleInv'
    BY <2>1, <2>3, <1>inv DEF ScheduleInv
  <2>7. SavedInv' /\ SweepInv'
    BY <2>1, <2>2, <1>e DEF SavedInv
  <2> QED BY <2>4, <2>5, <2>6, <2>7 DEF RetentionInv
<1>8. CASE OpenCheckpoint
  <2>1. /\ pc = "open" /\ pc' = "write"
        /\ dirs' = [dirs EXCEPT ![cur.kind] = @ \cup {cur.step}]
        /\ files' = [files EXCEPT ![cur.kind][cur.step] = {}]
        /\ UNCHANGED <<trainState, tracker, step, cur, cleaning, exiting>>
    BY <1>8, <1>q DEF OpenCheckpoint
  <2>2. /\ \A r \in Roots : r # cur.kind => dirs'[r] = dirs[r]
        /\ dirs'[cur.kind] = dirs[cur.kind] \cup {cur.step}
        /\ files'["energon"] = files["energon"]
        /\ \A k \in Kinds, s \in Steps : s # cur.step => files'[k][s] = files[k][s]
    BY <2>1, <1>t, RetentionTypes
  <2>3. /\ Intact /\ cur.step = step /\ Due(step) /\ cur.kind = DueKind(step)
        /\ NoneDue(NewestTracked, step) /\ NewestTracked < step
        /\ UNCHANGED <<Intact, NewestTracked>>
    BY <2>1, <1>inv DEF ScheduleInv, Intact, NewestTracked
  <2>4. WholeInv'
    <3>1. \A k \in Kinds : \A s \in Steps : s = tracker[k] => s # cur.step
      BY <2>3, <1>t, RetentionTypes
    <3>2. \A k \in Kinds : dirs[k] \subseteq dirs'[k]
      BY <2>2, <1>t, RetentionTypes
    <3> QED BY <2>1, <2>2, <2>3, <3>1, <3>2, <1>t, <1>inv, WholeKept DEF Complete, Loadable
  <2>5. LeftoverInv'
    <3>1. \A r \in Roots : \A e \in dirs'[r] : e \in dirs[r] \/ (r = cur.kind /\ e = step)
      BY <2>2, <2>3
    <3>2. cur.kind # "energon"
      BY <1>t, RetentionTypes
    <3> QED BY <2>3, <3>1, <3>2, <1>inv DEF LeftoverInv
  <2>6. ScheduleInv'
    BY <2>1, <2>3, <1>inv DEF ScheduleInv
  <2>7. SavedInv' /\ SweepInv'
    BY <2>1, <2>2, <1>e, <1>inv DEF SavedInv
  <2> QED BY <2>4, <2>5, <2>6, <2>7 DEF RetentionInv
<1>9. CASE \E r \in Ranks : WriteFiles(r)
  <2> PICK r \in Ranks : WriteFiles(r)
    BY <1>9
  <2>1. /\ pc = "write"
        /\ files' = [files EXCEPT ![cur.kind][cur.step] = @ \cup {r}]
        /\ UNCHANGED <<dirs, trainState, tracker, step, pc, cur, cleaning, exiting>>
    BY DEF WriteFiles
  <2>2. /\ files'["energon"] = files["energon"]
        /\ \A k \in Kinds, s \in Steps : s # cur.step => files'[k][s] = files[k][s]
    BY <2>1, <1>t, RetentionTypes
  <2>3. Intact /\ cur.step = step /\ NewestTracked < step
        /\ UNCHANGED <<Intact, NewestTracked>>
    BY <2>1, <1>inv DEF ScheduleInv, Intact, NewestTracked
  <2>4. WholeInv'
    <3>1. \A k \in Kinds : \A s \in Steps : s = tracker[k] => s # cur.step
      BY <2>3, <1>t, RetentionTypes
    <3> QED BY <2>1, <2>2, <2>3, <3>1, <1>t, <1>inv, WholeKept DEF Complete, Loadable
  <2>5. LeftoverInv' /\ ScheduleInv'
    BY <2>1, <2>3, <1>inv DEF LeftoverInv, ScheduleInv
  <2>6. SavedInv' /\ SweepInv'
    BY <2>1, <2>2, <1>e, <1>inv DEF SavedInv
  <2> QED BY <2>4, <2>5, <2>6 DEF RetentionInv
<1>10. CASE SaveBarrier
  <2>1. /\ pc = "write" /\ pc' = "trainState" /\ files[cur.kind][cur.step] = Ranks
        /\ UNCHANGED <<dirs, files, trainState, tracker, step, cur, cleaning, exiting>>
    BY <1>10 DEF SaveBarrier
  <2>2. ScheduleInv' /\ SavedInv' /\ SweepInv'
    BY <2>1, <1>k, <1>e, <1>inv DEF ScheduleInv, SavedInv
  <2> QED BY <1>k, <2>1, <2>2 DEF RetentionInv
<1>11. ~\E r \in Ranks : BackgroundWrite(r)
  BY <1>q DEF BackgroundWrite
<1>12. CASE WriteTrainState
  <2>1. /\ pc = "trainState" /\ pc' = "tracker"
        /\ trainState' = [trainState EXCEPT ![cur.kind] = @ \cup {cur.step}]
        /\ UNCHANGED <<dirs, files, tracker, step, cur, cleaning, exiting>>
    BY <1>12 DEF WriteTrainState
  <2>2. /\ \A k \in Kinds : trainState[k] \subseteq trainState'[k]
        /\ cur.step \in trainState'[cur.kind]
    BY <2>1, <1>t, RetentionTypes
  <2>3. Intact /\ UNCHANGED <<Intact, NewestTracked>>
    BY <2>1, <1>inv DEF ScheduleInv, Intact, NewestTracked
  <2>4. WholeInv'
    BY <2>1, <2>2, <2>3, <1>t, <1>inv, WholeKept DEF Complete, Loadable
  <2>5. LeftoverInv' /\ ScheduleInv'
    BY <2>1, <2>3, <1>inv DEF LeftoverInv, ScheduleInv
  <2>6. SavedInv' /\ SweepInv'
    BY <2>1, <2>2, <1>e, <1>inv DEF SavedInv
  <2> QED BY <2>4, <2>5, <2>6 DEF RetentionInv
<1>13. CASE WriteTracker
  <2>1. /\ pc = "tracker" /\ pc' = "legacy"
        /\ tracker' = [tracker EXCEPT ![cur.kind] = cur.step]
        /\ UNCHANGED <<dirs, files, trainState, step, cur, cleaning, exiting>>
    BY <1>13 DEF WriteTracker
  <2>2. /\ Intact /\ cur.step = step /\ Due(step) /\ cur.kind = DueKind(step)
        /\ NoneDue(NewestTracked, step) /\ NewestTracked < step
    BY <2>1, <1>inv DEF ScheduleInv
  <2>3. /\ tracker'[cur.kind] = step /\ Intact'
        /\ \A k \in Kinds : k # cur.kind => tracker'[k] = tracker[k]
    BY <2>1, <2>2, <1>t, RetentionTypes DEF Intact, Torn
  <2>4. NewestTracked' = step
    BY <2>2, <2>3, <1>t, RetentionTypes DEF NewestTracked, Kinds
  <2>5. /\ Complete(cur.kind, step)
        /\ cur.kind = "nonPersistent" /\ tracker["persistent"] \notin {None, Torn}
              => Complete("persistent", tracker["persistent"])
        /\ tracker["nonPersistent"] # None => DueKind(tracker["nonPersistent"]) = "nonPersistent"
        /\ tracker["persistent"] # None => DueKind(tracker["persistent"]) = "persistent"
    BY <2>1, <2>2, <1>inv, <1>r DEF SavedInv, WholeInv, Complete, Loadable
  <2>6. WholeInv'
    <3>1. CASE cur.kind = "persistent"
      <4>1. /\ tracker'["persistent"] = step /\ tracker'["nonPersistent"] = tracker["nonPersistent"]
            /\ ~(tracker["nonPersistent"] > step)
        BY <2>2, <2>3, <3>1, <1>r
      <4>2. \A k \in Kinds : tracker'[k] # None => DueKind(tracker'[k]) = k
        BY <2>2, <2>5, <3>1, <4>1 DEF Kinds
      <4> QED BY <2>1, <2>5, <3>1, <4>1, <4>2 DEF WholeInv, Complete, Loadable
    <3>2. CASE cur.kind = "nonPersistent"
      <4>1. /\ tracker'["nonPersistent"] = step /\ tracker'["persistent"] = tracker["persistent"]
        BY <2>2, <2>3, <3>2, <1>r
      <4>2. \A k \in Kinds : tracker'[k] # None => DueKind(tracker'[k]) = k
        BY <2>2, <2>5, <3>2, <4>1 DEF Kinds
      <4> QED BY <2>1, <2>5, <3>2, <4>1, <4>2 DEF WholeInv, Complete, Loadable
    <3> QED BY <3>1, <3>2, <1>t, RetentionTypes DEF Kinds
  <2>7. \A r \in Roots : \A e \in dirs[r] : e <= step
    <3> SUFFICES ASSUME NEW r \in Roots, NEW e \in dirs[r], step < e PROVE FALSE
      BY <1>t, RetentionTypes
    <3>1. NoneDue(NewestTracked, e)
      BY <2>2, <1>inv DEF LeftoverInv
    <3>2. step \in Steps
      BY <2>2, <1>t, RetentionTypes
    <3> QED BY <2>2, <3>1, <3>2 DEF NoneDue
  <2>8. LeftoverInv'
    <3>1. \A r \in Roots : \A e \in dirs[r] : NoneDue(step, e)
      BY <2>7, <1>t, RetentionTypes DEF NoneDue
    <3> QED BY <2>1, <2>2, <2>4, <3>1, <1>inv DEF LeftoverInv
  <2>9. ScheduleInv'
    BY <2>1, <2>2, <2>3, <2>4, <2>7, <1>inv, <1>t, RetentionTypes DEF ScheduleInv
  <2>10. SavedInv' /\ SweepInv'
    BY <2>1, <1>e DEF SavedInv
  <2> QED BY <2>6, <2>8, <2>9, <2>10 DEF RetentionInv
<1>14. CASE WriteLegacyTracker \/ Publish
  <2>1. /\ pc \in {"legacy", "publish"} /\ pc' \in {"publish", "cleanup"}
        /\ UNCHANGED <<dirs, files, trainState, tracker, step, cur, cleaning, exiting>>
    BY <1>14 DEF WriteLegacyTracker, Publish
  <2>2. ScheduleInv'
    BY <2>1, <1>k, <1>inv DEF ScheduleInv
  <2>3. SavedInv' /\ SweepInv'
    BY <2>1, <1>e DEF SavedInv
  <2> QED BY <1>k, <2>1, <2>2, <2>3 DEF RetentionInv
<1>15. CASE Cleanup
  <2>1. /\ pc = "cleanup" /\ pc' = "sweep" /\ cleaning' = cleaning \cup Excess(cur)
        /\ UNCHANGED <<dirs, files, trainState, tracker, step, cur, exiting>>
    BY <1>15, <1>q DEF Cleanup
  <2>2. /\ Intact /\ tracker[cur.kind] = step /\ NewestTracked = step
        /\ cur.step = step /\ cur.kind = DueKind(step)
        /\ \A r \in Roots : \A e \in dirs[r] : e <= step
    BY <2>1, <1>inv DEF ScheduleInv
  <2>3. cleaning = {}
    BY <2>1, <1>inv DEF SweepInv
  <2>4. ASSUME NEW d \in Excess(cur)
        PROVE  d[2] < step /\ (d[1] # "nonPersistent" => cur.kind = "persistent")
    <3>1. CASE cur.kind = "nonPersistent"
      <4>1. Complete("nonPersistent", step)
        <5>1. tracker["nonPersistent"] = step /\ step \in Steps /\ DueKind(step) = "nonPersistent"
          BY <2>2, <3>1, <1>t, RetentionTypes
        <5>2. tracker["persistent"] # step
          BY <2>2, <5>1, <1>inv, <1>t, RetentionTypes DEF WholeInv, None
        <5>3. tracker["persistent"] < step
          BY <2>2, <5>2, <1>r
        <5> QED BY <2>2, <5>1, <5>3, <1>inv DEF WholeInv
      <4>2. step \in dirs["nonPersistent"]
        BY <4>1 DEF Complete, Loadable
      <4>3. d \in NonPersistentExcess(step) /\ step \in Steps
        BY <2>2, <3>1, <1>t, RetentionTypes DEF Excess
      <4> QED BY <4>2, <4>3, <1>t, NonPersistentExcessOlder DEF TypeInv
    <3>2. CASE cur.kind # "nonPersistent"
      <4>1. d \in PersistentExcess /\ cur.kind = "persistent" /\ step \in Steps
        BY <2>2, <3>2, <1>t, RetentionTypes DEF Excess, Kinds
      <4>2. /\ \A r \in Kinds : \A e \in dirs[r] : DueKind(e) = r
            /\ \A e \in dirs["energon"] : Energon
        BY <2>2, <1>inv, SaveTypes DEF LeftoverInv
      <4>3. d[2] < step
        BY <2>2, <4>1, <4>2, <1>t, PersistentExcessOlder
      <4> QED BY <4>1, <4>3
    <3> QED BY <3>1, <3>2
  <2>5. SweepInv'
    BY <2>1, <2>3, <2>4 DEF SweepInv
  <2>6. ScheduleInv' /\ SavedInv'
    BY <2>1, <1>k, <1>inv DEF ScheduleInv, SavedInv
  <2> QED BY <1>k, <2>1, <2>5, <2>6 DEF RetentionInv
<1>16. CASE \E d \in Dirs : Rmtree(d)
  <2> PICK d \in Dirs : Rmtree(d)
    BY <1>16
  <2>1. /\ d \in cleaning /\ cleaning' \subseteq cleaning
        /\ UNCHANGED <<tracker, step, pc, cur, exiting>>
        /\ dirs' = dirs \/ dirs' = [dirs EXCEPT ![d[1]] = @ \ {d[2]}]
        /\ files' = files \/ files' = [files EXCEPT ![d[1]][d[2]] = {}]
        /\ \/ trainState' = trainState
           \/ trainState' = [k \in Kinds |-> IF k = d[1] THEN trainState[k] \ {d[2]}
                                             ELSE trainState[k]]
    BY DEF Rmtree
  <2>2. /\ pc = "sweep" /\ d[2] < step /\ d[1] \in Roots /\ d[2] \in Steps
        /\ d[1] # "nonPersistent" => cur.kind = "persistent"
    BY <2>1, <1>inv DEF SweepInv, Dirs
  <2>3. /\ Intact /\ tracker[cur.kind] = step /\ NewestTracked = step
        /\ UNCHANGED <<Intact, NewestTracked>>
    BY <2>1, <2>2, <1>inv DEF ScheduleInv, Intact, NewestTracked
  <2>4. /\ \A r \in Roots : dirs'[r] \subseteq dirs[r]
        /\ \A r \in Roots, s \in Steps : <<r, s>> # d =>
              (files'[r][s] = files[r][s] /\ (s \in dirs[r] => s \in dirs'[r]))
        /\ \A k \in Kinds, s \in Steps : <<k, s>> # d /\ s \in trainState[k] => s \in trainState'[k]
    <3>1. d = <<d[1], d[2]>>
      BY DEF Dirs
    <3>2. \A r \in Roots : dirs'[r] \subseteq dirs[r]
      BY <2>1, <2>2, <1>t, RetentionTypes
    <3>3. ASSUME NEW r \in Roots, NEW s \in Steps, <<r, s>> # d
          PROVE  files'[r][s] = files[r][s] /\ (s \in dirs[r] => s \in dirs'[r])
      <4>1. r # d[1] \/ s # d[2]
        BY <3>1, <3>3
      <4>2. files'[r][s] = files[r][s]
        BY <2>1, <2>2, <4>1, <1>t, RetentionTypes
      <4>3. s \in dirs[r] => s \in dirs'[r]
        BY <2>1, <2>2, <4>1, <1>t, RetentionTypes
      <4> QED BY <4>2, <4>3
    <3>4. ASSUME NEW k \in Kinds, NEW s \in Steps, <<k, s>> # d, s \in trainState[k]
          PROVE  s \in trainState'[k]
      BY <2>1, <3>1, <3>4
    <3> QED BY <3>2, <3>3, <3>4
  <2>5. WholeInv'
    <3>1. ASSUME NEW k \in Kinds, NEW s \in Steps, s = tracker[k], Complete(k, s),
                 k = "persistent" \/ tracker["nonPersistent"] > tracker["persistent"]
          PROVE  Complete(k, s)'
      <4>1. <<k, s>> # d /\ <<"energon", s>> # d
        <5>1. CASE cur.kind = "persistent"
          <6>1. k = "persistent"
            BY <2>3, <3>1, <5>1, <1>t, RetentionTypes DEF Kinds
          <6> QED BY <2>2, <2>3, <3>1, <5>1, <6>1, <1>t, RetentionTypes
        <5>2. CASE cur.kind = "nonPersistent"
          <6>1. d[1] = "nonPersistent"
            BY <2>2, <5>2
          <6>2. k = "nonPersistent" => s = step
            BY <2>3, <3>1, <5>2
          <6> QED BY <2>2, <6>1, <6>2, <1>t, RetentionTypes
        <5> QED BY <5>1, <5>2, <1>t, RetentionTypes DEF Kinds
      <4>2. /\ files'[k][s] = files[k][s] /\ s \in dirs'[k] /\ s \in trainState'[k]
            /\ files'["energon"][s] = files["energon"][s]
        BY <2>4, <3>1, <4>1, <1>t, RetentionTypes DEF Complete, Loadable
      <4> QED BY <3>1, <4>2 DEF Complete, Loadable
    <3> QED BY <2>1, <2>3, <3>1, <1>t, <1>inv, WholeKept
  <2>6. LeftoverInv'
    BY <2>3, <2>4, <1>inv DEF LeftoverInv
  <2>7. ScheduleInv'
    BY <2>1, <2>2, <2>3, <2>4, <1>inv DEF ScheduleInv
  <2>8. SavedInv' /\ SweepInv'
    BY <2>1, <2>2, <1>inv DEF SavedInv, SweepInv
  <2> QED BY <2>5, <2>6, <2>7, <2>8 DEF RetentionInv
<1>17. CASE SweepDone
  <2>1. /\ pc = "sweep" /\ pc' = "top" /\ cleaning' = {} /\ exiting = FALSE
        /\ UNCHANGED <<dirs, files, trainState, tracker, step, cur, exiting>>
    BY <1>17, <1>inv, <1>t DEF SweepDone, Continue, ScheduleInv, TypeInv, TypeOK
  <2>2. NoneDue(step, step + 1) /\ step \in Nat
    BY <1>t, RetentionTypes DEF NoneDue
  <2>3. ScheduleInv'
    BY <2>1, <2>2, <1>k, <1>inv DEF ScheduleInv
  <2>4. SavedInv' /\ SweepInv'
    BY <2>1 DEF SavedInv, SweepInv
  <2> QED BY <1>k, <2>1, <2>3, <2>4 DEF RetentionInv
<1>18. CASE Relaunch \/ Crash \/ InProcessRestart
  <2>1. /\ pc' = "down" /\ cleaning' = {}
        /\ UNCHANGED <<dirs, files, trainState, tracker>>
    BY <1>18, <1>q DEF Relaunch, Crash, InProcessRestart, Fault, LoseProcess
  <2>2. ScheduleInv' /\ SavedInv' /\ SweepInv'
    BY <2>1 DEF ScheduleInv, SavedInv, SweepInv
  <2> QED BY <1>k, <2>1, <2>2 DEF RetentionInv
<1>19. CASE CrashInTrackerCopy
  <2>1. /\ pc' = "down" /\ cleaning' = {} /\ tracker'[cur.kind] = Torn
        /\ \A k \in Kinds : tracker'[k] \in {tracker[k], Torn}
        /\ UNCHANGED <<dirs, files, trainState>>
    BY <1>19, <1>t, RetentionTypes DEF CrashInTrackerCopy, Fault, LoseProcess
  <2>2. ~Intact'
    BY <2>1, <1>t, RetentionTypes DEF Intact
  <2>3. WholeInv'
    BY <2>1, <2>2, <1>inv, <1>t, RetentionTypes DEF WholeInv, Complete, Loadable
  <2>4. LeftoverInv' /\ ScheduleInv' /\ SavedInv' /\ SweepInv'
    BY <2>1, <2>2 DEF LeftoverInv, ScheduleInv, SavedInv, SweepInv
  <2> QED BY <2>3, <2>4 DEF RetentionInv
<1>20. CASE UNCHANGED vars
  BY <1>20, <1>k, <1>inv DEF vars, RetentionInv, ScheduleInv, SavedInv, SweepInv
<1> QED
  BY <1>1, <1>2, <1>3, <1>4, <1>5, <1>6, <1>7, <1>8, <1>9, <1>10, <1>11, <1>12, <1>13,
     <1>14, <1>15, <1>16, <1>17, <1>18, <1>19, <1>20
  DEF Next, Loop, SaveCheckpoint, Finalize

\* With synchronous saves at regular steps, of both kinds and under retention, the checkpoint
\* a restart selects is whole whatever instant the job dies at, leftovers of earlier attempts on
\* disk included; when the persistent tracker is torn a restart selects nothing.  Retention
\* has to keep a save together with the loader state it sorts with, hence two of them.
THEOREM RetentionKeepsResumePoint ==
    ASSUME ~AsyncSave, ~ExitSignals, TrainIters % SaveInterval = 0,
           MostRecentK # 0, Energon => MostRecentK # 1
    PROVE  Spec => [](tracker["persistent"] # Torn => ResumePointWhole)
<1> DEFINE Inv == TypeInv /\ LastInv /\ StoreInv /\ RetentionInv
<1>0. Regular
  BY DEF Regular
<1>1. Init => Inv
  BY TypeInvInit, LastInvInit, StoreInvInit, RetentionInit
<1>2. Inv /\ [Next]_vars => Inv'
  <2>1. StoreInv => SyncInv
    BY DEF StoreInv
  <2> QED BY <1>0, <2>1, TypeInvNext, LastInvNext, StoreInvNext, RetentionNext
<1>3. Inv => (tracker["persistent"] # Torn => ResumePointWhole)
  <2> SUFFICES ASSUME Inv, tracker["persistent"] # Torn,
                      tracker[SelectedKind(tracker)] \notin {None, Torn}
               PROVE  Complete(SelectedKind(tracker), tracker[SelectedKind(tracker)])
    BY DEF ResumePointWhole
  <2>1. WholeInv
    BY DEF RetentionInv
  <2>2. CASE SelectedKind(tracker) = "persistent"
    BY <2>1, <2>2 DEF WholeInv
  <2>3. CASE SelectedKind(tracker) = "nonPersistent"
    <3>1. tracker["nonPersistent"] >= tracker["persistent"] /\ Intact
      BY <2>3 DEF SelectedKind, Intact, Kinds
    <3>2. tracker["nonPersistent"] # tracker["persistent"]
      BY <2>1, <2>3, <3>1, SaveTypes DEF WholeInv
    <3>3. tracker["nonPersistent"] \in Int /\ tracker["persistent"] \in Int
      BY RetentionTypes
    <3>4. tracker["nonPersistent"] > tracker["persistent"]
      BY <3>1, <3>2, <3>3
    <3> QED BY <2>1, <2>3, <3>1, <3>4 DEF WholeInv
  <2> QED BY <2>2, <2>3 DEF SelectedKind
<1> QED BY <1>1, <1>2, <1>3, PTL DEF Spec
=============================================================================
