---------------------------- MODULE HfExport_proofs ----------------------------
(***************************************************************************)
(* The copies of tied embeddings agree, the ranks that wait in a           *)
(* collective work on the same weight, a shard can be computed with alone, *)
(* what is exported is what was loaded, and the index names what was       *)
(* exported: for every job and all sizes.                                  *)
(***************************************************************************)
EXTENDS HfExport, WeightLayouts_proofs, FiniteSetTheorems, TLAPS

Settled(r) == stage[r] \notin {"load", "share"}
FirstOf(r) == <<0, r[2], r[3]>>

\* States are functions of the ranks, and a rank's parameters a function of its names.
Shape ==
    /\ job \in Jobs
    /\ stage = [r \in Ranks(job) |-> stage[r]]
    /\ param = [r \in Ranks(job) |-> param[r]]
    /\ \A r \in Ranks(job) : param[r] = [t \in Params(job, r[1], r[2]) |-> param[r][t]]

\* The last stage settles with the first only, and no load reaches either after that.
TiedInv ==
    /\ Shape
    /\ job.tied /\ job.pp > 1 =>
          \A r \in Ranks(job) :
              r[1] = job.pp - 1 /\ Settled(r) =>
                  /\ Settled(FirstOf(r))
                  /\ param[r][Output] = param[FirstOf(r)][Embedding]

-----------------------------------------------------------------------------

LEMMA RankParts ==
    ASSUME NEW j \in Jobs, NEW r \in Ranks(j)
    PROVE  /\ j.pp \in Nat \ {0}
           /\ FirstOf(r) \in Ranks(j) /\ FirstOf(r)[1] = 0
           /\ <<j.pp - 1, r[2], r[3]>> \in Ranks(j)
           /\ r = <<r[1], r[2], r[3]>>
           /\ j.pp > 1 /\ r[1] = j.pp - 1 => FirstOf(r) # r
<1>1. j.pp \in Nat \ {0}
  BY ExportConstants
<1>2. 0 \in 0 .. j.pp - 1 /\ j.pp - 1 \in 0 .. j.pp - 1
  BY <1>1
<1>3. r[1] \in 0 .. j.pp - 1 /\ r = <<r[1], r[2], r[3]>>
  BY DEF Ranks
<1>4. r[2] \in 0 .. j.ep - 1 /\ r[3] \in 0 .. j.tp - 1
  BY DEF Ranks
<1>5. FirstOf(r)[1] = 0
  BY DEF FirstOf
<1> QED
  BY <1>1, <1>2, <1>3, <1>4, <1>5 DEF Ranks, FirstOf

LEMMA TiedInit == Init => TiedInv
<1> SUFFICES ASSUME Init PROVE TiedInv
  OBVIOUS
<1>1. Shape
  BY DEF Init, Shape, InitialParam
<1>2. \A r \in Ranks(job) : ~Settled(r)
  BY DEF Init, Settled
<1> QED
  BY <1>1, <1>2 DEF TiedInv

\* A step that changes no parameter and settles no rank of the last stage keeps the
\* invariant.
LEMMA Unloaded ==
    ASSUME TiedInv, job' = job, param' = param,
           stage' = [r \in Ranks(job) |-> stage'[r]],
           \A r \in Ranks(job) :
               /\ Settled(r) => Settled(r)'
               /\ job.tied /\ job.pp > 1 /\ r[1] = job.pp - 1 /\ Settled(r)' => Settled(r)
    PROVE  TiedInv'
<1>1. Shape'
  BY DEF TiedInv, Shape
<1>2. ASSUME job.tied, job.pp > 1, NEW r \in Ranks(job), r[1] = job.pp - 1, Settled(r)'
      PROVE  Settled(FirstOf(r))' /\ param'[r][Output] = param'[FirstOf(r)][Embedding]
  <2>1. Settled(r)
    BY <1>2
  <2>2. Settled(FirstOf(r)) /\ param[r][Output] = param[FirstOf(r)][Embedding]
    BY <1>2, <2>1 DEF TiedInv
  <2>3. FirstOf(r) \in Ranks(job)
    BY RankParts DEF TiedInv, Shape
  <2> QED
    BY <2>2, <2>3
<1> QED
  BY <1>1, <1>2 DEF TiedInv

-----------------------------------------------------------------------------

LEMMA TiedLoad ==
    ASSUME TiedInv, NEW lead \in Ranks(job), Load(lead)
    PROVE  TiedInv'
<1> DEFINE g == GroupOf(job, lead, "tp")
<1>1. /\ job' = job /\ stage' = stage
      /\ \A r \in g : stage[r] = "load"
      /\ param' = [r \in Ranks(job) |->
                      IF r \in g THEN [param[r] EXCEPT ![LoadTasks(job, r)[position[r]]] =
                                          Shard(job, LoadTasks(job, lead)[position[lead]], r[3])]
                      ELSE param[r]]
  BY DEF Load
<1> HIDE DEF g
<1>2. ASSUME NEW r \in Ranks(job)
      PROVE  param'[r] = [t \in Params(job, r[1], r[2]) |-> param'[r][t]]
  <2>1. param[r] = [t \in Params(job, r[1], r[2]) |-> param[r][t]]
    BY DEF TiedInv, Shape
  <2>2. CASE r \in g
    BY <1>1, <2>1, <2>2
  <2>3. CASE r \notin g
    BY <1>1, <2>1, <2>3
  <2> QED
    BY <2>2, <2>3
<1>3. Shape'
  BY <1>1, <1>2 DEF TiedInv, Shape
<1>4. \A r \in Ranks(job) : Settled(r) => Settled(r)' /\ param'[r] = param[r]
  BY <1>1 DEF Settled
<1>5. ASSUME job.tied, job.pp > 1, NEW r \in Ranks(job), r[1] = job.pp - 1, Settled(r)'
      PROVE  Settled(FirstOf(r))' /\ param'[r][Output] = param'[FirstOf(r)][Embedding]
  <2>1. Settled(r)
    BY <1>1, <1>5 DEF Settled
  <2>2. Settled(FirstOf(r)) /\ param[r][Output] = param[FirstOf(r)][Embedding]
    BY <1>5, <2>1 DEF TiedInv
  <2>3. FirstOf(r) \in Ranks(job)
    BY RankParts DEF TiedInv, Shape
  <2> QED
    BY <1>4, <2>1, <2>2, <2>3
<1> QED
  BY <1>1, <1>3, <1>5 DEF TiedInv

LEMMA TiedFinishLoad ==
    ASSUME TiedInv, NEW r \in Ranks(job), FinishLoad(r)
    PROVE  TiedInv'
<1>1. /\ job' = job /\ param' = param /\ stage[r] = "load"
      /\ stage' = [stage EXCEPT ![r] = IF job.tied /\ job.pp > 1 /\ r[1] \in {0, job.pp - 1}
                                       THEN "share" ELSE "loaded"]
  BY DEF FinishLoad
<1>2. stage = [s \in Ranks(job) |-> stage[s]]
  BY DEF TiedInv, Shape
<1>3. stage' = [s \in Ranks(job) |-> stage'[s]]
  BY <1>1, <1>2
<1>4. ~Settled(r)
  BY <1>1 DEF Settled
<1>5. job.tied /\ job.pp > 1 /\ r[1] = job.pp - 1 => ~Settled(r)'
  BY <1>1, <1>2 DEF Settled
<1>6. \A s \in Ranks(job) : s # r => stage'[s] = stage[s]
  BY <1>1, <1>2
<1> QED
  BY <1>1, <1>3, <1>4, <1>5, <1>6, Unloaded DEF Settled

LEMMA TiedShare ==
    ASSUME TiedInv, NEW first \in Ranks(job), ShareEmbedding(first)
    PROVE  TiedInv'
<1> DEFINE last == <<job.pp - 1, first[2], first[3]>>
<1>1. /\ job' = job /\ first[1] = 0
      /\ param' = [param EXCEPT ![last] = [param[last] EXCEPT ![Output] = param[first][Embedding]]]
      /\ stage' = [stage EXCEPT ![first] = "loaded", ![last] = "loaded"]
  BY DEF ShareEmbedding
<1>2. /\ job \in Jobs
      /\ stage = [s \in Ranks(job) |-> stage[s]] /\ param = [s \in Ranks(job) |-> param[s]]
      /\ \A s \in Ranks(job) : param[s] = [t \in Params(job, s[1], s[2]) |-> param[s][t]]
  BY DEF TiedInv, Shape
<1>3. last \in Ranks(job) /\ job.pp \in Nat \ {0} /\ first = <<first[1], first[2], first[3]>>
  BY <1>2, RankParts
<1>l. last[1] = job.pp - 1
  OBVIOUS
<1> HIDE DEF last
<1>4. \A s \in Ranks(job) : s # last => param'[s] = param[s]
  BY <1>1, <1>2
<1>5. param'[last] = [param[last] EXCEPT ![Output] = param[first][Embedding]]
  BY <1>1, <1>2, <1>3
<1>6. Shape'
  <2>1. stage' = [s \in Ranks(job) |-> stage'[s]] /\ param' = [s \in Ranks(job) |-> param'[s]]
    BY <1>1, <1>2
  <2>2. \A s \in Ranks(job) : param'[s] = [t \in Params(job, s[1], s[2]) |-> param'[s][t]]
    BY <1>2, <1>3, <1>4, <1>5
  <2> QED
    BY <1>1, <1>2, <2>1, <2>2 DEF Shape
<1>7. ASSUME job.tied, job.pp > 1, NEW r \in Ranks(job), r[1] = job.pp - 1, Settled(r)'
      PROVE  Settled(FirstOf(r))' /\ param'[r][Output] = param'[FirstOf(r)][Embedding]
  <2>1. /\ FirstOf(r) \in Ranks(job) /\ FirstOf(r) # r /\ r = <<r[1], r[2], r[3]>>
        /\ FirstOf(r)[1] = 0
    BY <1>2, <1>7, RankParts
  <2>2. FirstOf(r) # last
    BY <2>1, <1>l, <1>7, <1>3
  <2>3. CASE r = last
    <3>1. FirstOf(r) = first
      BY <2>3, <1>1, <1>3 DEF FirstOf, last
    <3>2. stage'[first] = "loaded"
      BY <1>1, <1>2
    <3>3. Output \in DOMAIN param[last]
      <4>1. Output \in Params(job, last[1], last[2])
        BY <1>7, <1>l, <1>3 DEF Params
      <4> QED
        BY <4>1, <1>2, <1>3
    <3>4. param'[last][Output] = param[first][Embedding]
      BY <1>5, <3>3
    <3> QED
      BY <2>2, <2>3, <3>1, <3>2, <3>4, <1>4 DEF Settled
  <2>4. CASE r # last
    <3>1. r # first
      BY <1>1, <1>7, <1>3
    <3>2. stage'[r] = stage[r]
      BY <1>1, <1>2, <2>4, <3>1
    <3>3. Settled(FirstOf(r)) /\ param[r][Output] = param[FirstOf(r)][Embedding]
      BY <1>7, <3>2 DEF TiedInv, Settled
    <3>4. stage'[FirstOf(r)] \in {stage[FirstOf(r)], "loaded"}
      BY <1>1, <1>2, <2>1
    <3> QED
      BY <3>3, <3>4, <1>4, <2>1, <2>2, <2>4 DEF Settled
  <2> QED
    BY <2>3, <2>4
<1> QED
  BY <1>1, <1>6, <1>7 DEF TiedInv

\* While it exports no rank goes back to loading.
LEMMA TiedExport ==
    ASSUME TiedInv,
           \/ StartExport
           \/ \E r \in Ranks(job) : StageCollective(r) \/ GatherShards(r) \/ GatherExperts(r)
           \/ \E r \in Ranks(job) : Consume(r) \/ EndAlone(r) \/ WriteAssigned(r)
           \/ AgreeOnStatus \/ Leave
    PROVE  TiedInv'
<1>1. job' = job /\ param' = param
  BY DEF StartExport, StageCollective, GatherShards, GatherExperts, Consume, EndAlone,
         WriteAssigned, AgreeOnStatus, Leave
<1>2. stage = [s \in Ranks(job) |-> stage[s]]
  BY DEF TiedInv, Shape
<1>3. /\ stage' = [s \in Ranks(job) |-> stage'[s]]
      /\ \A s \in Ranks(job) : stage'[s] = stage[s] \/ (Settled(s) /\ Settled(s)')
  <2>1. CASE StartExport
    BY <2>1, <1>2 DEF StartExport, Settled
  <2>2. ASSUME NEW r \in Ranks(job), StageCollective(r) \/ GatherShards(r) \/ GatherExperts(r)
        PROVE  <1>3!1 /\ <1>3!2
    <3>1. CASE StageCollective(r)
      <4>1. AllEnter(GroupOf(job, r, "pp"), OfObject) \/ AllEnter(GroupOf(job, r, "pp"), {"tensor"})
        BY <3>1 DEF StageCollective
      <4>2. \A s \in GroupOf(job, r, "pp") : stage[s] = "export"
        BY <4>1 DEF AllEnter
      <4>3. \/ stage' = stage
            \/ stage' = [s \in Ranks(job) |-> IF s \in GroupOf(job, r, "pp") THEN "failed" ELSE stage[s]]
        BY <3>1 DEF StageCollective
      <4> QED
        BY <4>2, <4>3, <1>2 DEF Settled
    <3>2. CASE GatherShards(r) \/ GatherExperts(r)
      BY <3>2, <1>2 DEF GatherShards, GatherExperts
    <3> QED
      BY <2>2, <3>1, <3>2
  <2>3. ASSUME NEW r \in Ranks(job), Consume(r) \/ EndAlone(r) \/ WriteAssigned(r)
        PROVE  <1>3!1 /\ <1>3!2
    <3>1. stage[r] = "export"
      BY <2>3 DEF Consume, EndAlone, WriteAssigned, AtEnd
    <3>2. \/ stage' = stage
          \/ \E x \in {"failed", "barrier", "status"} : stage' = [stage EXCEPT ![r] = x]
      BY <2>3 DEF Consume, EndAlone, WriteAssigned
    <3> QED
      BY <3>1, <3>2, <1>2 DEF Settled
  <2>4. CASE AgreeOnStatus
    <3>1. \A s \in Ranks(job) : stage[s] = "status"
      BY <2>4 DEF AgreeOnStatus
    <3>2. stage' = [s \in Ranks(job) |-> "failed"] \/ stage' = [s \in Ranks(job) |-> "barrier"]
      BY <2>4 DEF AgreeOnStatus
    <3> QED
      BY <3>1, <3>2 DEF Settled
  <2>5. CASE Leave
    BY <2>5 DEF Leave, Settled
  <2> QED
    BY <2>1, <2>2, <2>3, <2>4, <2>5
<1>4. \A s \in Ranks(job) : Settled(s) <=> Settled(s)'
  BY <1>3 DEF Settled
<1> QED
  BY <1>1, <1>3, <1>4, Unloaded

LEMMA TiedStep == TiedInv /\ [Next]_vars => TiedInv'
<1> SUFFICES ASSUME TiedInv, [Next]_vars PROVE TiedInv'
  OBVIOUS
<1>1. CASE \E r \in Ranks(job) : Load(r) \/ FinishLoad(r) \/ ShareEmbedding(r)
  BY <1>1, TiedLoad, TiedFinishLoad, TiedShare
<1>2. CASE \/ StartExport
           \/ \E r \in Ranks(job) : StageCollective(r) \/ GatherShards(r) \/ GatherExperts(r)
           \/ \E r \in Ranks(job) : Consume(r) \/ EndAlone(r) \/ WriteAssigned(r)
           \/ AgreeOnStatus \/ Leave
  BY <1>2, TiedExport
<1>3. CASE UNCHANGED vars
  BY <1>3 DEF vars, output, TiedInv, Shape, Settled
<1> QED
  BY <1>1, <1>2, <1>3 DEF Next

\* Once a model with tied embeddings is loaded, its last stage computes the output with
\* the embedding of the first stage, whatever the source, the parallel sizes and the order
\* in which the stages finish loading (model_bridge.py, _broadcast_shared_embeddings).
THEOREM TiedEmbeddingsAgree == Spec => []TiedCopiesAgree
<1>1. TiedInv => TiedCopiesAgree
  BY DEF TiedInv, TiedCopiesAgree, Settled, FirstOf
<1> QED
  BY <1>1, TiedInit, TiedStep, PTL DEF Spec

-----------------------------------------------------------------------------
(* Names and their order. *)

WeightNames == {"norm", "embed", "out", "fc1", "experts", "proj", "qkv"}

\* All names a job of this model can have.
NameBox(j) == (-1 .. Layers - 1) \X (-1 .. j.experts) \X WeightNames

LEMMA Place ==
    ASSUME NEW v \in WeightNames, NEW w \in WeightNames
    PROVE  /\ PlaceOf(v) \in 1 .. 7
           /\ PlaceOf(v) = PlaceOf(w) => v = w
<1>1. /\ DOMAIN Weights = 1 .. 7
      /\ \A u \in WeightNames : \E i \in 1 .. 7 : Weights[i] = u
  BY DEF Weights, WeightNames
<1>2. \A u \in WeightNames : PlaceOf(u) \in 1 .. 7 /\ Weights[PlaceOf(u)] = u
  BY <1>1 DEF PlaceOf
<1> QED BY <1>2

\* Names are strictly ordered, and any two of them are.
LEMMA NamesAreOrdered ==
    ASSUME NEW j, j.experts \in Nat, NEW t \in NameBox(j), NEW u \in NameBox(j), NEW v \in NameBox(j)
    PROVE  /\ ~Before(t, t)
           /\ Before(t, u) /\ Before(u, v) => Before(t, v)
           /\ t = u \/ Before(t, u) \/ Before(u, t)
<1>1. ASSUME NEW x \in NameBox(j)
      PROVE  x[1] \in Int /\ x[2] \in Int /\ x[3] \in WeightNames /\ x = <<x[1], x[2], x[3]>>
  <2>1. Layers \in Nat
    BY ExportConstants
  <2> QED BY <2>1 DEF NameBox
<1>2. \A x \in {t, u, v} : PlaceOf(x[3]) \in Int
  BY <1>1, Place
<1>3. ~Before(t, t)
  BY <1>1, <1>2 DEF Before
<1>4. Before(t, u) /\ Before(u, v) => Before(t, v)
  BY <1>1, <1>2 DEF Before
<1>5. t = u \/ Before(t, u) \/ Before(u, t)
  <2>1. t[1] = u[1] /\ t[2] = u[2] /\ PlaceOf(t[3]) = PlaceOf(u[3]) => t = u
    BY <1>1, Place
  <2> QED BY <1>1, <1>2, <2>1 DEF Before
<1> QED BY <1>3, <1>4, <1>5

LEMMA BoxIsFinite ==
    ASSUME NEW j, j.experts \in Nat
    PROVE  IsFiniteSet(NameBox(j))
<1>1. Layers \in Nat /\ -1 \in Int /\ Layers - 1 \in Int
  BY ExportConstants
<1>2. IsFiniteSet(-1 .. Layers - 1) /\ IsFiniteSet(-1 .. j.experts)
  BY <1>1, FS_Interval
<1>3. IsFiniteSet(WeightNames)
  <2> DEFINE f == Weights
  <2>1. f \in Surjection(1 .. 7, WeightNames)
    <3>1. f \in [1 .. 7 -> WeightNames]
      BY DEF Weights, WeightNames
    <3>2. \A w \in WeightNames : \E i \in 1 .. 7 : f[i] = w
      BY DEF Weights, WeightNames
    <3> QED BY <3>1, <3>2 DEF Surjection
  <2>2. IsFiniteSet(1 .. 7)
    <3>1. 1 \in Int /\ 7 \in Int
      OBVIOUS
    <3> QED BY <3>1, FS_Interval
  <2> HIDE DEF f
  <2>3. \A T : \A g \in Surjection(1 .. 7, T) : IsFiniteSet(T)
    BY <2>2, FS_Surjection
  <2> QED BY <2>1, <2>3
<1>4. IsFiniteSet((-1 .. j.experts) \X WeightNames)
  BY <1>2, <1>3, FS_Product
<1> DEFINE A == -1 .. Layers - 1
           B == -1 .. j.experts
           f == [x \in (A \X B) \X WeightNames |-> <<x[1][1], x[1][2], x[2]>>]
<1>5. IsFiniteSet((A \X B) \X WeightNames)
  BY <1>2, <1>3, FS_Product
<1>6. f \in Surjection((A \X B) \X WeightNames, NameBox(j))
  <2> HIDE DEF A, B
  <2>1. NameBox(j) = A \X B \X WeightNames
    BY DEF NameBox, A, B
  <2>2. f \in [(A \X B) \X WeightNames -> A \X B \X WeightNames]
    OBVIOUS
  <2>3. ASSUME NEW y \in A \X B \X WeightNames
        PROVE  \E x \in (A \X B) \X WeightNames : f[x] = y
    <3>1. <<<<y[1], y[2]>>, y[3]>> \in (A \X B) \X WeightNames
      OBVIOUS
    <3>2. f[<<<<y[1], y[2]>>, y[3]>>] = y
      BY <3>1
    <3> QED BY <3>1, <3>2
  <2> HIDE DEF f
  <2> QED BY <2>1, <2>2, <2>3 DEF Surjection
<1> HIDE DEF f, A, B
<1> QED BY <1>5, <1>6, FS_Surjection

\* How many names of S come before t.
RankIn(S, t) == Cardinality({u \in S : Before(u, t)})

\* A set of names in order: each has its place, and each place its name.
LEMMA InOrder ==
    ASSUME NEW j, j.experts \in Nat, NEW S, S \subseteq NameBox(j)
    PROVE  /\ IsFiniteSet(S) /\ Cardinality(S) \in Nat
           /\ \A t \in S : RankIn(S, t) \in 0 .. Cardinality(S) - 1
           /\ \A t, u \in S : Before(t, u) => RankIn(S, t) < RankIn(S, u)
           /\ \A t, u \in S : RankIn(S, t) = RankIn(S, u) => t = u
           /\ \A i \in 1 .. Cardinality(S) : \E t \in S : RankIn(S, t) = i - 1
<1> DEFINE n == Cardinality(S)
           before(t) == {u \in S : Before(u, t)}
<1>1. IsFiniteSet(S) /\ n \in Nat
  BY BoxIsFinite, FS_Subset, FS_CardinalityType
<1> HIDE DEF n
<1>2. ASSUME NEW t \in S
      PROVE  IsFiniteSet(before(t)) /\ RankIn(S, t) \in 0 .. n - 1
  <2>1. before(t) \in SUBSET S /\ before(t) # S
    BY NamesAreOrdered
  <2>2. IsFiniteSet(before(t)) /\ Cardinality(before(t)) <= n /\ Cardinality(before(t)) # n
    BY <1>1, <2>1, FS_Subset DEF n
  <2>3. Cardinality(before(t)) \in Nat
    BY <2>2, FS_CardinalityType
  <2> QED BY <1>1, <2>2, <2>3 DEF RankIn, n
<1>r. ASSUME NEW t \in S
      PROVE  RankIn(S, t) \in Nat /\ RankIn(S, t) \in 0 .. n - 1
  <2>1. RankIn(S, t) \in 0 .. n - 1
    BY <1>2
  <2> QED BY <2>1, <1>1
<1>3. ASSUME NEW t \in S, NEW u \in S, Before(t, u)
      PROVE  RankIn(S, t) < RankIn(S, u)
  <2>1. before(t) \in SUBSET before(u)
    BY <1>3, NamesAreOrdered
  <2>2. t \in before(u) /\ t \notin before(t)
    BY <1>3, NamesAreOrdered
  <2>3. Cardinality(before(t)) <= Cardinality(before(u))
        /\ Cardinality(before(t)) # Cardinality(before(u))
    BY <1>2, <2>1, <2>2, FS_Subset
  <2>4. Cardinality(before(t)) = RankIn(S, t) /\ Cardinality(before(u)) = RankIn(S, u)
    BY DEF RankIn
  <2>5. RankIn(S, t) \in Nat /\ RankIn(S, u) \in Nat
    BY <1>r
  <2> HIDE DEF before
  <2> QED BY <2>3, <2>4, <2>5
<1>4. ASSUME NEW t \in S, NEW u \in S, RankIn(S, t) = RankIn(S, u)
      PROVE  t = u
  <2>1. RankIn(S, t) \in Nat /\ RankIn(S, u) \in Nat
    BY <1>r
  <2>2. ~Before(t, u) /\ ~Before(u, t)
    BY <1>3, <1>4, <2>1
  <2> QED BY <2>2, NamesAreOrdered
<1>5. \A i \in 1 .. n : \E t \in S : RankIn(S, t) = i - 1
  <2> DEFINE f == [t \in S |-> RankIn(S, t)]
             T == 0 .. n - 1
  <2>1. f \in [S -> T]
    BY <1>2
  <2>2. \A t, u \in S : f[t] = f[u] => t = u
    BY <1>4
  <2>3. IsFiniteSet(T) /\ Cardinality(T) = n
    <3>1. n - 1 \in Int
      BY <1>1
    <3>2. IsFiniteSet(T) /\ Cardinality(T) = IF 0 > n - 1 THEN 0 ELSE n - 1 - 0 + 1
      BY <3>1, FS_Interval
    <3> QED BY <1>1, <3>2
  <2>4. \A t \in S : f[t] = RankIn(S, t)
    OBVIOUS
  <2>5. \A i \in 1 .. n : i - 1 \in T
    BY <1>1
  <2> HIDE DEF f, T
  <2>6. f \in Injection(S, T)
    BY <2>1, <2>2 DEF Injection, IsInjective
  <2>7. f \in Surjection(S, T)
    BY <1>1, <2>3, <2>6, FS_Injection DEF n
  <2>8. \A i \in T : \E t \in S : f[t] = i
    BY <2>7 DEF Surjection
  <2> QED BY <2>4, <2>5, <2>8
<1> QED BY <1>1, <1>2, <1>3, <1>4, <1>5 DEF n

LEMMA OrderedAt ==
    ASSUME NEW j, j.experts \in Nat, NEW S, S \subseteq NameBox(j)
    PROVE  LET s == Ordered(S, Before)
           IN  /\ Len(s) = Cardinality(S) /\ s \in Seq(S)
               /\ \A i \in 1 .. Cardinality(S) : s[i] \in S /\ RankIn(S, s[i]) = i - 1
               /\ \A t \in S : \E i \in 1 .. Len(s) : s[i] = t
<1> DEFINE n == Cardinality(S)
           e(i) == CHOOSE t \in S : Cardinality({u \in S : Before(u, t)}) = i - 1
<1>1. n \in Nat
  BY InOrder
<1>2. Ordered(S, Before) = [i \in 1 .. n |-> e(i)]
  BY DEF Ordered
<1>3. ASSUME NEW i \in 1 .. n
      PROVE  e(i) \in S /\ RankIn(S, e(i)) = i - 1
  <2>1. \E t \in S : RankIn(S, t) = i - 1
    BY InOrder
  <2>2. \E t \in S : Cardinality({u \in S : Before(u, t)}) = i - 1
    BY <2>1 DEF RankIn
  <2> QED BY <2>2 DEF RankIn
<1> HIDE DEF e, n
<1> DEFINE s == [i \in 1 .. n |-> e(i)]
<1>4. s \in Seq(S) /\ Len(s) = n /\ \A i \in 1 .. n : s[i] = e(i)
  BY <1>1, <1>3
<1>5. ASSUME NEW t \in S
      PROVE  \E i \in 1 .. n : e(i) = t
  <2> DEFINE i == RankIn(S, t) + 1
  <2>1. i \in 1 .. n /\ i - 1 = RankIn(S, t)
    BY <1>1, InOrder DEF n
  <2> HIDE DEF i
  <2>2. e(i) \in S /\ RankIn(S, e(i)) = RankIn(S, t)
    BY <1>3, <2>1
  <2>3. e(i) = t
    BY <2>2, InOrder
  <2> QED BY <2>1, <2>3
<1> HIDE DEF s
<1>6. Ordered(S, Before) = s
  BY <1>2 DEF s
<1> QED BY <1>3, <1>4, <1>5, <1>6 DEF n

-----------------------------------------------------------------------------
(* The names of an expert-parallel rank are those of the first, with its    *)
(* experts for theirs.                                                      *)

Shift(j, t, e) ==
    IF t[3] = "experts" THEN <<t[1], t[2] + e * ExpertsPerRank(j), t[3]>> ELSE t

LEMMA JobSizes ==
    ASSUME NEW j \in Jobs
    PROVE  /\ j.pp \in Nat \ {0} /\ j.tp \in Nat \ {0} /\ j.ep \in Nat \ {0}
           /\ j.experts \in Nat /\ ExpertsPerRank(j) \in Nat
           /\ Layers \in Nat \ {0}
           /\ j.experts = j.ep * ExpertsPerRank(j)
<1>1. /\ j.pp \in Nat \ {0} /\ j.tp \in Nat \ {0} /\ j.ep \in Nat \ {0}
      /\ j.experts \in Nat /\ j.experts % j.ep = 0 /\ Layers \in Nat \ {0}
  BY ExportConstants
<1>2. \A n \in Nat, d \in Nat \ {0} : n \div d \in Nat /\ n = d * (n \div d) + (n % d)
  OBVIOUS
<1> DEFINE n == j.experts
           d == j.ep
<1>3. n \in Nat /\ d \in Nat \ {0} /\ n % d = 0
  BY <1>1
<1> HIDE DEF n, d
<1>4. n \div d \in Nat /\ n = d * (n \div d)
  <2>1. n \div d \in Nat /\ n = d * (n \div d) + (n % d)
    BY <1>2, <1>3
  <2>2. d * (n \div d) \in Nat
    BY <2>1, <1>3
  <2> QED BY <1>3, <2>1, <2>2
<1> QED BY <1>1, <1>4 DEF n, d, ExpertsPerRank

LEMMA FirstExpert ==
    ASSUME NEW j \in Jobs, NEW e \in 0 .. j.ep - 1
    PROVE  /\ e * ExpertsPerRank(j) \in Nat /\ 0 * ExpertsPerRank(j) = 0
           /\ \A x \in 0 .. ExpertsPerRank(j) - 1 :
                  e * ExpertsPerRank(j) + x \in 0 .. j.experts - 1
<1> DEFINE E == ExpertsPerRank(j)
           n == j.ep
<1>1. E \in Nat /\ n \in Nat \ {0} /\ j.experts = n * E /\ e \in 0 .. n - 1
  BY JobSizes
<1> HIDE DEF E, n
<1>2. e * E \in Nat /\ 0 * E = 0 /\ n * E \in Nat
  BY <1>1
<1>3. (n - e) * E >= E
  <2>1. n - e - 1 \in Nat
    BY <1>1
  <2>2. (n - e - 1) * E \in Nat /\ (n - e) * E = (n - e - 1) * E + E
    BY <2>1, <1>1
  <2> QED BY <2>2, <1>1
<1>4. n * E = e * E + (n - e) * E
  BY <1>1
<1>5. (n - e) * E \in Int
  BY <1>1
<1>6. ASSUME NEW x \in 0 .. E - 1
      PROVE  e * E + x \in 0 .. n * E - 1
  BY <1>1, <1>2, <1>3, <1>4, <1>5
<1> QED BY <1>1, <1>2, <1>6 DEF E

\* A stage has, on each expert-parallel rank, the names of its layers.
OfLayer(j, p, t) ==
    \E l \in 0 .. Layers - 1 :
        /\ (l * j.pp) \div Layers = p
        /\ \/ t = <<l, None, "qkv">> \/ t = <<l, None, "proj">>
           \/ ~(j.experts > 0 /\ l = Layers - 1) /\ t = <<l, None, "fc1">>

OfExpert(j, p, e, t) ==
    /\ j.experts > 0 /\ ((Layers - 1) * j.pp) \div Layers = p
    /\ \E x \in 0 .. ExpertsPerRank(j) - 1 :
           t = <<Layers - 1, e * ExpertsPerRank(j) + x, "experts">>

OfEnds(j, p, t) ==
    \/ p = 0 /\ t = Embedding
    \/ p = j.pp - 1 /\ t = <<None, None, "norm">>
    \/ p = j.pp - 1 /\ ~(j.tied /\ j.pp = 1) /\ t = Output

LEMMA ParamsAre ==
    ASSUME NEW j \in Jobs, NEW p, NEW e, NEW t
    PROVE  t \in Params(j, p, e) <=> OfEnds(j, p, t) \/ OfLayer(j, p, t) \/ OfExpert(j, p, e, t)
<1>1. Layers - 1 \in 0 .. Layers - 1 /\ Layers \in Nat
  BY JobSizes
<1> DEFINE L == {l \in 0 .. Layers - 1 : (l * j.pp) \div Layers = p}
           X(l) == IF j.experts > 0 /\ l = Layers - 1
                   THEN {<<l, e * ExpertsPerRank(j) + x, "experts">> : x \in 0 .. ExpertsPerRank(j) - 1}
                   ELSE {<<l, None, "fc1">>}
           A == (IF p = 0 THEN {Embedding} ELSE {}) \cup
                (IF p = j.pp - 1
                 THEN {<<None, None, "norm">>} \cup (IF j.tied /\ j.pp = 1 THEN {} ELSE {Output})
                 ELSE {})
           U == UNION {LayerParams(j, l, e) : l \in L}
<1>2. Params(j, p, e) = A \cup U
  BY DEF Params
<1>3. t \in A <=> OfEnds(j, p, t)
  BY DEF OfEnds
<1>4. t \in U <=> \E l \in L : t \in LayerParams(j, l, e)
  <2> HIDE DEF L
  <2> QED OBVIOUS
<1>5. \A l : t \in LayerParams(j, l, e) <=>
                t = <<l, None, "qkv">> \/ t = <<l, None, "proj">> \/ t \in X(l)
  BY DEF LayerParams
<1>6. \A l : t \in X(l) <=>
         \/ /\ j.experts > 0 /\ l = Layers - 1
            /\ \E x \in 0 .. ExpertsPerRank(j) - 1 : t = <<l, e * ExpertsPerRank(j) + x, "experts">>
         \/ ~(j.experts > 0 /\ l = Layers - 1) /\ t = <<l, None, "fc1">>
  <2> TAKE l
  <2> DEFINE b == j.experts > 0 /\ l = Layers - 1
             S == 0 .. ExpertsPerRank(j) - 1
             f(x) == <<l, e * ExpertsPerRank(j) + x, "experts">>
  <2>1. t \in X(l) <=> (b /\ t \in {f(x) : x \in S}) \/ (~b /\ t = <<l, None, "fc1">>)
    OBVIOUS
  <2>2. t \in {f(x) : x \in S} <=> \E x \in S : t = f(x)
    <3> HIDE DEF f, S
    <3> QED OBVIOUS
  <2> QED BY <2>1, <2>2, Zenon
<1>7. \A l : l \in L <=> l \in 0 .. Layers - 1 /\ (l * j.pp) \div Layers = p
  OBVIOUS
<1> HIDE DEF L, X, A, U
<1>8. t \in U => OfLayer(j, p, t) \/ OfExpert(j, p, e, t)
  BY <1>4, <1>5, <1>6, <1>7, Zenon DEF OfLayer, OfExpert
<1>9. OfLayer(j, p, t) => t \in U
  BY <1>4, <1>5, <1>6, <1>7, Zenon DEF OfLayer
<1>10. OfExpert(j, p, e, t) => t \in U
  BY <1>1, <1>4, <1>5, <1>6, <1>7, Zenon DEF OfExpert
<1> QED BY <1>2, <1>3, <1>8, <1>9, <1>10

\* Only experts are numbered, and a rank's experts from its first one on.
LEMMA ParamShape ==
    ASSUME NEW j \in Jobs, NEW p, NEW e \in 0 .. j.ep - 1, NEW t \in Params(j, p, e)
    PROVE  /\ t \in NameBox(j)
           /\ t[3] = "experts" => t[2] \in 0 .. j.experts - 1
           /\ t[3] # "experts" => t[2] = None
<1>1. Layers \in Nat \ {0} /\ j.experts \in Nat /\ None = -1
  BY JobSizes DEF None
<1> HIDE DEF None
<1>2. \A l \in -1 .. Layers - 1, w \in WeightNames : <<l, None, w>> \in NameBox(j)
  BY <1>1 DEF NameBox
<1>3. CASE OfEnds(j, p, t)
  <2>1. None \in -1 .. Layers - 1
    BY <1>1
  <2>2. /\ t = <<None, None, t[3]>> /\ t[2] = None
        /\ t[3] \in {"embed", "norm", "out"}
    BY <1>3 DEF OfEnds, Embedding, Output
  <2> QED BY <2>1, <2>2, <1>2 DEF WeightNames
<1>4. CASE OfLayer(j, p, t)
  <2>1. PICK l \in 0 .. Layers - 1 :
            t = <<l, None, "qkv">> \/ t = <<l, None, "proj">> \/ t = <<l, None, "fc1">>
    BY <1>4 DEF OfLayer
  <2>2. l \in -1 .. Layers - 1 /\ t = <<l, None, t[3]>> /\ t[2] = None
        /\ t[3] \in {"qkv", "proj", "fc1"}
    BY <2>1, <1>1
  <2> QED BY <2>2, <1>2 DEF WeightNames
<1>5. CASE OfExpert(j, p, e, t)
  <2>1. PICK x \in 0 .. ExpertsPerRank(j) - 1 :
            t = <<Layers - 1, e * ExpertsPerRank(j) + x, "experts">>
    BY <1>5 DEF OfExpert
  <2> DEFINE y == e * ExpertsPerRank(j) + x
  <2>2. y \in 0 .. j.experts - 1
    BY FirstExpert
  <2>3. t = <<Layers - 1, y, "experts">>
    BY <2>1
  <2> HIDE DEF y
  <2>4. y \in -1 .. j.experts /\ Layers - 1 \in -1 .. Layers - 1
    BY <2>2, <1>1
  <2> QED BY <2>2, <2>3, <2>4 DEF NameBox, WeightNames
<1> QED BY <1>3, <1>4, <1>5, ParamsAre

LEMMA ShiftParams ==
    ASSUME NEW j \in Jobs, NEW p, NEW e \in 0 .. j.ep - 1
    PROVE  /\ \A t \in Params(j, p, 0) : Shift(j, t, e) \in Params(j, p, e)
           /\ \A u \in Params(j, p, e) : \E t \in Params(j, p, 0) : u = Shift(j, t, e)
<1>1. 0 \in 0 .. j.ep - 1 /\ ExpertsPerRank(j) \in Nat
  BY JobSizes
<1> DEFINE E == ExpertsPerRank(j)
           d == e * ExpertsPerRank(j)
<1>2. d \in Nat /\ 0 * E = 0 /\ E \in Nat
  BY FirstExpert, JobSizes
<1>3. \A t : OfExpert(j, p, 0, t) <=>
         /\ j.experts > 0 /\ ((Layers - 1) * j.pp) \div Layers = p
         /\ \E x \in 0 .. E - 1 : t = <<Layers - 1, x, "experts">>
  <2>1. \A x \in 0 .. E - 1 : 0 * E + x = x
    BY <1>2
  <2> QED BY <2>1, Zenon DEF OfExpert, E
<1>4. \A t : OfExpert(j, p, e, t) <=>
         /\ j.experts > 0 /\ ((Layers - 1) * j.pp) \div Layers = p
         /\ \E x \in 0 .. E - 1 : t = <<Layers - 1, d + x, "experts">>
  BY DEF OfExpert
<1>5. \A t : t[3] # "experts" => Shift(j, t, e) = t
  BY DEF Shift
<1>6. \A x : Shift(j, <<Layers - 1, x, "experts">>, e) = <<Layers - 1, x + d, "experts">>
  BY DEF Shift
<1>7. \A t : OfEnds(j, p, t) \/ OfLayer(j, p, t) => t[3] # "experts"
  BY DEF OfEnds, OfLayer, Embedding, Output
<1> HIDE DEF E, d
<1>8. \A x \in 0 .. E - 1 : x + d = d + x
  BY <1>2
<1>9. ASSUME NEW t \in Params(j, p, 0)
      PROVE  Shift(j, t, e) \in Params(j, p, e)
  <2>1. CASE OfEnds(j, p, t) \/ OfLayer(j, p, t)
    BY <2>1, <1>5, <1>7, ParamsAre
  <2>2. CASE OfExpert(j, p, 0, t)
    <3>1. PICK x \in 0 .. E - 1 : t = <<Layers - 1, x, "experts">>
      BY <2>2, <1>3
    <3>2. Shift(j, t, e) = <<Layers - 1, d + x, "experts">>
      BY <3>1, <1>6, <1>8
    <3>3. OfExpert(j, p, e, Shift(j, t, e))
      BY <2>2, <3>2, <1>3, <1>4
    <3> QED BY <3>3, ParamsAre
  <2> QED BY <2>1, <2>2, ParamsAre
<1>10. ASSUME NEW u \in Params(j, p, e)
       PROVE  \E t \in Params(j, p, 0) : u = Shift(j, t, e)
  <2>1. CASE OfEnds(j, p, u) \/ OfLayer(j, p, u)
    <3>1. u \in Params(j, p, 0)
      BY <2>1, ParamsAre
    <3> QED BY <2>1, <3>1, <1>5, <1>7
  <2>2. CASE OfExpert(j, p, e, u)
    <3>1. PICK x \in 0 .. E - 1 : u = <<Layers - 1, d + x, "experts">>
      BY <2>2, <1>4
    <3>2. OfExpert(j, p, 0, <<Layers - 1, x, "experts">>)
      BY <2>2, <1>3, <1>4
    <3>3. <<Layers - 1, x, "experts">> \in Params(j, p, 0)
      BY <3>2, ParamsAre
    <3>4. u = Shift(j, <<Layers - 1, x, "experts">>, e)
      BY <3>1, <1>6, <1>8
    <3> QED BY <3>3, <3>4
  <2> QED BY <2>1, <2>2, ParamsAre
<1> QED BY <1>9, <1>10

LEMMA NamesAre ==
    ASSUME NEW j \in Jobs, NEW e, NEW t
    PROVE  t \in NamesOf(j, e) <=>
              /\ \E p \in 0 .. j.pp - 1 : t \in Params(j, p, e)
              /\ ~(j.tied /\ t = Output)
<1> DEFINE U == UNION {Params(j, p, e) : p \in 0 .. j.pp - 1}
<1>1. t \in U <=> \E p \in 0 .. j.pp - 1 : t \in Params(j, p, e)
  OBVIOUS
<1>2. NamesOf(j, e) = U \ (IF j.tied THEN {Output} ELSE {})
  BY DEF NamesOf
<1> HIDE DEF U
<1> QED BY <1>1, <1>2

LEMMA ShiftNames ==
    ASSUME NEW j \in Jobs, NEW e \in 0 .. j.ep - 1
    PROVE  /\ NamesOf(j, e) \subseteq NameBox(j) /\ NamesOf(j, 0) \subseteq NameBox(j)
           /\ \A t \in NamesOf(j, 0) : Shift(j, t, e) \in NamesOf(j, e)
           /\ \A u \in NamesOf(j, e) : \E t \in NamesOf(j, 0) : u = Shift(j, t, e)
           /\ \A t, u \in NamesOf(j, 0) :
                  /\ Before(t, u) <=> Before(Shift(j, t, e), Shift(j, u, e))
                  /\ Shift(j, t, e) = Shift(j, u, e) => t = u
<1>1. 0 \in 0 .. j.ep - 1
  BY JobSizes
<1>2. /\ \A t \in NamesOf(j, e) : t \in NameBox(j)
      /\ \A t \in NamesOf(j, 0) :
             /\ t \in NameBox(j)
             /\ t[3] = "experts" => t[2] \in 0 .. j.experts - 1
             /\ t[3] # "experts" => t[2] = None
  <2>1. ASSUME NEW f \in 0 .. j.ep - 1, NEW t \in NamesOf(j, f)
        PROVE  /\ t \in NameBox(j)
               /\ t[3] = "experts" => t[2] \in 0 .. j.experts - 1
               /\ t[3] # "experts" => t[2] = None
    <3>1. PICK p \in 0 .. j.pp - 1 : t \in Params(j, p, f)
      BY NamesAre
    <3> QED BY <3>1, ParamShape
  <2> QED BY <1>1, <2>1
<1>3. \A t : (Shift(j, t, e) = Output <=> t = Output)
  <2>1. Output[3] = "out" /\ "out" # "experts"
    BY DEF Output
  <2>2. \A t : t[3] = "experts" => Shift(j, t, e)[3] = "experts"
    BY DEF Shift
  <2>3. \A t : t[3] # "experts" => Shift(j, t, e) = t
    BY DEF Shift
  <2> QED BY <2>1, <2>2, <2>3
<1>4. ASSUME NEW t \in NamesOf(j, 0)
      PROVE  Shift(j, t, e) \in NamesOf(j, e)
  BY <1>3, NamesAre, ShiftParams
<1>5. ASSUME NEW u \in NamesOf(j, e)
      PROVE  \E t \in NamesOf(j, 0) : u = Shift(j, t, e)
  <2>1. PICK p \in 0 .. j.pp - 1 : u \in Params(j, p, e)
    BY NamesAre
  <2>2. PICK t \in Params(j, p, 0) : u = Shift(j, t, e)
    BY <2>1, ShiftParams
  <2>3. t \in NamesOf(j, 0)
    BY <2>2, <1>3, NamesAre
  <2> QED BY <2>2, <2>3
<1>6. ASSUME NEW t \in NamesOf(j, 0), NEW u \in NamesOf(j, 0)
      PROVE  /\ Before(t, u) <=> Before(Shift(j, t, e), Shift(j, u, e))
             /\ Shift(j, t, e) = Shift(j, u, e) => t = u
  <2> DEFINE d == e * ExpertsPerRank(j)
  <2>1. d \in Nat
    BY FirstExpert
  <2>2. \A x \in {t, u} :
           /\ Shift(j, x, e) = IF x[3] = "experts" THEN <<x[1], x[2] + d, x[3]>> ELSE x
           /\ x[1] \in Int /\ x[2] \in Int /\ x = <<x[1], x[2], x[3]>>
           /\ x[3] = "experts" => x[2] >= 0
           /\ x[3] # "experts" => x[2] = -1
    <3>1. \A x \in {t, u} : x \in NameBox(j)
      BY <1>2
    <3>2. Layers \in Nat /\ j.experts \in Nat
      BY JobSizes
    <3>3. \A x \in NameBox(j) : x[1] \in Int /\ x[2] \in Int /\ x = <<x[1], x[2], x[3]>>
      BY <3>2 DEF NameBox
    <3>4. \A x \in {t, u} : Shift(j, x, e) = IF x[3] = "experts" THEN <<x[1], x[2] + d, x[3]>> ELSE x
      BY DEF Shift
    <3>5. \A x \in {t, u} : (x[3] = "experts" => x[2] >= 0) /\ (x[3] # "experts" => x[2] = -1)
      BY <1>2, <3>2 DEF None
    <3> QED BY <3>1, <3>3, <3>4, <3>5
  <2> HIDE DEF d
  <2> DEFINE a == Shift(j, t, e)
             b == Shift(j, u, e)
  <2>3. /\ a[1] = t[1] /\ a[3] = t[3] /\ b[1] = u[1] /\ b[3] = u[3]
        /\ a[2] = (IF t[3] = "experts" THEN t[2] + d ELSE t[2])
        /\ b[2] = (IF u[3] = "experts" THEN u[2] + d ELSE u[2])
    BY <2>2
  <2>4. t[1] \in Int /\ t[2] \in Int /\ u[1] \in Int /\ u[2] \in Int
        /\ t = <<t[1], t[2], t[3]>> /\ u = <<u[1], u[2], u[3]>>
        /\ (t[3] = "experts" => t[2] >= 0) /\ (t[3] # "experts" => t[2] = -1)
        /\ (u[3] = "experts" => u[2] >= 0) /\ (u[3] # "experts" => u[2] = -1)
    BY <2>2
  <2> HIDE DEF a, b
  <2>5. (a[2] < b[2] <=> t[2] < u[2]) /\ (a[2] = b[2] <=> t[2] = u[2])
    BY <2>1, <2>3, <2>4
  <2>6. Before(t, u) <=> Before(a, b)
    BY <2>3, <2>5 DEF Before
  <2>7. a = b => t = u
    <3>1. a = b => t[1] = u[1] /\ t[2] = u[2] /\ t[3] = u[3]
      BY <2>3, <2>5
    <3> QED BY <3>1, <2>4
  <2> QED BY <2>6, <2>7 DEF a, b
<1> QED BY <1>2, <1>4, <1>5, <1>6

\* A bijection that keeps the order keeps the rank.
LEMMA SameRank ==
    ASSUME NEW j \in Jobs, NEW e \in 0 .. j.ep - 1
    PROVE  /\ Cardinality(NamesOf(j, e)) = Cardinality(NamesOf(j, 0))
           /\ \A t \in NamesOf(j, 0) :
                  RankIn(NamesOf(j, e), Shift(j, t, e)) = RankIn(NamesOf(j, 0), t)
<1> DEFINE N == NamesOf(j, 0)
           M == NamesOf(j, e)
           g(t) == Shift(j, t, e)
<1>1. /\ \A t \in N : g(t) \in M
      /\ \A u \in M : \E t \in N : u = g(t)
      /\ \A t, u \in N : (Before(t, u) <=> Before(g(t), g(u))) /\ (g(t) = g(u) => t = u)
  BY ShiftNames
<1>2. IsFiniteSet(N)
  BY ShiftNames, JobSizes, InOrder
<1> HIDE DEF N, M, g
<1>3. ASSUME NEW S \in SUBSET N, NEW T \in SUBSET M,
             \A t \in S : g(t) \in T,
             \A u \in T : \E t \in S : u = g(t)
      PROVE  Cardinality(T) = Cardinality(S)
  <2> DEFINE f == [t \in S |-> g(t)]
  <2>1. f \in [S -> T] /\ (\A t \in S : f[t] = g(t)) /\ DOMAIN f = S
    BY <1>3
  <2> HIDE DEF f
  <2>2. f \in Injection(S, T)
    <3>1. \A a, b \in S : f[a] = f[b] => a = b
      BY <2>1, <1>1
    <3> QED BY <2>1, <3>1 DEF Injection, IsInjective
  <2>3. f \in Surjection(S, T)
    <3>1. \A u \in T : \E t \in S : f[t] = u
      BY <2>1, <1>3
    <3> QED BY <2>1, <3>1 DEF Surjection
  <2>4. IsFiniteSet(S)
    BY <1>2, FS_Subset
  <2> QED BY <2>2, <2>3, <2>4, FS_Surjection
<1>4. Cardinality(M) = Cardinality(N)
  BY <1>1, <1>3
<1>5. ASSUME NEW t \in N
      PROVE  RankIn(M, g(t)) = RankIn(N, t)
  <2> DEFINE S == {u \in N : Before(u, t)}
             T == {u \in M : Before(u, g(t))}
  <2>1. \A u \in S : g(u) \in T
    BY <1>1
  <2>2. \A v \in T : \E u \in S : v = g(u)
    BY <1>1
  <2>3. S \in SUBSET N /\ T \in SUBSET M
    OBVIOUS
  <2>4. RankIn(N, t) = Cardinality(S) /\ RankIn(M, g(t)) = Cardinality(T)
    BY DEF RankIn
  <2> HIDE DEF S, T
  <2> QED BY <1>3, <2>1, <2>2, <2>3, <2>4
<1> QED BY <1>4, <1>5 DEF N, M, g

FirstTasks(j) == Ordered(NamesOf(j, 0), Before)

\* All ranks of a job have the same tasks in the same order, but for the numbers of
\* their experts.
LEMMA TasksInOrder ==
    ASSUME NEW j \in Jobs, NEW r \in Ranks(j)
    PROVE  /\ Len(FirstTasks(j)) \in Nat /\ Len(Tasks(j, r)) = Len(FirstTasks(j))
           /\ \A i \in 1 .. Len(Tasks(j, r)) :
                  /\ FirstTasks(j)[i] \in NamesOf(j, 0)
                  /\ Tasks(j, r)[i] \in NamesOf(j, r[2])
                  /\ Tasks(j, r)[i] = Shift(j, FirstTasks(j)[i], r[2])
<1> DEFINE e == r[2]
           N == NamesOf(j, 0)
           M == NamesOf(j, e)
           s == FirstTasks(j)
           t == Tasks(j, r)
<1>1. e \in 0 .. j.ep - 1 /\ j.experts \in Nat
  BY JobSizes DEF Ranks
<1>2. N \subseteq NameBox(j) /\ M \subseteq NameBox(j)
  BY <1>1, ShiftNames
<1>3. t = Ordered(M, Before)
  BY <1>1 DEF Tasks, SortedNames
<1>4. Cardinality(M) = Cardinality(N) /\ Cardinality(N) \in Nat
  <2>1. Cardinality(N) \in Nat
    BY <1>1, <1>2, InOrder
  <2> QED BY <1>1, <2>1, SameRank
<1> HIDE DEF e, t
<1>5. /\ Len(s) = Cardinality(N)
      /\ \A i \in 1 .. Cardinality(N) : s[i] \in N /\ RankIn(N, s[i]) = i - 1
  <2> HIDE DEF N
  <2> QED BY <1>1, <1>2, OrderedAt DEF FirstTasks, N
<1>6. /\ Len(t) = Cardinality(N)
      /\ \A i \in 1 .. Cardinality(N) : t[i] \in M /\ RankIn(M, t[i]) = i - 1
  <2>1. LET o == Ordered(M, Before)
        IN  /\ Len(o) = Cardinality(M)
            /\ \A i \in 1 .. Cardinality(M) : o[i] \in M /\ RankIn(M, o[i]) = i - 1
    <3> HIDE DEF M
    <3> QED BY <1>1, <1>2, OrderedAt
  <2> QED BY <1>3, <1>4, <2>1
<1>7. ASSUME NEW i \in 1 .. Cardinality(N)
      PROVE  t[i] = Shift(j, s[i], e)
  <2> DEFINE u == Shift(j, s[i], e)
  <2>1. s[i] \in N /\ RankIn(N, s[i]) = i - 1
    BY <1>5
  <2>2. u \in M /\ RankIn(M, u) = i - 1
    BY <1>1, <2>1, ShiftNames, SameRank
  <2>3. t[i] \in M /\ RankIn(M, t[i]) = i - 1
    BY <1>6
  <2> HIDE DEF u
  <2>4. \A x, y \in M : RankIn(M, x) = RankIn(M, y) => x = y
    BY <1>1, <1>2, InOrder
  <2>5. t[i] = u
    BY <2>2, <2>3, <2>4
  <2> QED BY <2>5 DEF u
<1> QED BY <1>4, <1>5, <1>6, <1>7 DEF t, e

-----------------------------------------------------------------------------
(* The collectives of a task.                                               *)

Kinds == {"config", "type", "tensor", "tp", "experts", "ep"}

\* The order in which a task enters them.
Turn == [config |-> 1, type |-> 2, tensor |-> 3, tp |-> 4, experts |-> 5, ep |-> 6]

InTurn(s) ==
    /\ s \in Seq(Kinds)
    /\ \A a, b \in 1 .. Len(s) : a < b => Turn[s[a]] < Turn[s[b]]

\* Before the kind of module is known, nothing of what it decides has been entered.
Proper(s) == InTurn(s) /\ ("type" \in Range(s) => Range(s) \subseteq {"config", "type"})

\* The collectives that are left of task t after those that s has not reached.
Left(j, t, s) == Range(s) \cup (IF "type" \in Range(s) THEN Range(AfterType(j, t)) ELSE {})

\* What is to be entered next when the first of s has been.
Rest(j, t, s) == IF Head(s) = "type" THEN AfterType(j, t) ELSE Tail(s)

LEMMA Turns ==
    /\ \A k \in Kinds : Turn[k] \in 1 .. 6
    /\ \A k, l \in Kinds : Turn[k] = Turn[l] => k = l
BY DEF Kinds, Turn

LEMMA OneInTurn ==
    ASSUME NEW k \in Kinds
    PROVE  /\ InTurn(<<>>) /\ Range(<<>>) = {}
           /\ InTurn(<<k>>) /\ Range(<<k>>) = {k}
<1>1. <<>> \in Seq(Kinds) /\ Len(<<>>) = 0 /\ <<k>> \in Seq(Kinds) /\ Len(<<k>>) = 1 /\ <<k>>[1] = k
  OBVIOUS
<1>2. InTurn(<<>>)
  BY <1>1 DEF InTurn
<1>3. InTurn(<<k>>)
  BY <1>1 DEF InTurn
<1>4. Range(<<>>) = {} /\ Range(<<k>>) = {k}
  BY <1>1 DEF Range
<1> QED BY <1>2, <1>3, <1>4

LEMMA BothInTurn ==
    ASSUME NEW s, NEW t, InTurn(s), InTurn(t),
           \A k \in Range(s), l \in Range(t) : Turn[k] < Turn[l]
    PROVE  InTurn(s \o t) /\ Range(s \o t) = Range(s) \cup Range(t)
<1>1. s \in Seq(Kinds) /\ t \in Seq(Kinds)
  BY DEF InTurn
<1> DEFINE u == s \o t
           m == Len(s)
           n == Len(t)
<1>2. /\ u \in Seq(Kinds) /\ m \in Nat /\ n \in Nat /\ Len(u) = m + n
      /\ \A i \in 1 .. m + n : u[i] = IF i <= m THEN s[i] ELSE t[i - m]
  BY <1>1
<1>3. /\ \A k : k \in Range(s) <=> \E i \in 1 .. m : k = s[i]
      /\ \A k : k \in Range(t) <=> \E i \in 1 .. n : k = t[i]
      /\ \A k : k \in Range(u) <=> \E i \in 1 .. m + n : k = u[i]
  BY <1>1, <1>2 DEF Range
<1>4. /\ \A a, b \in 1 .. m : a < b => Turn[s[a]] < Turn[s[b]]
      /\ \A a, b \in 1 .. n : a < b => Turn[t[a]] < Turn[t[b]]
  BY DEF InTurn
<1> HIDE DEF u, m, n
<1>5. ASSUME NEW a \in 1 .. m + n, NEW b \in 1 .. m + n, a < b
      PROVE  Turn[u[a]] < Turn[u[b]]
  <2>1. CASE b <= m
    <3>1. a \in 1 .. m /\ b \in 1 .. m
      BY <1>2, <1>5, <2>1
    <3> QED BY <3>1, <1>2, <1>4, <1>5
  <2>2. CASE a > m
    <3>1. a - m \in 1 .. n /\ b - m \in 1 .. n /\ a - m < b - m
      BY <1>2, <1>5, <2>2
    <3>2. u[a] = t[a - m] /\ u[b] = t[b - m]
      BY <1>2, <1>5, <2>2
    <3> QED BY <3>1, <3>2, <1>4
  <2>3. CASE a <= m /\ b > m
    <3>1. a \in 1 .. m /\ b - m \in 1 .. n
      BY <1>2, <2>3
    <3>2. u[a] = s[a] /\ u[b] = t[b - m]
      BY <1>2, <2>3
    <3> QED BY <3>1, <3>2, <1>3
  <2> QED BY <1>2, <2>1, <2>2, <2>3
<1>6. \A k : k \in Range(u) <=> k \in Range(s) \/ k \in Range(t)
  <2>1. ASSUME NEW k, k \in Range(u) PROVE k \in Range(s) \/ k \in Range(t)
    <3>1. PICK i \in 1 .. m + n : k = u[i]
      BY <1>3, <2>1
    <3>2. CASE i <= m
      BY <3>1, <3>2, <1>2, <1>3
    <3>3. CASE i > m
      <4>1. i - m \in 1 .. n /\ k = t[i - m]
        BY <3>1, <3>3, <1>2
      <4> QED BY <4>1, <1>3
    <3> QED BY <3>2, <3>3, <1>2
  <2>2. ASSUME NEW k, k \in Range(s) PROVE k \in Range(u)
    <3>1. PICK i \in 1 .. m : k = s[i]
      BY <1>3, <2>2
    <3>2. i \in 1 .. m + n /\ u[i] = k
      BY <3>1, <1>2
    <3> QED BY <3>2, <1>3
  <2>3. ASSUME NEW k, k \in Range(t) PROVE k \in Range(u)
    <3>1. PICK i \in 1 .. n : k = t[i]
      BY <1>3, <2>3
    <3>2. i + m \in 1 .. m + n /\ i + m - m = i /\ ~(i + m <= m)
      BY <3>1, <1>2
    <3>3. u[i + m] = k
      BY <3>1, <3>2, <1>2
    <3> QED BY <3>2, <3>3, <1>3
  <2> QED BY <2>1, <2>2, <2>3
<1>7. Len(u) = m + n
  BY <1>2
<1>8. InTurn(u)
  BY <1>2, <1>5, <1>7 DEF InTurn
<1>9. Range(u) = Range(s) \cup Range(t)
  BY <1>6
<1> QED BY <1>8, <1>9 DEF u

\* What is entered is the first in turn of what is left, and only that is gone then.
LEMMA HeadInTurn ==
    ASSUME NEW s, InTurn(s), s # <<>>
    PROVE  /\ Head(s) \in Kinds /\ Head(s) \in Range(s)
           /\ \A k \in Range(s) : Turn[Head(s)] <= Turn[k]
           /\ InTurn(Tail(s)) /\ Range(Tail(s)) = Range(s) \ {Head(s)}
<1> DEFINE n == Len(s)
           h == Head(s)
           t == Tail(s)
<1>1. s \in Seq(Kinds) /\ n \in Nat /\ n >= 1
  BY DEF InTurn
<1>2. /\ h = s[1] /\ t \in Seq(Kinds) /\ Len(t) = n - 1
      /\ \A i \in 1 .. n - 1 : t[i] = s[i + 1]
      /\ \A i \in 1 .. n : s[i] \in Kinds
  BY <1>1
<1>3. /\ \A k : k \in Range(s) <=> \E i \in 1 .. n : k = s[i]
      /\ \A k : k \in Range(t) <=> \E i \in 1 .. n - 1 : k = t[i]
  <2>1. DOMAIN s = 1 .. n
    BY <1>1
  <2> HIDE DEF t, n, h
  <2>2. DOMAIN t = 1 .. n - 1
    BY <1>2
  <2> QED BY <2>1, <2>2 DEF Range
<1>4. \A a, b \in 1 .. n : a < b => Turn[s[a]] < Turn[s[b]]
  BY DEF InTurn
<1> HIDE DEF n, h, t
<1>5. 1 \in 1 .. n /\ h \in Kinds /\ h \in Range(s)
  BY <1>1, <1>2, <1>3
<1>6. \A i \in 1 .. n : i # 1 => Turn[h] < Turn[s[i]]
  BY <1>1, <1>2, <1>4, <1>5
<1>7. \A i \in 1 .. n : Turn[s[i]] \in Int
  BY <1>2, Turns
<1>8. \A k \in Range(s) : Turn[h] <= Turn[k]
  BY <1>2, <1>3, <1>5, <1>6, <1>7
<1>9. InTurn(t)
  <2>1. ASSUME NEW a \in 1 .. n - 1, NEW b \in 1 .. n - 1, a < b
        PROVE  Turn[t[a]] < Turn[t[b]]
    <3>1. a + 1 \in 1 .. n /\ b + 1 \in 1 .. n /\ a + 1 < b + 1
      BY <1>1, <2>1
    <3> QED BY <3>1, <1>2, <1>4
  <2> QED BY <1>2, <2>1 DEF InTurn
<1>10. \A k : k \in Range(t) <=> k \in Range(s) /\ k # h
  <2>1. ASSUME NEW k, k \in Range(t) PROVE k \in Range(s) /\ k # h
    <3>1. PICK i \in 1 .. n - 1 : k = t[i]
      BY <1>3, <2>1
    <3>2. i + 1 \in 1 .. n /\ i + 1 # 1 /\ k = s[i + 1]
      BY <3>1, <1>1, <1>2
    <3>3. Turn[h] < Turn[k] /\ Turn[k] \in Int
      BY <3>2, <1>6, <1>7
    <3>4. k # h
      BY <3>3
    <3> QED BY <3>2, <3>4, <1>3
  <2>2. ASSUME NEW k, k \in Range(s), k # h PROVE k \in Range(t)
    <3>1. PICK i \in 1 .. n : k = s[i]
      BY <1>3, <2>2
    <3>2. i - 1 \in 1 .. n - 1 /\ i - 1 + 1 = i
      BY <3>1, <2>2, <1>1, <1>2
    <3>3. t[i - 1] = k
      BY <3>1, <3>2, <1>2
    <3> QED BY <3>2, <3>3, <1>3
  <2> QED BY <2>1, <2>2
<1>11. Range(t) = Range(s) \ {h}
  BY <1>10
<1> QED BY <1>5, <1>8, <1>9, <1>11 DEF h, t

LEMMA AfterTypeIs ==
    ASSUME NEW j, NEW t
    PROVE  InTurn(AfterType(j, t)) /\ Range(AfterType(j, t)) \subseteq {"tensor", "tp"}
<1> DEFINE a == InGroup(j, "tensor")
           b == IF t[3] = "norm" THEN <<>> ELSE InGroup(j, "tp")
<1>1. {"tensor", "tp"} \subseteq Kinds /\ Turn["tensor"] < Turn["tp"]
  BY DEF Kinds, Turn
<1>2. InTurn(a) /\ Range(a) \subseteq {"tensor"}
  BY <1>1, OneInTurn DEF InGroup
<1>3. InTurn(b) /\ Range(b) \subseteq {"tp"}
  BY <1>1, OneInTurn DEF InGroup
<1>4. AfterType(j, t) = a \o b
  BY DEF AfterType
<1> HIDE DEF a, b
<1>5. InTurn(a \o b) /\ Range(a \o b) = Range(a) \cup Range(b)
  BY <1>1, <1>2, <1>3, BothInTurn
<1> QED BY <1>2, <1>3, <1>4, <1>5

\* Only experts are gathered over an expert-parallel group.
LEMMA StartIs ==
    ASSUME NEW j, NEW r, NEW t
    PROVE  /\ Proper(StartOf(j, r, t))
           /\ "ep" \in Range(StartOf(j, r, t)) => t[3] = "experts"
<1> DEFINE after == AfterType(j, t)
           a == InGroup(j, "experts")
           b == InGroup(j, "ep")
           s == StartOf(j, r, t)
<1>1. InTurn(after) /\ Range(after) \subseteq {"tensor", "tp"}
  BY AfterTypeIs
<1>2. InTurn(a) /\ Range(a) \subseteq {"experts"} /\ InTurn(b) /\ Range(b) \subseteq {"ep"}
  BY OneInTurn DEF InGroup, Kinds
<1>3. /\ InTurn(<<>>) /\ Range(<<>>) = {}
      /\ InTurn(<<"type">>) /\ Range(<<"type">>) = {"type"}
      /\ InTurn(<<"config">>) /\ Range(<<"config">>) = {"config"}
  BY OneInTurn DEF Kinds
<1>4. \/ s = <<>>
      \/ s = after
      \/ t[3] = "experts" /\ s = (after \o a) \o b
      \/ s = <<"config", "type">>
      \/ s = <<"type">>
  BY DEF StartOf
<1> HIDE DEF after, a, b, s
<1>5. /\ Turn["tensor"] < Turn["experts"] /\ Turn["tp"] < Turn["experts"]
      /\ Turn["tensor"] < Turn["ep"] /\ Turn["tp"] < Turn["ep"]
      /\ Turn["experts"] < Turn["ep"] /\ Turn["config"] < Turn["type"]
  BY DEF Turn
<1>6. InTurn(after \o a) /\ Range(after \o a) \subseteq {"tensor", "tp", "experts"}
  <2>1. \A k \in Range(after), l \in Range(a) : Turn[k] < Turn[l]
    BY <1>1, <1>2, <1>5
  <2> QED BY <2>1, <1>1, <1>2, BothInTurn
<1>7. InTurn((after \o a) \o b) /\ Range((after \o a) \o b) \subseteq {"tensor", "tp", "experts", "ep"}
  <2> DEFINE c == after \o a
  <2>1. \A k \in Range(c), l \in Range(b) : Turn[k] < Turn[l]
    BY <1>2, <1>5, <1>6
  <2>2. InTurn(c) /\ Range(c) \subseteq {"tensor", "tp", "experts"}
    BY <1>6
  <2> HIDE DEF c
  <2>3. InTurn(c \o b) /\ Range(c \o b) = Range(c) \cup Range(b)
    BY <2>1, <2>2, <1>2, BothInTurn
  <2> QED BY <2>2, <2>3, <1>2 DEF c
<1>8. InTurn(<<"config", "type">>) /\ Range(<<"config", "type">>) = {"config", "type"}
  <2> DEFINE c == <<"config", "type">>
  <2>1. /\ c \in Seq(Kinds) /\ Len(c) = 2 /\ DOMAIN c = 1 .. 2
        /\ c[1] = "config" /\ c[2] = "type"
    BY DEF Kinds
  <2> HIDE DEF c
  <2>2. \A x, y \in 1 .. 2 : x < y => x = 1 /\ y = 2
    OBVIOUS
  <2>3. InTurn(c)
    BY <2>1, <2>2, <1>5 DEF InTurn
  <2>4. Range(c) = {c[1], c[2]}
    BY <2>1 DEF Range
  <2> QED BY <2>1, <2>3, <2>4 DEF c
<1>9. CASE s = <<>> \/ s = after
  BY <1>9, <1>1, <1>3 DEF Proper, s
<1>10. CASE t[3] = "experts" /\ s = (after \o a) \o b
  BY <1>10, <1>7 DEF Proper, s
<1>11. CASE s = <<"config", "type">> \/ s = <<"type">>
  BY <1>11, <1>3, <1>8 DEF Proper, s
<1> QED BY <1>4, <1>9, <1>10, <1>11

\* A rank that enters a collective has that one less to enter.
LEMMA Entered ==
    ASSUME NEW j, NEW t, NEW s, Proper(s), s # <<>>
    PROVE  /\ Head(s) \in Kinds /\ Head(s) \in Left(j, t, s)
           /\ \A k \in Left(j, t, s) : k \in Kinds /\ Turn[Head(s)] <= Turn[k]
           /\ Proper(Rest(j, t, s)) /\ Left(j, t, Rest(j, t, s)) = Left(j, t, s) \ {Head(s)}
           /\ "ep" \in Range(Rest(j, t, s)) => "ep" \in Range(s)
<1> DEFINE h == Head(s)
           new == Rest(j, t, s)
           after == AfterType(j, t)
<1>1. /\ InTurn(s) /\ h \in Kinds /\ h \in Range(s)
      /\ \A k \in Range(s) : Turn[h] <= Turn[k]
      /\ InTurn(Tail(s)) /\ Range(Tail(s)) = Range(s) \ {h}
      /\ "type" \in Range(s) => Range(s) \subseteq {"config", "type"}
  BY HeadInTurn DEF Proper
<1>2. InTurn(after) /\ Range(after) \subseteq {"tensor", "tp"}
  BY AfterTypeIs
<1>3. Range(s) \subseteq Kinds
  BY <1>1 DEF InTurn, Range
<1>4. Left(j, t, s) = Range(s) \cup (IF "type" \in Range(s) THEN Range(after) ELSE {})
  BY DEF Left
<1> HIDE DEF h, new, after
<1>5. Turn["config"] = 1 /\ Turn["type"] = 2 /\ Turn["tensor"] = 3 /\ Turn["tp"] = 4
  BY DEF Turn
<1>6. ASSUME NEW k \in Left(j, t, s)
      PROVE  k \in Kinds /\ Turn[h] <= Turn[k]
  <2>1. CASE k \in Range(s)
    BY <2>1, <1>1, <1>3
  <2>2. CASE k \notin Range(s)
    <3>1. "type" \in Range(s) /\ k \in {"tensor", "tp"}
      BY <2>2, <1>2, <1>4
    <3>2. h \in {"config", "type"}
      BY <3>1, <1>1
    <3> QED BY <3>1, <3>2, <1>5 DEF Kinds
  <2> QED BY <2>1, <2>2
<1>7. CASE h = "type"
  <2>1. Range(s) = {"type"}
    <3>1. "config" \notin Range(s)
      BY <1>1, <1>5, <1>7
    <3> QED BY <3>1, <1>1, <1>7
  <2>2. new = after
    BY <1>7 DEF h, after, new, Rest
  <2>6. "type" \notin Range(new) /\ "ep" \notin Range(new) /\ InTurn(new)
    <3>1. "type" \notin {"tensor", "tp"} /\ "ep" \notin {"tensor", "tp"}
      OBVIOUS
    <3>2. "type" \notin Range(after) /\ "ep" \notin Range(after)
      BY <3>1, <1>2
    <3> QED BY <3>2, <2>2, <1>2
  <2>3. Left(j, t, new) = Range(after)
    BY <2>2, <2>6 DEF Left
  <2>4. Left(j, t, s) \ {h} = Range(after)
    BY <2>1, <1>2, <1>4, <1>7
  <2>5. Proper(new) /\ "ep" \notin Range(new)
    BY <2>6 DEF Proper
  <2> QED BY <2>3, <2>4, <2>5, <1>1, <1>4, <1>6 DEF h, new
<1>8. CASE h # "type"
  <2>1. new = Tail(s)
    BY <1>8 DEF h, new, Rest
  <2>2. Range(new) = Range(s) \ {h} /\ InTurn(new)
    BY <2>1, <1>1
  <2>3. Proper(new)
    BY <2>2, <1>1 DEF Proper
  <2>4. h \notin {"tensor", "tp"} \/ "type" \notin Range(s)
    BY <1>1
  <2>5. Left(j, t, new) = Range(new) \cup (IF "type" \in Range(new) THEN Range(after) ELSE {})
    BY DEF Left, after
  <2>6. Left(j, t, new) = Left(j, t, s) \ {h}
    BY <2>2, <2>4, <2>5, <1>2, <1>4, <1>8
  <2> QED BY <2>2, <2>3, <2>6, <1>1, <1>4, <1>6 DEF h, new
<1> QED BY <1>7, <1>8

-----------------------------------------------------------------------------
(* The ranks of a group agree on the collectives of their kind that are     *)
(* still to come.                                                           *)

Loading == {"load", "share", "loaded"}
TaskCount == Len(FirstTasks(job))

\* Rank r has yet to enter a collective of kind k for its i-th task.
Waits(r, i, k) ==
    \/ i = position[r] /\ k \in Left(job, TaskOf(r), todo[r])
    \/ i > position[r] /\ k \in Left(job, Tasks(job, r)[i], StartOf(job, r, Tasks(job, r)[i]))

WaitAlike(r, s, k) == \A i \in 1 .. TaskCount : Waits(r, i, k) <=> Waits(s, i, k)

InPlace(r) ==
    /\ position[r] \in 1 .. TaskCount + 1
    /\ Proper(todo[r])
    /\ todo[r] # <<>> => position[r] <= TaskCount
    /\ "ep" \in Range(todo[r]) => TaskOf(r)[3] = "experts"

Places ==
    /\ \A r \in Ranks(job) : InPlace(r)
    /\ \A r \in Ranks(job), k \in Kinds : \A s \in GroupOf(job, r, k) : WaitAlike(r, s, k)

Exporting == \A r \in Ranks(job) : stage[r] \notin Loading

MeetInv ==
    /\ job \in Jobs
    /\ stage    = [r \in Ranks(job) |-> stage[r]]
    /\ position = [r \in Ranks(job) |-> position[r]]
    /\ todo     = [r \in Ranks(job) |-> todo[r]]
    /\ Exporting \/ \A r \in Ranks(job) : stage[r] \in Loading
    /\ Exporting => Places

\* On a single pipeline stage a rank leaves out the weights that the source lacks, and
\* with them their collectives: a source must lack an expert on every expert-parallel
\* rank or on none.
ExpertsAlike ==
    \A j \in Jobs : j.pp = 1 =>
        \A e \in 0 .. j.ep - 1 : \A t \in NamesOf(j, 0) :
            Tensors(t) \cap j.absent = {} <=> Tensors(Shift(j, t, e)) \cap j.absent = {}

LEMMA GroupsPart ==
    ASSUME NEW j, NEW k, NEW r \in Ranks(j)
    PROVE  /\ r \in GroupOf(j, r, k) /\ GroupOf(j, r, k) \subseteq Ranks(j)
           /\ \A s \in GroupOf(j, r, k) : GroupOf(j, s, k) = GroupOf(j, r, k)
           /\ \A s \in Ranks(j) : r \in GroupOf(j, s, k) <=> s \in GroupOf(j, r, k)
BY DEF GroupOf

LEMMA SomeRank ==
    ASSUME NEW j \in Jobs
    PROVE  <<0, 0, 0>> \in Ranks(j)
<1>1. 0 \in 0 .. j.pp - 1 /\ 0 \in 0 .. j.ep - 1 /\ 0 \in 0 .. j.tp - 1
  BY JobSizes
<1> QED BY <1>1 DEF Ranks

\* Ranks that wait in a collective of each other's group are at the same place.
LEMMA Meeting ==
    ASSUME job \in Jobs, Places, NEW r \in Ranks(job), NEW s \in Ranks(job),
           todo[r] # <<>>, todo[s] # <<>>,
           s \in GroupOf(job, r, Head(todo[r])), r \in GroupOf(job, s, Head(todo[s]))
    PROVE  position[r] = position[s] /\ Head(todo[r]) = Head(todo[s])
<1> DEFINE k == Head(todo[r])
           l == Head(todo[s])
           X == Left(job, TaskOf(r), todo[r])
           Y == Left(job, TaskOf(s), todo[s])
<1>1. /\ position[r] \in 1 .. TaskCount /\ position[s] \in 1 .. TaskCount
      /\ Proper(todo[r]) /\ Proper(todo[s])
  <2>1. TaskCount \in Nat
    BY SomeRank, TasksInOrder DEF TaskCount
  <2> QED BY <2>1 DEF Places, InPlace
<1>2. /\ k \in Kinds /\ k \in X /\ \A x \in X : Turn[k] <= Turn[x]
      /\ l \in Kinds /\ l \in Y /\ \A y \in Y : Turn[l] <= Turn[y]
  <2>1. \A q \in {r, s} : /\ Head(todo[q]) \in Kinds /\ Head(todo[q]) \in Left(job, TaskOf(q), todo[q])
                          /\ \A x \in Left(job, TaskOf(q), todo[q]) : Turn[Head(todo[q])] <= Turn[x]
    <3> TAKE q \in {r, s}
    <3>1. Proper(todo[q]) /\ todo[q] # <<>>
      BY <1>1
    <3> QED BY <3>1, Entered
  <2> QED BY <2>1
<1>3. /\ \A i \in 1 .. TaskCount : Waits(r, i, k) <=> Waits(s, i, k)
      /\ \A i \in 1 .. TaskCount : Waits(s, i, l) <=> Waits(r, i, l)
  BY <1>2 DEF Places, WaitAlike
<1>4. Waits(r, position[r], k) /\ Waits(s, position[s], l)
  BY <1>2 DEF Waits
<1>5. Waits(s, position[r], k) /\ Waits(r, position[s], l)
  BY <1>1, <1>3, <1>4
<1>6. position[r] = position[s]
  <2>1. position[r] >= position[s] /\ position[s] >= position[r]
    BY <1>1, <1>5 DEF Waits
  <2> QED BY <2>1, <1>1
<1>7. k \in Y /\ l \in X
  BY <1>1, <1>5, <1>6 DEF Waits
<1>8. k = l
  <2>1. Turn[k] <= Turn[l] /\ Turn[l] <= Turn[k]
    BY <1>2, <1>7
  <2> HIDE DEF k, l
  <2>2. Turn[k] \in 1 .. 6 /\ Turn[l] \in 1 .. 6
    BY <1>2, Turns
  <2> QED BY <2>1, <2>2, <1>2, Turns
<1> QED BY <1>6, <1>8

LEMMA PlacesKept ==
    ASSUME MeetInv, Exporting, job' = job, position' = position, todo' = todo,
           stage' = [r \in Ranks(job) |-> stage'[r]], Exporting'
    PROVE  MeetInv'
<1>1. Places /\ job \in Jobs
  BY DEF MeetInv
<1>2. Places'
  BY <1>1 DEF Places, InPlace, WaitAlike, Waits, TaskOf, TaskCount
<1> QED BY <1>2 DEF MeetInv, Exporting

\* A collective takes the same from every rank of its group, and nothing from the others.
LEMMA Collected ==
    ASSUME MeetInv, Exporting, NEW k \in Kinds, NEW lead \in Ranks(job),
           NEW g, g = GroupOf(job, lead, k),
           \A s \in g : todo[s] # <<>> /\ Head(todo[s]) = k /\ position[s] = position[lead],
           job' = job, position' = position,
           stage' = [s \in Ranks(job) |-> stage'[s]], Exporting',
           todo' = [s \in Ranks(job) |->
                       IF s \in g THEN Rest(job, TaskOf(s), todo[s]) ELSE todo[s]]
    PROVE  MeetInv'
<1> DEFINE p == position[lead]
<1>1. job \in Jobs /\ Places /\ (\A s \in Ranks(job) : InPlace(s)) /\ p \in Int
  <2>1. job \in Jobs /\ Places /\ (\A s \in Ranks(job) : InPlace(s))
    BY DEF MeetInv, Places
  <2>2. TaskCount \in Nat
    BY <2>1, SomeRank, TasksInOrder DEF TaskCount
  <2> QED BY <2>1, <2>2 DEF InPlace
<1>2. g \subseteq Ranks(job) /\ \A s \in Ranks(job) : TaskOf(s)' = TaskOf(s)
  BY GroupsPart DEF TaskOf
<1>3. ASSUME NEW s \in g
      PROVE  /\ Proper(todo'[s])
             /\ Left(job, TaskOf(s), todo'[s]) = Left(job, TaskOf(s), todo[s]) \ {k}
             /\ "ep" \in Range(todo'[s]) => "ep" \in Range(todo[s])
  <2>1. todo'[s] = Rest(job, TaskOf(s), todo[s])
    BY <1>2
  <2>2. Proper(todo[s]) /\ todo[s] # <<>> /\ Head(todo[s]) = k
    BY <1>1, <1>2 DEF InPlace
  <2> QED BY <2>1, <2>2, Entered
<1>4. \A s \in Ranks(job) : s \notin g => todo'[s] = todo[s]
  OBVIOUS
<1>5. ASSUME NEW s \in Ranks(job)
      PROVE  InPlace(s)'
  <2>1. CASE s \in g
    <3>1. position[s] <= TaskCount
      BY <2>1, <1>1, <1>2 DEF InPlace
    <3> QED BY <2>1, <3>1, <1>1, <1>2, <1>3 DEF InPlace, TaskCount
  <2>2. CASE s \notin g
    BY <2>2, <1>1, <1>2, <1>4 DEF InPlace, TaskCount
  <2> QED BY <2>1, <2>2
<1>6. ASSUME NEW s \in Ranks(job), NEW i \in Int, NEW l \in Kinds
      PROVE  Waits(s, i, l)' <=> Waits(s, i, l) /\ ~(s \in g /\ l = k /\ i = p)
  <2> DEFINE later == i > position[s] /\ l \in Left(job, Tasks(job, s)[i], StartOf(job, s, Tasks(job, s)[i]))
  <2>1. Waits(s, i, l) <=> (i = position[s] /\ l \in Left(job, TaskOf(s), todo[s])) \/ later
    BY DEF Waits
  <2>2. Waits(s, i, l)' <=> (i = position[s] /\ l \in Left(job, TaskOf(s), todo'[s])) \/ later
    BY <1>2 DEF Waits
  <2>3. i = position[s] => ~later
    OBVIOUS
  <2> HIDE DEF later
  <2>4. CASE s \in g
    <3>1. position[s] = p
      BY <2>4
    <3> QED BY <2>1, <2>2, <2>3, <2>4, <3>1, <1>3
  <2>5. CASE s \notin g
    BY <2>1, <2>2, <2>5, <1>4
  <2> QED BY <2>4, <2>5
<1>7. ASSUME NEW r \in Ranks(job), NEW l \in Kinds, NEW s \in GroupOf(job, r, l)
      PROVE  WaitAlike(r, s, l)'
  <2>1. s \in Ranks(job) /\ WaitAlike(r, s, l)
    BY <1>1, GroupsPart DEF Places
  <2>2. l = k => (r \in g <=> s \in g)
    BY <2>1, GroupsPart
  <2>3. TaskCount' = TaskCount
    BY DEF TaskCount
  <2>4. \A i \in 1 .. TaskCount : Waits(r, i, l)' <=> Waits(s, i, l)'
    <3> TAKE i \in 1 .. TaskCount
    <3>1. Waits(r, i, l) <=> Waits(s, i, l)
      BY <2>1 DEF WaitAlike
    <3>2. i \in Int
      BY SomeRank, TasksInOrder, <1>1 DEF TaskCount
    <3>3. Waits(r, i, l)' <=> Waits(r, i, l) /\ ~(r \in g /\ l = k /\ i = p)
      BY <1>6, <3>2
    <3>4. Waits(s, i, l)' <=> Waits(s, i, l) /\ ~(s \in g /\ l = k /\ i = p)
      BY <1>6, <2>1, <3>2
    <3> QED BY <2>2, <3>1, <3>3, <3>4
  <2> QED BY <2>3, <2>4 DEF WaitAlike
<1>8. Places'
  BY <1>5, <1>7 DEF Places
<1> QED BY <1>8 DEF MeetInv, Exporting

-----------------------------------------------------------------------------

\* Whatever the stage and the expert-parallel rank, the i-th task starts in the same way.
LEMMA StartsAlike ==
    ASSUME ExpertsAlike, NEW j \in Jobs, NEW r \in Ranks(j), NEW s \in Ranks(j),
           NEW i \in 1 .. Len(FirstTasks(j)), NEW k
    PROVE  LET t == Tasks(j, r)[i]
               u == Tasks(j, s)[i]
           IN  k \in Left(j, t, StartOf(j, r, t)) <=> k \in Left(j, u, StartOf(j, s, u))
<1> DEFINE a == FirstTasks(j)[i]
           t == Tasks(j, r)[i]
           u == Tasks(j, s)[i]
<1>1. /\ a \in NamesOf(j, 0)
      /\ t \in NamesOf(j, r[2]) /\ t = Shift(j, a, r[2])
      /\ u \in NamesOf(j, s[2]) /\ u = Shift(j, a, s[2])
  BY TasksInOrder
<1>2. r[2] \in 0 .. j.ep - 1 /\ s[2] \in 0 .. j.ep - 1
      /\ r[1] \in 0 .. j.pp - 1 /\ s[1] \in 0 .. j.pp - 1
  BY DEF Ranks
<1> HIDE DEF a, t, u
<1>3. t[3] = u[3]
  <2>1. \A e : Shift(j, a, e)[3] = a[3]
    BY DEF Shift
  <2> QED BY <2>1, <1>1
<1>4. ASSUME j.pp = 1
      PROVE  Owns(j, r, t) <=> Owns(j, s, u)
  <2>1. r[1] = 0 /\ s[1] = 0 /\ \A p \in 0 .. j.pp - 1 : p = 0
    BY <1>2, <1>4
  <2>2. t \in Params(j, r[1], r[2]) /\ u \in Params(j, s[1], s[2])
    BY <1>1, <2>1, NamesAre
  <2>3. /\ Tensors(a) \cap j.absent = {} <=> Tensors(t) \cap j.absent = {}
        /\ Tensors(a) \cap j.absent = {} <=> Tensors(u) \cap j.absent = {}
    BY <1>1, <1>2, <1>4 DEF ExpertsAlike
  <2> QED BY <2>2, <2>3 DEF Owns
<1>5. AfterType(j, t) = AfterType(j, u)
  BY <1>3 DEF AfterType
<1>6. StartOf(j, r, t) = StartOf(j, s, u)
  BY <1>3, <1>4, <1>5 DEF StartOf
<1>7. Left(j, t, StartOf(j, r, t)) = Left(j, u, StartOf(j, s, u))
  BY <1>5, <1>6 DEF Left
<1> QED BY <1>7 DEF t, u

LEMMA MeetInit == Init => MeetInv
<1> SUFFICES ASSUME Init PROVE MeetInv
  OBVIOUS
<1>1. /\ job \in Jobs
      /\ stage = [r \in Ranks(job) |-> "load"]
      /\ position = [r \in Ranks(job) |-> 1]
      /\ todo = [r \in Ranks(job) |-> <<>>]
  BY DEF Init
<1>2. \A r \in Ranks(job) : stage[r] \in Loading
  BY <1>1 DEF Loading
<1>3. ~Exporting
  BY <1>1, <1>2, SomeRank DEF Exporting
<1> QED BY <1>1, <1>2, <1>3 DEF MeetInv

LEMMA MeetLoad ==
    ASSUME MeetInv, NEW r \in Ranks(job), Load(r) \/ FinishLoad(r) \/ ShareEmbedding(r)
    PROVE  MeetInv'
<1>1. /\ job \in Jobs /\ stage = [s \in Ranks(job) |-> stage[s]]
      /\ position = [s \in Ranks(job) |-> position[s]] /\ todo = [s \in Ranks(job) |-> todo[s]]
      /\ Exporting \/ \A s \in Ranks(job) : stage[s] \in Loading
  BY DEF MeetInv
<1>2. \E s \in Ranks(job) : stage[s] \in Loading
  <2>1. CASE Load(r)
    <3>1. r \in GroupOf(job, r, "tp")
      BY GroupsPart
    <3> QED BY <2>1, <3>1 DEF Load, Loading
  <2>2. CASE FinishLoad(r) \/ ShareEmbedding(r)
    BY <2>2 DEF FinishLoad, ShareEmbedding, Loading
  <2> QED BY <2>1, <2>2
<1>3. \A s \in Ranks(job) : stage[s] \in Loading
  BY <1>1, <1>2 DEF Exporting
<1>4. /\ job' = job /\ todo' = todo
      /\ position' = [s \in Ranks(job) |-> position'[s]]
      /\ stage' = [s \in Ranks(job) |-> stage'[s]]
  BY <1>1 DEF Load, FinishLoad, ShareEmbedding
<1>5. \A s \in Ranks(job) : stage'[s] \in Loading
  BY <1>1, <1>3 DEF Load, FinishLoad, ShareEmbedding, Loading
<1>6. ~Exporting'
  BY <1>1, <1>4, <1>5, SomeRank DEF Exporting
<1> QED BY <1>1, <1>4, <1>5, <1>6 DEF MeetInv

\* At its i-th task a rank has all of the task's collectives before it.
LEMMA TodoIs ==
    ASSUME NEW j \in Jobs, NEW r \in Ranks(j), NEW i \in 1 .. Len(FirstTasks(j)) + 1
    PROVE  /\ Proper(TodoAt(j, r, i))
           /\ i <= Len(FirstTasks(j)) =>
                 /\ TodoAt(j, r, i) = StartOf(j, r, Tasks(j, r)[i])
                 /\ "ep" \in Range(TodoAt(j, r, i)) => Tasks(j, r)[i][3] = "experts"
           /\ ~(i <= Len(FirstTasks(j))) => TodoAt(j, r, i) = <<>>
           /\ Range(<<>>) = {} /\ Left(j, Tasks(j, r)[i], <<>>) = {}
<1>1. Len(Tasks(j, r)) = Len(FirstTasks(j))
  BY TasksInOrder
<1>2. InTurn(<<>>) /\ Range(<<>>) = {}
  BY OneInTurn DEF Kinds
<1>3. Proper(<<>>) /\ \A t : Left(j, t, <<>>) = {}
  BY <1>2 DEF Proper, Left
<1>4. CASE i <= Len(FirstTasks(j))
  <2>1. TodoAt(j, r, i) = StartOf(j, r, Tasks(j, r)[i])
    BY <1>1, <1>4 DEF TodoAt
  <2> QED BY <2>1, <1>2, <1>3, <1>4, StartIs
<1>5. CASE ~(i <= Len(FirstTasks(j)))
  <2>1. TodoAt(j, r, i) = <<>>
    BY <1>1, <1>5 DEF TodoAt
  <2> QED BY <2>1, <1>2, <1>3, <1>5
<1> QED BY <1>4, <1>5

LEMMA MeetStart ==
    ASSUME ExpertsAlike, MeetInv, StartExport
    PROVE  MeetInv'
<1>1. /\ job \in Jobs /\ job' = job
      /\ stage' = [r \in Ranks(job) |-> "export"]
      /\ position' = [r \in Ranks(job) |-> 1]
      /\ todo' = [r \in Ranks(job) |-> TodoAt(job, r, 1)]
  BY DEF MeetInv, StartExport
<1>2. TaskCount' = TaskCount /\ TaskCount = Len(FirstTasks(job)) /\ TaskCount \in Nat
  BY <1>1, SomeRank, TasksInOrder DEF TaskCount
<1>3. ASSUME NEW r \in Ranks(job)
      PROVE  InPlace(r)'
  <2>1. 1 \in 1 .. Len(FirstTasks(job)) + 1
    BY <1>2
  <2>2. position'[r] = 1 /\ todo'[r] = TodoAt(job, r, 1) /\ TaskOf(r)' = Tasks(job, r)[1]
    BY <1>1 DEF TaskOf
  <2> QED BY <1>1, <1>2, <2>1, <2>2, TodoIs DEF InPlace
<1>4. ASSUME NEW r \in Ranks(job), NEW k, NEW i \in 1 .. TaskCount
      PROVE  Waits(r, i, k)' <=> k \in Left(job, Tasks(job, r)[i], StartOf(job, r, Tasks(job, r)[i]))
  <2>1. position'[r] = 1 /\ todo'[r] = TodoAt(job, r, 1) /\ TaskOf(r)' = Tasks(job, r)[1]
    BY <1>1 DEF TaskOf
  <2>2. CASE i = 1
    <3>1. 1 \in 1 .. Len(FirstTasks(job)) + 1 /\ 1 <= Len(FirstTasks(job))
      BY <1>2, <2>2
    <3>2. TodoAt(job, r, 1) = StartOf(job, r, Tasks(job, r)[1])
      BY <1>1, <3>1, TodoIs
    <3> QED BY <1>1, <2>1, <2>2, <3>2 DEF Waits
  <2>3. CASE i > 1
    BY <1>1, <2>1, <2>3 DEF Waits
  <2> QED BY <2>2, <2>3, <1>2
<1>5. ASSUME NEW r \in Ranks(job), NEW k \in Kinds, NEW s \in GroupOf(job, r, k)
      PROVE  WaitAlike(r, s, k)'
  <2>1. s \in Ranks(job)
    BY GroupsPart
  <2>2. \A i \in 1 .. TaskCount : Waits(r, i, k)' <=> Waits(s, i, k)'
    <3> TAKE i \in 1 .. TaskCount
    <3> DEFINE L(q) == k \in Left(job, Tasks(job, q)[i], StartOf(job, q, Tasks(job, q)[i]))
    <3>1. L(r) <=> L(s)
      BY <1>1, <1>2, <2>1, StartsAlike
    <3>2. (Waits(r, i, k)' <=> L(r)) /\ (Waits(s, i, k)' <=> L(s))
      BY <1>4, <2>1
    <3> QED BY <3>1, <3>2
  <2> QED BY <1>2, <2>2 DEF WaitAlike
<1>6. Places'
  BY <1>1, <1>3, <1>5 DEF Places
<1>7. Exporting'
  BY <1>1 DEF Exporting, Loading
<1> QED BY <1>1, <1>6, <1>7 DEF MeetInv

\* The members of a pipeline group that meet are at the same collective of the same task.
LEMMA StageMeets ==
    ASSUME MeetInv, NEW lead \in Ranks(job), StageCollective(lead),
           NEW g, g = GroupOf(job, lead, "pp")
    PROVE  /\ job \in Jobs /\ Exporting /\ Places /\ lead \in g /\ g \subseteq Ranks(job)
           /\ Head(todo[lead]) \in OfStage \cap Kinds /\ g = GroupOf(job, lead, Head(todo[lead]))
           /\ \A s \in g : /\ stage[s] = "export" /\ todo[s] # <<>>
                           /\ Head(todo[s]) = Head(todo[lead]) /\ position[s] = position[lead]
                           /\ TaskOf(s) = TaskOf(lead) /\ s[3] = lead[3]
<1> DEFINE k == Head(todo[lead])
<1>1. job \in Jobs /\ (Exporting \/ \A s \in Ranks(job) : stage[s] \in Loading)
  BY DEF MeetInv
<1>2. AllEnter(g, OfObject) \/ AllEnter(g, {"tensor"})
  BY DEF StageCollective
<1>3. lead \in g /\ g \subseteq Ranks(job)
  BY GroupsPart
<1>4. \A s \in g : stage[s] = "export" /\ todo[s] # <<>> /\ Head(todo[s]) \in OfStage
  BY <1>2 DEF AllEnter, OfStage
<1>5. Exporting /\ Places
  <2>1. stage[lead] \notin Loading
    BY <1>3, <1>4 DEF Loading
  <2>2. Exporting
    BY <2>1, <1>1
  <2> QED BY <2>2 DEF MeetInv
<1>6. OfStage \subseteq Kinds /\ "tp" \notin OfStage /\ "ep" \notin OfStage
  BY DEF OfStage, OfObject, Kinds
<1>7. \A s \in Ranks(job), l \in OfStage : GroupOf(job, s, l) = GroupOf(job, s, "pp")
  BY <1>6 DEF GroupOf
<1>8. k \in Kinds /\ g = GroupOf(job, lead, k)
  BY <1>3, <1>4, <1>6, <1>7
<1>9. ASSUME NEW s \in g
      PROVE  Head(todo[s]) = k /\ position[s] = position[lead]
  <2>1. s \in Ranks(job) /\ s \in GroupOf(job, lead, Head(todo[lead]))
    BY <1>3, <1>8
  <2>2. lead \in GroupOf(job, s, "pp")
    BY <2>1, GroupsPart
  <2>3. lead \in GroupOf(job, s, Head(todo[s]))
    BY <2>1, <2>2, <1>7, <1>4
  <2> QED BY <1>1, <1>3, <1>4, <1>5, <2>1, <2>3, Meeting
<1>10. \A s \in g : s[2] = lead[2] /\ s[3] = lead[3]
  BY DEF GroupOf
<1>11. \A s \in g : TaskOf(s) = TaskOf(lead)
  BY <1>9, <1>10 DEF TaskOf, Tasks
<1> QED BY <1>1, <1>3, <1>4, <1>5, <1>8, <1>9, <1>10, <1>11

\* If any of them owns the weight, one of the lowest stage does.
LEMMA SomeOwner ==
    ASSUME job \in Jobs, NEW g \in SUBSET Ranks(job), Owners(g) # {}
    PROVE  FirstOwner(g) \in Owners(g)
<1> DEFINE O == Owners(g)
           T == {r[1] : r \in O}
<1>1. O \subseteq g /\ O # {} /\ \A r \in O : r[1] \in Nat
  <2>1. \A r \in g : r[1] \in Nat
    BY DEF Ranks
  <2> QED BY <2>1 DEF Owners
<1> HIDE DEF O
<1>2. T \subseteq Nat /\ T # {}
  <2>1. \A x \in T : x \in Nat
    BY <1>1
  <2>2. PICK r \in O : TRUE
    BY <1>1
  <2>3. r[1] \in T
    BY <2>2
  <2> QED BY <2>1, <2>3
<1> DEFINE less == {x \in Nat \X Nat : x[1] < x[2]}
<1>3. IsWellFoundedOn(less, Nat)
  BY NatLessThanWellFounded DEF OpToRel
<1>4. \A m, n \in Nat : <<n, m>> \in less <=> n < m
  OBVIOUS
<1> HIDE DEF less, T
<1>5. \E m \in T : \A n \in T : ~(<<n, m>> \in less)
  BY <1>2, <1>3, WFMin
<1>6. PICK m \in T : \A n \in T : ~(<<n, m>> \in less)
  BY <1>5
<1>7. ASSUME NEW n \in T PROVE m <= n
  <2>1. m \in Nat /\ n \in Nat
    BY <1>2
  <2>2. ~(n < m)
    BY <2>1, <1>4, <1>6
  <2> QED BY <2>1, <2>2
<1>8. \E r \in O : \A s \in O : r[1] <= s[1]
  BY <1>7 DEF T
<1> QED BY <1>1, <1>8 DEF FirstOwner, O

\* So do the members of a tensor-parallel or expert-parallel group.
LEMMA GroupMeets ==
    ASSUME MeetInv, NEW lead \in Ranks(job), NEW k \in {"tp", "ep"},
           NEW g, g = GroupOf(job, lead, k), AllEnter(g, {k})
    PROVE  /\ job \in Jobs /\ Exporting /\ Places /\ lead \in g /\ g \subseteq Ranks(job)
           /\ \A s \in g : /\ stage[s] = "export" /\ todo[s] # <<>> /\ Head(todo[s]) = k
                           /\ position[s] = position[lead]
<1>1. job \in Jobs /\ (Exporting \/ \A s \in Ranks(job) : stage[s] \in Loading)
  BY DEF MeetInv
<1>2. lead \in g /\ g \subseteq Ranks(job) /\ \A s \in g : GroupOf(job, s, k) = g
  BY GroupsPart
<1>3. \A s \in g : stage[s] = "export" /\ todo[s] # <<>> /\ Head(todo[s]) = k
  BY DEF AllEnter
<1>4. Exporting /\ Places
  <2>1. stage[lead] \notin Loading
    BY <1>2, <1>3 DEF Loading
  <2>2. Exporting
    BY <2>1, <1>1
  <2> QED BY <2>2 DEF MeetInv
<1>5. \A s \in g : position[s] = position[lead]
  <2> TAKE s \in g
  <2>1. s \in GroupOf(job, lead, Head(todo[lead])) /\ lead \in GroupOf(job, s, Head(todo[s]))
    BY <1>2, <1>3
  <2> QED BY <1>1, <1>2, <1>3, <1>4, <2>1, Meeting
<1> QED BY <1>1, <1>2, <1>3, <1>4, <1>5

LEMMA MeetStage ==
    ASSUME MeetInv, NEW lead \in Ranks(job), StageCollective(lead)
    PROVE  MeetInv'
<1> DEFINE g == GroupOf(job, lead, "pp")
           k == Head(todo[lead])
<1>1. job' = job /\ position' = position /\ stage = [s \in Ranks(job) |-> stage[s]]
  BY DEF StageCollective, MeetInv
<1>2. /\ job \in Jobs /\ Exporting /\ lead \in g /\ g \subseteq Ranks(job)
      /\ k \in Kinds /\ g = GroupOf(job, lead, k)
      /\ \A s \in g : /\ stage[s] = "export" /\ todo[s] # <<>> /\ Head(todo[s]) = k
                      /\ position[s] = position[lead] /\ TaskOf(s) = TaskOf(lead)
  BY StageMeets
<1>3. CASE Owners(g) = {}
  <2>1. stage' = [s \in Ranks(job) |-> IF s \in g THEN "failed" ELSE stage[s]] /\ todo' = todo
    BY <1>3 DEF StageCollective
  <2>2. Exporting'
    BY <1>1, <1>2, <2>1 DEF Exporting, Loading
  <2> QED BY <1>1, <1>2, <2>1, <2>2, PlacesKept
<1>4. CASE Owners(g) # {}
  <2>1. FirstOwner(g) \in g
    BY <1>2, <1>4, SomeOwner DEF Owners
  <2>2. /\ stage' = stage
        /\ todo' = [s \in Ranks(job) |->
                       IF s \notin g THEN todo[s]
                       ELSE IF Head(todo[s]) = "type" THEN AfterType(job, TaskOf(FirstOwner(g)))
                       ELSE Tail(todo[s])]
    BY <1>4 DEF StageCollective
  <2> HIDE DEF k, g
  <2>3. \A s \in g : TaskOf(FirstOwner(g)) = TaskOf(s)
    BY <2>1, <1>2
  <2>4. todo' = [s \in Ranks(job) |->
                    IF s \in g THEN Rest(job, TaskOf(s), todo[s]) ELSE todo[s]]
    BY <2>2, <2>3, <1>2 DEF Rest
  <2>5. Exporting'
    BY <1>1, <1>2, <2>2 DEF Exporting
  <2>6. job' = job /\ position' = position /\ stage' = [s \in Ranks(job) |-> stage'[s]]
    BY <1>1, <2>2
  <2>7. /\ Exporting /\ k \in Kinds /\ g = GroupOf(job, lead, k)
        /\ \A s \in g : todo[s] # <<>> /\ Head(todo[s]) = k /\ position[s] = position[lead]
    BY <1>2
  <2> QED BY <2>4, <2>5, <2>6, <2>7, Collected
<1> QED BY <1>3, <1>4

\* A gathering over a tensor-parallel or expert-parallel group.
LEMMA MeetGather ==
    ASSUME MeetInv, NEW lead \in Ranks(job), GatherShards(lead) \/ GatherExperts(lead)
    PROVE  MeetInv'
<1>1. PICK k \in {"tp", "ep"} :
          /\ AllEnter(GroupOf(job, lead, k), {k})
          /\ todo' = [s \in Ranks(job) |-> IF s \in GroupOf(job, lead, k) THEN Tail(todo[s]) ELSE todo[s]]
          /\ job' = job /\ stage' = stage /\ position' = position
  BY DEF GatherShards, GatherExperts
<1> DEFINE g == GroupOf(job, lead, k)
<1>2. stage = [s \in Ranks(job) |-> stage[s]] /\ k \in Kinds /\ k # "type"
  BY DEF MeetInv, Kinds
<1>6. g = GroupOf(job, lead, k) /\ AllEnter(g, {k})
  BY <1>1
<1> HIDE DEF g
<1>3. /\ job \in Jobs /\ Exporting
      /\ \A s \in g : todo[s] # <<>> /\ Head(todo[s]) = k /\ position[s] = position[lead]
  BY <1>6, GroupMeets DEF AllEnter
<1>4. Exporting'
  BY <1>1, <1>3 DEF Exporting
<1>5. todo' = [s \in Ranks(job) |->
                  IF s \in g THEN Rest(job, TaskOf(s), todo[s]) ELSE todo[s]]
  BY <1>1, <1>2, <1>3, <1>6 DEF Rest
<1>7. job' = job /\ position' = position /\ stage' = [s \in Ranks(job) |-> stage'[s]]
  BY <1>1, <1>2
<1> QED BY <1>2, <1>3, <1>4, <1>5, <1>6, <1>7, Collected

LEMMA MeetConsume ==
    ASSUME ExpertsAlike, MeetInv, NEW r \in Ranks(job), Consume(r)
    PROVE  MeetInv'
<1> DEFINE p == position[r]
           n == Len(FirstTasks(job))
<1>1. /\ job \in Jobs /\ stage = [s \in Ranks(job) |-> stage[s]]
      /\ position = [s \in Ranks(job) |-> position[s]] /\ todo = [s \in Ranks(job) |-> todo[s]]
      /\ Exporting \/ \A s \in Ranks(job) : stage[s] \in Loading
  BY DEF MeetInv
<1>2. stage[r] = "export" /\ p <= Len(Tasks(job, r)) /\ todo[r] = <<>> /\ job' = job
  BY DEF Consume
<1>3. Exporting /\ Places
  <2>1. Exporting
    BY <1>1, <1>2 DEF Loading
  <2> QED BY <2>1 DEF MeetInv
<1>4. /\ TaskCount = n /\ TaskCount' = TaskCount /\ n \in Nat
      /\ p \in 1 .. n /\ p + 1 \in 1 .. n + 1
  <2>1. n \in Nat /\ TaskCount = n /\ TaskCount' = n
    BY <1>1, <1>2, SomeRank, TasksInOrder DEF TaskCount
  <2>2. p \in 1 .. n + 1 /\ Len(Tasks(job, r)) = n
    BY <1>1, <1>3, <2>1, TasksInOrder DEF Places, InPlace
  <2> HIDE DEF n, p
  <2> QED BY <2>1, <2>2, <1>2
<1>5. \/ /\ stage' = [stage EXCEPT ![r] = "failed"]
         /\ UNCHANGED <<position, todo>>
      \/ /\ stage' = stage
         /\ NextTask(r)
  BY DEF Consume
<1>6. CASE stage' = [stage EXCEPT ![r] = "failed"] /\ UNCHANGED <<position, todo>>
  <2>1. stage' = [s \in Ranks(job) |-> stage'[s]]
    BY <1>1, <1>6
  <2>2. Exporting'
    BY <1>1, <1>2, <1>3, <1>6 DEF Exporting, Loading
  <2> QED BY <1>2, <1>3, <1>6, <2>1, <2>2, PlacesKept
<1>7. CASE stage' = stage /\ NextTask(r)
  <2>1. /\ position' = [position EXCEPT ![r] = p + 1]
        /\ todo' = [todo EXCEPT ![r] = TodoAt(job, r, p + 1)]
    BY <1>7 DEF NextTask
  <2>2. /\ position'[r] = p + 1 /\ todo'[r] = TodoAt(job, r, p + 1)
        /\ TaskOf(r)' = Tasks(job, r)[p + 1]
        /\ \A s \in Ranks(job) : s # r =>
              position'[s] = position[s] /\ todo'[s] = todo[s] /\ TaskOf(s)' = TaskOf(s)
    BY <1>1, <1>2, <2>1 DEF TaskOf
  <2>3. /\ position' = [s \in Ranks(job) |-> position'[s]]
        /\ todo' = [s \in Ranks(job) |-> todo'[s]]
    BY <1>1, <2>1
  <2>4. /\ Proper(todo'[r])
        /\ p + 1 <= n => /\ todo'[r] = StartOf(job, r, Tasks(job, r)[p + 1])
                         /\ "ep" \in Range(todo'[r]) => Tasks(job, r)[p + 1][3] = "experts"
        /\ ~(p + 1 <= n) => todo'[r] = <<>>
        /\ Range(<<>>) = {} /\ Left(job, Tasks(job, r)[p], <<>>) = {}
    <3>1. /\ Proper(todo'[r])
          /\ p + 1 <= n => /\ todo'[r] = StartOf(job, r, Tasks(job, r)[p + 1])
                           /\ "ep" \in Range(todo'[r]) => Tasks(job, r)[p + 1][3] = "experts"
          /\ ~(p + 1 <= n) => todo'[r] = <<>>
          /\ Range(<<>>) = {}
      BY <1>1, <1>4, <2>2, TodoIs
    <3>2. p \in 1 .. n + 1
      BY <1>4
    <3>3. Left(job, Tasks(job, r)[p], <<>>) = {}
      BY <1>1, <3>2, TodoIs
    <3> QED BY <3>1, <3>3
  <2>5. ASSUME NEW s \in Ranks(job)
        PROVE  InPlace(s)'
    <3>1. CASE s = r
      BY <3>1, <1>4, <2>2, <2>4 DEF InPlace
    <3>2. CASE s # r
      BY <3>2, <1>2, <1>3, <1>4, <2>2 DEF Places, InPlace
    <3> QED BY <3>1, <3>2
  <2>6. ASSUME NEW s \in Ranks(job), NEW i \in 1 .. n, NEW k
        PROVE  Waits(s, i, k)' <=> Waits(s, i, k)
    <3>1. CASE s = r
      <4> DEFINE L(q) == k \in Left(job, Tasks(job, r)[q], StartOf(job, r, Tasks(job, r)[q]))
      <4>1. Waits(r, i, k) <=> i > p /\ L(i)
        BY <1>2, <2>4 DEF Waits, TaskOf
      <4>2. Waits(r, i, k)' <=> \/ i = p + 1 /\ k \in Left(job, Tasks(job, r)[p + 1], todo'[r])
                                \/ i > p + 1 /\ L(i)
        BY <1>2, <2>2 DEF Waits
      <4>3. i = p + 1 => (k \in Left(job, Tasks(job, r)[p + 1], todo'[r]) <=> L(i))
        BY <2>4, <1>4
      <4> HIDE DEF L, p
      <4> QED BY <3>1, <4>1, <4>2, <4>3, <1>4
    <3>2. CASE s # r
      BY <3>2, <1>2, <2>2 DEF Waits
    <3> QED BY <3>1, <3>2
  <2>7. ASSUME NEW s \in Ranks(job), NEW k \in Kinds, NEW q \in GroupOf(job, s, k)
        PROVE  WaitAlike(s, q, k)'
    <3>1. q \in Ranks(job) /\ WaitAlike(s, q, k)
      BY <1>3, GroupsPart DEF Places
    <3> QED BY <3>1, <1>4, <2>6 DEF WaitAlike
  <2>8. Places'
    BY <1>2, <2>5, <2>7 DEF Places
  <2>9. Exporting'
    BY <1>2, <1>3, <1>7 DEF Exporting
  <2> QED BY <1>1, <1>2, <1>7, <2>3, <2>8, <2>9 DEF MeetInv
<1> QED BY <1>5, <1>6, <1>7

LEMMA MeetEnd ==
    ASSUME MeetInv,
           \/ \E r \in Ranks(job) : EndAlone(r) \/ WriteAssigned(r)
           \/ AgreeOnStatus
           \/ Leave
    PROVE  MeetInv'
<1>1. job' = job /\ position' = position /\ todo' = todo
  BY DEF EndAlone, WriteAssigned, AgreeOnStatus, Leave
<1>2. stage = [s \in Ranks(job) |-> stage[s]] /\ job \in Jobs
      /\ (Exporting \/ \A s \in Ranks(job) : stage[s] \in Loading)
  BY DEF MeetInv
<1>3. /\ stage' = [s \in Ranks(job) |-> stage'[s]]
      /\ \E s \in Ranks(job) : stage[s] \notin Loading
      /\ \A s \in Ranks(job) : stage[s] \notin Loading => stage'[s] \notin Loading
  <2>1. ASSUME NEW r \in Ranks(job), EndAlone(r) \/ WriteAssigned(r)
        PROVE  <1>3!1 /\ <1>3!2 /\ <1>3!3
    <3>1. stage[r] = "export"
      BY <2>1 DEF EndAlone, WriteAssigned, AtEnd
    <3>2. \E x \in {"failed", "barrier", "status"} : stage' = [stage EXCEPT ![r] = x]
      BY <2>1 DEF EndAlone, WriteAssigned
    <3> QED BY <3>1, <3>2, <1>2 DEF Loading
  <2>2. CASE AgreeOnStatus \/ Leave
    <3>1. /\ \E x \in {"status", "barrier"} : \A s \in Ranks(job) : stage[s] = x
          /\ \E x \in {"failed", "barrier", "done"} : stage' = [s \in Ranks(job) |-> x]
      BY <2>2 DEF AgreeOnStatus, Leave
    <3> QED BY <3>1, <1>2, SomeRank DEF Loading
  <2> QED BY <2>1, <2>2
<1>4. Exporting /\ Exporting'
  BY <1>1, <1>2, <1>3 DEF Exporting
<1> QED BY <1>1, <1>3, <1>4, PlacesKept

LEMMA MeetStep == ExpertsAlike /\ MeetInv /\ [Next]_vars => MeetInv'
<1> SUFFICES ASSUME ExpertsAlike, MeetInv, [Next]_vars PROVE MeetInv'
  OBVIOUS
<1>1. CASE \E r \in Ranks(job) : Load(r) \/ FinishLoad(r) \/ ShareEmbedding(r)
  BY <1>1, MeetLoad
<1>2. CASE StartExport
  BY <1>2, MeetStart
<1>3. CASE \E r \in Ranks(job) : StageCollective(r) \/ GatherShards(r) \/ GatherExperts(r)
  BY <1>3, MeetStage, MeetGather
<1>4. CASE \E r \in Ranks(job) : Consume(r)
  BY <1>4, MeetConsume
<1>5. CASE (\E r \in Ranks(job) : EndAlone(r) \/ WriteAssigned(r)) \/ AgreeOnStatus \/ Leave
  BY <1>5, MeetEnd
<1>6. CASE UNCHANGED vars
  <2>1. job' = job /\ stage' = stage /\ position' = position /\ todo' = todo
    BY <1>6 DEF vars
  <2>2. Exporting' <=> Exporting
    BY <2>1 DEF Exporting
  <2>3. CASE Exporting
    BY <2>1, <2>2, <2>3, PlacesKept DEF MeetInv
  <2>4. CASE ~Exporting
    BY <2>1, <2>2, <2>4 DEF MeetInv
  <2> QED BY <2>3, <2>4
<1> QED BY <1>1, <1>2, <1>3, <1>4, <1>5, <1>6 DEF Next

\* The ranks that wait in a collective of a group work on the same weight, at the same
\* place of their lists and in the same collective, for every job, all sizes and every
\* order in which the ranks go on (model_bridge.py, stream_weights_megatron_to_hf and the
\* gathers of param_mapping.py) - if the source lacks no expert of one rank alone.
THEOREM RanksMeet ==
    ASSUME ExpertsAlike
    PROVE  Spec => []PeersMeet
<1>1. ASSUME MeetInv PROVE PeersMeet
  <2> SUFFICES ASSUME NEW r \in Ranks(job), NEW s \in Ranks(job),
                      stage[r] = "export", stage[s] = "export", todo[r] # <<>>, todo[s] # <<>>,
                      s \in GroupOf(job, r, Head(todo[r])), r \in GroupOf(job, s, Head(todo[s]))
               PROVE  LET t == TaskOf(r)
                          u == TaskOf(s)
                      IN  /\ position[r] = position[s]
                          /\ Head(todo[r]) = Head(todo[s]) \/ r = s
                          /\ <<t[1], t[3]>> = <<u[1], u[3]>>
                          /\ IF r[2] = s[2] THEN t = u
                             ELSE t[2] - u[2] = (r[2] - s[2]) * ExpertsPerRank(job)
    BY DEF PeersMeet
  <2>1. job \in Jobs /\ Places
    <3>1. stage[r] \notin Loading
      BY DEF Loading
    <3> QED BY <1>1, <3>1 DEF MeetInv
  <2>2. position[r] = position[s] /\ Head(todo[r]) = Head(todo[s])
    BY <2>1, Meeting
  <2> DEFINE i == position[r]
             a == FirstTasks(job)[i]
             t == TaskOf(r)
             u == TaskOf(s)
             E == ExpertsPerRank(job)
  <2>3. i \in 1 .. Len(FirstTasks(job))
    <3>1. Len(FirstTasks(job)) \in Nat
      BY <2>1, TasksInOrder
    <3> QED BY <2>1, <3>1 DEF Places, InPlace, TaskCount
  <2>4. /\ a \in NamesOf(job, 0)
        /\ t = Shift(job, a, r[2]) /\ u = Shift(job, a, s[2])
    BY <2>1, <2>2, <2>3, TasksInOrder DEF TaskOf
  <2>5. r[2] \in Int /\ s[2] \in Int /\ E \in Nat /\ a[2] \in Int
    <3>1. r[2] \in Int /\ s[2] \in Int
      BY DEF Ranks
    <3>2. 0 \in 0 .. job.ep - 1 /\ E \in Nat /\ job.experts \in Nat /\ Layers \in Nat
      BY <2>1, JobSizes
    <3>3. a \in NameBox(job)
      BY <2>1, <2>4, <3>2, ShiftNames
    <3> QED BY <3>1, <3>2, <3>3 DEF NameBox
  <2>6. t[1] = u[1] /\ t[3] = u[3] /\ t[3] = a[3]
    BY <2>4 DEF Shift
  <2>7. r[2] = s[2] => t = u
    BY <2>4
  <2>8. ASSUME r[2] # s[2]
        PROVE  t[2] - u[2] = (r[2] - s[2]) * E
    <3>1. Head(todo[r]) = "ep"
      BY <2>8 DEF GroupOf
    <3>2. Proper(todo[r])
      BY <2>1 DEF Places, InPlace
    <3>3. "ep" \in Range(todo[r])
      BY <3>1, <3>2, HeadInTurn DEF Proper
    <3>4. a[3] = "experts"
      BY <2>1, <2>6, <3>3 DEF Places, InPlace
    <3>5. t[2] = a[2] + r[2] * E /\ u[2] = a[2] + s[2] * E
      BY <2>4, <3>4 DEF Shift
    <3> HIDE DEF t, u, E, a
    <3>6. (r[2] - s[2]) * E = r[2] * E - s[2] * E /\ r[2] * E \in Int /\ s[2] * E \in Int
      BY <2>5
    <3> QED BY <2>5, <3>5, <3>6
  <2> QED BY <2>2, <2>6, <2>7, <2>8
<1>2. ExpertsAlike /\ MeetInv /\ [Next]_vars => MeetInv'
  BY MeetStep
<1> QED BY <1>1, <1>2, MeetInit, PTL DEF Spec

-----------------------------------------------------------------------------
(* What a shard holds.                                                      *)

LEMMA SourceIs ==
    ASSUME NEW j \in Jobs, NEW n
    PROVE  /\ Rows(j, n) \in Nat \ {0}
           /\ Source(j, n) \in Seq({n} \X Nat) /\ Len(Source(j, n)) = Rows(j, n)
           /\ \A i \in 1 .. Rows(j, n) : Source(j, n)[i] = <<n, i>>
<1>1. Rows(j, n) \in Nat \ {0}
  <2>1. {Heads, Groups, Inner, Hidden, Vocab} \subseteq Nat \ {0}
    BY ExportConstants
  <2>2. 2 * Heads \in Nat \ {0}
    BY <2>1
  <2> QED BY <2>1, <2>2 DEF Rows
<1> DEFINE m == Rows(j, n)
<1>2. Source(j, n) = [i \in 1 .. m |-> <<n, i>>]
  BY DEF Source
<1> HIDE DEF m
<1>3. \A i \in 1 .. m : <<n, i>> \in {n} \X Nat
  OBVIOUS
<1>4. m \in Nat
  BY <1>1 DEF m
<1> QED BY <1>1, <1>2, <1>3, <1>4 DEF m

LEMMA Divided ==
    ASSUME NEW j \in Jobs
    PROVE  /\ Groups \in Nat \ {0} /\ Groups \div j.tp \in Nat \ {0}
           /\ Groups = j.tp * (Groups \div j.tp)
           /\ Inner \div j.tp \in Nat \ {0} /\ Inner = j.tp * (Inner \div j.tp)
           /\ Hidden \div j.tp \in Nat \ {0} /\ Hidden = j.tp * (Hidden \div j.tp)
           /\ Heads \div Groups \in Nat \ {0} /\ Heads = (Heads \div Groups) * Groups
           /\ j.gated \in BOOLEAN
<1>1. /\ Groups \in Nat \ {0} /\ Inner \in Nat \ {0} /\ Hidden \in Nat \ {0} /\ Heads \in Nat \ {0}
      /\ j.tp \in Nat \ {0} /\ j.gated \in BOOLEAN
      /\ Groups % j.tp = 0 /\ Inner % j.tp = 0 /\ Hidden % j.tp = 0 /\ Heads % Groups = 0
  BY ExportConstants
<1>2. ASSUME NEW n \in Nat \ {0}, NEW d \in Nat \ {0}, n % d = 0
      PROVE  n \div d \in Nat \ {0} /\ n = d * (n \div d) /\ n = (n \div d) * d
  <2> DEFINE q == n \div d
  <2>1. q \in Nat /\ n = d * q + (n % d)
    OBVIOUS
  <2> HIDE DEF q
  <2>2. d * q \in Nat /\ q * d = d * q
    BY <2>1
  <2>3. n = d * q
    BY <2>1, <2>2, <1>2
  <2>4. q # 0
    BY <2>1, <2>3
  <2> QED BY <2>1, <2>2, <2>3, <2>4 DEF q
<1> QED BY <1>1, <1>2

\* The i-th row of the gate on a rank pairs with the i-th of the up projection.
PairsRows(s) ==
    LET m == Len(s) \div 2
    IN  \A i \in 1 .. m : /\ s[i][1][1] = "gate" /\ s[m + i][1][1] = "up"
                          /\ RowOf(s, i) = RowOf(s, m + i)

LEMMA GatedRows ==
    ASSUME NEW j \in Jobs, NEW k \in 0 .. j.tp - 1, NEW t, t[3] \in {"fc1", "experts"}
    PROVE  PairsRows(Shard(j, t, k))
<1> DEFINE a == <<"gate", t[1], t[2]>>
           b == <<"up", t[1], t[2]>>
           n == j.tp
           m == Inner \div j.tp
           s == Shard(j, t, k)
           x == Source(j, a)
           y == Source(j, b)
           S == ({a} \X Nat) \cup ({b} \X Nat)
<1>1. n \in Nat \ {0} /\ m \in Nat \ {0} /\ Inner = n * m /\ k \in 0 .. n - 1
  BY JobSizes, Divided
<1>2. a[1] = "gate" /\ b[1] = "up" /\ Rows(j, a) = Inner /\ Rows(j, b) = Inner
  BY DEF Rows
<1>3. s = GatedShard(x, y, n, k)
  BY DEF Shard
<1>4. x \in Seq(S) /\ y \in Seq(S)
  <2>1. x \in Seq({a} \X Nat) /\ y \in Seq({b} \X Nat)
    BY SourceIs
  <2>2. {a} \X Nat \subseteq S /\ {b} \X Nat \subseteq S
    OBVIOUS
  <2> HIDE DEF x, y, S
  <2> QED BY <2>1, <2>2
<1>5. Len(x) = n * m /\ Len(y) = n * m
      /\ \A i \in 1 .. n * m : x[i] = <<a, i>> /\ y[i] = <<b, i>>
  BY <1>1, <1>2, SourceIs
<1> HIDE DEF a, b, m, n, x, y, S, s
<1>6. Len(s) = 2 * m /\ \A i \in 1 .. m : s[i] = x[k * m + i] /\ s[m + i] = y[k * m + i]
                                            /\ k * m + i \in 1 .. n * m
  <2>1. Len(x) = n * m /\ Len(y) = n * m
    BY <1>5
  <2>3. \A f, g \in Seq(S) : Len(f) = n * m /\ Len(g) = n * m =>
            /\ GatedShard(f, g, n, k) \in Seq(S) /\ Len(GatedShard(f, g, n, k)) = 2 * m
            /\ \A i \in 1 .. m : /\ GatedShard(f, g, n, k)[i] = f[k * m + i]
                                /\ GatedShard(f, g, n, k)[m + i] = g[k * m + i]
                                /\ k * m + i \in 1 .. n * m
    BY <1>1, TwoParts
  <2>2. /\ Len(GatedShard(x, y, n, k)) = 2 * m
        /\ \A i \in 1 .. m : /\ GatedShard(x, y, n, k)[i] = x[k * m + i]
                            /\ GatedShard(x, y, n, k)[m + i] = y[k * m + i]
                            /\ k * m + i \in 1 .. n * m
    BY <1>4, <2>1, <2>3
  <2> QED BY <2>2, <1>3
<1>7. Len(s) \div 2 = m
  BY <1>1, <1>6
<1>8. \A i \in 1 .. m : s[i] = <<a, k * m + i>> /\ s[m + i] = <<b, k * m + i>>
  BY <1>5, <1>6
<1>9. \A i \in 1 .. m : s[i][1][1] = "gate" /\ s[m + i][1][1] = "up" /\ s[i][2] = s[m + i][2]
  BY <1>2, <1>8
<1> QED BY <1>7, <1>9 DEF s, PairsRows, RowOf

\* An attention shard is a number of whole groups.
LEMMA ShardOfGroups ==
    ASSUME NEW j \in Jobs, NEW k \in 0 .. j.tp - 1, NEW t, t[3] = "qkv"
    PROVE  LET s == Shard(j, t, k)
               w == GroupWidth(Heads, Groups, j.gated)
               c == HeadsPerGroup(Heads, Groups)
           IN  /\ Len(s) * j.tp = Groups * w
               /\ \A b \in 0 .. (Groups \div j.tp) - 1 : \A o \in 1 .. w :
                     s[b * w + o] = PlaceOfGroup(c, w, j.gated,
                                                 Source(j, <<"q", t[1], t[2]>>),
                                                 Source(j, <<"k", t[1], t[2]>>),
                                                 Source(j, <<"v", t[1], t[2]>>),
                                                 k * (Groups \div j.tp) + b, o - 1)
<1> DEFINE n == j.tp
           m == Groups \div j.tp
           c == Heads \div Groups
           w == GroupWidth(Heads, Groups, j.gated)
           q == Source(j, <<"q", t[1], t[2]>>)
           x == Source(j, <<"k", t[1], t[2]>>)
           v == Source(j, <<"v", t[1], t[2]>>)
           M == MergeQKV(Heads, Groups, j.gated, q, x, v)
           s == Shard(j, t, k)
           at(b, p) == PlaceOfGroup(c, w, j.gated, q, x, v, b, p)
<1>1. /\ n \in Nat \ {0} /\ m \in Nat \ {0} /\ Groups = n * m /\ k \in 0 .. n - 1
      /\ c \in Nat \ {0} /\ Heads = c * Groups /\ Groups \in Nat \ {0} /\ j.gated \in BOOLEAN
  BY JobSizes, Divided
<1>2. w \in Nat \ {0} /\ c = HeadsPerGroup(Heads, Groups)
  <2> HIDE DEF c
  <2> QED BY <1>1, WidthOfGroup, Grouping
<1>3. s = Part(M, n, k)
  BY DEF Shard
<1>4. \A b \in 0 .. Groups - 1 : \A p \in 0 .. w - 1 : M[w * b + p + 1] = at(b, p)
  <2>1. w = GroupWidth(Heads, Groups, j.gated)
    OBVIOUS
  <2>2. c \in Nat \ {0} /\ Groups \in Nat \ {0} /\ j.gated \in BOOLEAN /\ Heads = c * Groups
        /\ w \in Nat \ {0}
    BY <1>1, <1>2
  <2> HIDE DEF q, x, v, c, w
  <2>3. LaidOut(c, Groups, w, j.gated, q, x, v, MergeQKV(Heads, Groups, j.gated, q, x, v))
    BY <2>1, <2>2, MergeLaysOut
  <2> QED BY <2>3 DEF LaidOut
<1>5. DOMAIN M = 1 .. Groups * w
  BY DEF MergeQKV
<1>6. Len(M) = n * (m * w) /\ m * w \in Nat \ {0}
  <2> HIDE DEF M, n, m, w, c
  <2>1. Groups * w \in Nat /\ Groups * w = n * (m * w) /\ m * w \in Nat \ {0}
    BY <1>1, <1>2
  <2>2. Len(M) = Groups * w
    <3>1. M = [i \in 1 .. Groups * w |-> M[i]]
      BY DEF M, MergeQKV, w
    <3> QED BY <2>1, <3>1
  <2> QED BY <2>1, <2>2
<1> HIDE DEF n, m, w, c, q, x, v, M, s, at
<1>7. Len(M) \div n = m * w
  BY <1>1, <1>6, ExactQuotient
<1>8. s = [i \in 1 .. m * w |-> M[k * (m * w) + i]]
  BY <1>3, <1>7 DEF Part
<1>9. Len(s) * n = Groups * w
  <2>1. Len(s) = m * w
    BY <1>6, <1>8
  <2> QED BY <2>1, <1>1, <1>2
<1>10. ASSUME NEW b \in 0 .. m - 1, NEW o \in 1 .. w
       PROVE  s[b * w + o] = at(k * m + b, o - 1)
  <2> DEFINE B == k * m + b
             i == w * B + (o - 1) + 1
  <2>1. b * w \in Nat /\ (m - 1 - b) * w \in Nat /\ b * w + (m - 1 - b) * w + w = m * w
    BY <1>1, <1>2
  <2>2. b * w + o \in 1 .. m * w
    BY <2>1, <1>2
  <2>3. k * m \in Nat /\ (n - 1 - k) * m \in Nat /\ k * m + (n - 1 - k) * m + m = n * m
    BY <1>1
  <2>4. B \in 0 .. Groups - 1
    BY <2>3, <1>1
  <2>5. w * (k * m + b) = k * (m * w) + b * w /\ w * (k * m + b) \in Int /\ k * (m * w) \in Int
    BY <1>1, <1>2
  <2>6. k * (m * w) + (b * w + o) = i /\ i \in Int /\ o - 1 \in 0 .. w - 1
    BY <2>5, <2>1, <1>2
  <2> HIDE DEF B
  <2>7. M[i] = at(B, o - 1)
    BY <2>4, <2>6, <1>4
  <2>8. s[b * w + o] = M[k * (m * w) + (b * w + o)]
    BY <2>2, <1>8
  <2> QED BY <2>6, <2>7, <2>8 DEF B
<1> QED BY <1>2, <1>9, <1>10 DEF n, m, w, c, q, x, v, s, at

LEMMA GroupsAreWhole ==
    ASSUME job \in Jobs, NEW k \in 0 .. job.tp - 1, NEW t, t[3] = "qkv",
           NEW b \in 0 .. (Groups \div job.tp) - 1
    PROVE  IsGroup(Shard(job, t, k), b)
<1> DEFINE gated == job.gated
           m == Groups \div job.tp
           c == HeadsPerGroup(Heads, Groups)
           w == GroupWidth(Heads, Groups, job.gated)
           nq == <<"q", t[1], t[2]>>
           nk == <<"k", t[1], t[2]>>
           nv == <<"v", t[1], t[2]>>
           q == Source(job, nq)
           x == Source(job, nk)
           v == Source(job, nv)
           s == Shard(job, t, k)
           B == k * m + b
           at == [o \in 1 .. w |-> s[b * w + o]]
<1>1. /\ m \in Nat \ {0} /\ Groups = job.tp * m /\ Groups \in Nat \ {0} /\ job.tp \in Nat \ {0}
      /\ c \in Nat \ {0} /\ Heads = c * Groups /\ gated \in BOOLEAN
  BY JobSizes, Divided DEF HeadsPerGroup
<1>2. w = IF gated THEN 2 * c + 2 ELSE c + 2
  BY DEF GroupWidth
<1>at. \A o \in 1 .. w : at[o] = s[b * w + o]
  OBVIOUS
<1>3. \A o \in 1 .. w : at[o] = PlaceOfGroup(c, w, gated, q, x, v, B, o - 1)
  BY ShardOfGroups
<1>4. /\ \A i \in 1 .. (IF gated THEN 2 * Heads ELSE Heads) : q[i] = <<nq, i>>
      /\ \A i \in 1 .. Groups : x[i] = <<nk, i>> /\ v[i] = <<nv, i>>
  <2>1. Rows(job, nq) = (IF gated THEN 2 * Heads ELSE Heads) /\ Rows(job, nk) = Groups /\ Rows(job, nv) = Groups
    BY DEF Rows
  <2> QED BY <2>1, SourceIs
<1>n. nq[1] = "q" /\ nk[1] = "k" /\ nv[1] = "v"
  OBVIOUS
<1> HIDE DEF m, c, w, nq, nk, nv, q, x, v, s, at, gated
<1>5. B \in 0 .. Groups - 1
  <2> DEFINE n == job.tp
  <2>1. n \in Nat \ {0} /\ k \in 0 .. n - 1 /\ Groups = n * m /\ b \in 0 .. m - 1
    BY <1>1 DEF m
  <2> HIDE DEF n
  <2>2. k * m \in Nat /\ (n - 1 - k) * m \in Nat /\ k * m + (n - 1 - k) * m + m = n * m
    BY <1>1, <2>1
  <2> QED BY <1>1, <2>1, <2>2
<1> HIDE DEF B
<1>6. \A p \in 0 .. c - 1 : B * c + p \in 0 .. Heads - 1
  <2>1. B * c \in Nat /\ (Groups - 1 - B) * c \in Nat
    BY <1>1, <1>5
  <2>2. B * c + (Groups - 1 - B) * c + c = c * Groups
    BY <1>1, <1>5
  <2> QED BY <1>1, <2>1, <2>2
<1>7. w \in Nat /\ w >= c + 2 /\ (gated => w = 2 * c + 2) /\ (~gated => w = c + 2)
  BY <1>1, <1>2
<1>8. at[w] = <<nv, B + 1>> /\ at[w - 1] = <<nk, B + 1>>
  <2>1. w \in 1 .. w /\ w - 1 \in 1 .. w /\ ~(w - 1 < c) /\ ~(w - 1 < w - 2) /\ w - 1 # w - 2
        /\ ~((w - 1) - 1 < c) /\ ~((w - 1) - 1 < w - 2) /\ (w - 1) - 1 = w - 2
    BY <1>1, <1>7
  <2>2. at[w] = v[B + 1] /\ at[w - 1] = x[B + 1]
    BY <2>1, <1>3 DEF PlaceOfGroup
  <2>3. B + 1 \in 1 .. Groups
    BY <1>1, <1>5
  <2> QED BY <2>2, <2>3, <1>4
<1>9. ASSUME NEW o \in 1 .. c
      PROVE  at[o] = <<nq, QueryRow(gated, B * c + o - 1)>>
  <2>1. o \in 1 .. w /\ o - 1 < c /\ o - 1 \in 0 .. c - 1
    BY <1>1, <1>7
  <2>2. at[o] = q[QueryRow(gated, B * c + (o - 1))]
    BY <2>1, <1>3 DEF PlaceOfGroup
  <2>3. B * c + (o - 1) \in 0 .. Heads - 1 /\ B * c + (o - 1) = B * c + o - 1
    BY <1>1, <1>5, <1>6, <2>1
  <2>4. QueryRow(gated, B * c + (o - 1)) \in 1 .. (IF gated THEN 2 * Heads ELSE Heads)
    <3> DEFINE h == B * c + (o - 1)
    <3>1. h \in 0 .. Heads - 1 /\ Heads \in Int
      BY <1>1, <2>3
    <3> HIDE DEF h
    <3>2. QueryRow(gated, h) \in 1 .. (IF gated THEN 2 * Heads ELSE Heads)
      BY <1>1, <3>1 DEF QueryRow
    <3> QED BY <3>2 DEF h
  <2> QED BY <2>2, <2>3, <2>4, <1>4
<1>10. ASSUME gated, NEW o \in 1 .. c
       PROVE  at[c + o] = <<nq, QueryRow(gated, B * c + o - 1) + 1>>
  <2>1. c + o \in 1 .. w /\ ~(c + o - 1 < c) /\ c + o - 1 < w - 2 /\ o - 1 \in 0 .. c - 1
    BY <1>1, <1>7, <1>10
  <2>2. at[c + o] = q[QueryRow(gated, B * c + (c + o - 1) - c) + 1]
    <3> DEFINE O == c + o
    <3>0. c \in Int /\ w \in Int /\ o \in Int /\ B * c \in Int
      BY <1>1, <1>7, <1>5
    <3>1. O \in 1 .. w /\ ~(O - 1 < c) /\ O - 1 < w - 2 /\ O - 1 = c + o - 1
      BY <2>1, <3>0
    <3> HIDE DEF O
    <3>2. at[O] = q[QueryRow(gated, B * c + (O - 1) - c) + 1]
      BY <3>1, <1>3 DEF PlaceOfGroup
    <3>3. at[O] = q[QueryRow(gated, B * c + (c + o - 1) - c) + 1]
      BY <3>1, <3>2
    <3> QED BY <3>3 DEF O
  <2>3. B * c + (o - 1) \in 0 .. Heads - 1 /\ B * c + (o - 1) = B * c + o - 1
        /\ B * c + (c + o - 1) - c = B * c + o - 1
    BY <1>1, <1>5, <1>6, <2>1
  <2>4. QueryRow(gated, B * c + o - 1) + 1 \in 1 .. 2 * Heads
    <3> DEFINE h == B * c + o - 1
    <3>1. h \in 0 .. Heads - 1 /\ Heads \in Int
      BY <1>1, <2>3
    <3> HIDE DEF h
    <3>2. QueryRow(gated, h) + 1 \in 1 .. 2 * Heads
      BY <1>1, <1>10, <3>1 DEF QueryRow
    <3> QED BY <3>2 DEF h
  <2> QED BY <2>2, <2>3, <2>4, <1>4, <1>10
<1>11. ASSUME NEW o \in 1 .. w - 2
       PROVE  at[o][1][1] = "q"
  <2>1. CASE o <= c
    <3>1. o \in 1 .. c
      BY <1>1, <1>7, <2>1
    <3> QED BY <3>1, <1>9, <1>n
  <2>2. CASE o > c
    <3>0. o <= w - 2 /\ o \in Nat /\ c \in Nat /\ w \in Nat
      BY <1>1, <1>7
    <3>1. gated
      BY <3>0, <1>1, <1>7, <2>2
    <3>2. o - c \in 1 .. c /\ c + (o - c) = o
      BY <3>0, <3>1, <1>7, <2>2
    <3>3. at[c + (o - c)] = <<nq, QueryRow(gated, B * c + (o - c) - 1) + 1>>
      BY <3>1, <3>2, <1>10
    <3>4. at[o][1] = nq
      BY <3>2, <3>3
    <3> QED BY <3>4, <1>n
  <2> QED BY <1>1, <1>7, <2>1, <2>2
<1>12. \A o \in 1 .. c : at[o][2] = QueryRow(gated, (B + 1 - 1) * c + o - 1)
  <2>1. B + 1 - 1 = B
    BY <1>5, <1>1
  <2> QED BY <2>1, <1>9
<1>13. ASSUME gated, NEW o \in 1 .. c PROVE at[c + o][2] = at[o][2] + 1
  <2> DEFINE row == QueryRow(gated, B * c + o - 1)
  <2>1. at[o] = <<nq, row>> /\ at[c + o] = <<nq, row + 1>>
    BY <1>9, <1>10, <1>13
  <2> HIDE DEF row
  <2> QED BY <2>1
<1>14. IsGroup(s, b)
  <2>1. /\ at[w][1][1] = "v" /\ at[w - 1][1][1] = "k" /\ at[w][2] = B + 1 /\ at[w - 1][2] = at[w][2]
    <3>1. at[w][1] = nv /\ at[w][2] = B + 1 /\ at[w - 1][1] = nk /\ at[w - 1][2] = B + 1
      BY <1>8
    <3> QED BY <3>1, <1>n
  <2>2. \A o \in 1 .. c : at[o][2] = QueryRow(gated, (at[w][2] - 1) * c + o - 1)
    <3>1. at[w][2] - 1 = B + 1 - 1
      BY <2>1, <1>1, <1>5
    <3> DEFINE e == at[w][2] - 1
               f == B + 1 - 1
    <3>2. \A o \in 1 .. c : at[o][2] = QueryRow(gated, f * c + o - 1)
      BY <1>12
    <3>3. e = f
      BY <3>1
    <3> HIDE DEF e, f
    <3>4. \A o \in 1 .. c : at[o][2] = QueryRow(gated, e * c + o - 1)
      BY <3>2, <3>3
    <3> QED BY <3>4 DEF e
  <2>3. w \in 1 .. w /\ w - 1 \in 1 .. w /\ (\A o \in 1 .. w - 2 : o \in 1 .. w)
        /\ (\A o \in 1 .. c : o \in 1 .. w /\ (gated => c + o \in 1 .. w))
    BY <1>1, <1>7
  <2> DEFINE sat(o) == s[b * w + o]
  <2>4. sat(w)[1][1] = "v" /\ sat(w - 1)[1][1] = "k" /\ sat(w - 1)[2] = sat(w)[2]
    BY <2>1, <2>3, <1>at
  <2>5. \A o \in 1 .. w - 2 : sat(o)[1][1] = "q"
    BY <2>3, <1>at, <1>11
  <2>6. \A o \in 1 .. c : sat(o)[2] = QueryRow(gated, (sat(w)[2] - 1) * c + o - 1)
    <3>1. sat(w) = at[w] /\ \A o \in 1 .. c : sat(o) = at[o]
      BY <2>3, <1>at
    <3> HIDE DEF sat
    <3> QED BY <2>2, <3>1
  <2>7. gated => \A o \in 1 .. c : sat(c + o)[2] = sat(o)[2] + 1
    <3>1. \A o \in 1 .. c : sat(o) = at[o] /\ (gated => sat(c + o) = at[c + o])
      BY <2>3, <1>at
    <3> HIDE DEF sat
    <3> QED BY <3>1, <1>13
  <2> QED BY <2>4, <2>5, <2>6, <2>7 DEF IsGroup, c, w, gated
<1> QED BY <1>14 DEF s

-----------------------------------------------------------------------------
(* Parameters while they are loaded and after.                              *)

\* Tied output layers are not loaded but shared.
Shared(t) == job.tied /\ t = Output

OwnShard(r, t) == Shard(job, t, r[3])

LoadInv ==
    /\ Shape
    /\ position = [r \in Ranks(job) |-> position[r]]
    /\ \A r \in Ranks(job) : stage[r] = "share" => job.tied
    /\ \A r \in Ranks(job) : stage[r] = "load" => position[r] \in Nat \ {0}
    /\ \A r, s \in Ranks(job) : /\ s \in GroupOf(job, r, "tp")
                                /\ stage[r] = "load" /\ stage[s] = "load"
                                => position[r] = position[s]
    /\ \A r \in Ranks(job) : \A t \in Params(job, r[1], r[2]) :
           ~Shared(t) => param[r][t] \in {NoTensor, OwnShard(r, t)}
    /\ \A r \in Ranks(job) : \A i \in 1 .. Len(LoadTasks(job, r)) :
           stage[r] # "load" \/ i < position[r] =>
               param[r][LoadTasks(job, r)[i]] = OwnShard(r, LoadTasks(job, r)[i])

\* What a rank loads are parameters of its own.
LEMMA LoadTasksAre ==
    ASSUME NEW j \in Jobs, NEW r \in Ranks(j)
    PROVE  /\ Len(LoadTasks(j, r)) \in Nat
           /\ \A i \in 1 .. Len(LoadTasks(j, r)) :
                  /\ LoadTasks(j, r)[i] \in NamesOf(j, r[2]) /\ Owns(j, r, LoadTasks(j, r)[i])
                  /\ LoadTasks(j, r)[i] \in Params(j, r[1], r[2])
                  /\ ~(j.tied /\ LoadTasks(j, r)[i] = Output)
           /\ \A t \in NamesOf(j, r[2]) : Owns(j, r, t) =>
                  \E i \in 1 .. Len(LoadTasks(j, r)) : LoadTasks(j, r)[i] = t
<1> DEFINE S == {t \in NamesOf(j, r[2]) : Owns(j, r, t)}
           s == Ordered(S, Before)
<1>1. r[2] \in 0 .. j.ep - 1 /\ j.experts \in Nat
  BY JobSizes DEF Ranks
<1>2. S \subseteq NameBox(j)
  BY <1>1, ShiftNames
<1>3. LoadTasks(j, r) = s
  BY DEF LoadTasks
<1>4. \A t : t \in S <=> t \in NamesOf(j, r[2]) /\ Owns(j, r, t)
  OBVIOUS
<1> HIDE DEF S
<1>5. /\ Len(s) = Cardinality(S) /\ s \in Seq(S)
      /\ \A i \in 1 .. Cardinality(S) : s[i] \in S
      /\ \A t \in S : \E i \in 1 .. Len(s) : s[i] = t
  BY <1>1, <1>2, OrderedAt
<1> HIDE DEF s
<1>6. Len(s) \in Nat /\ \A i \in 1 .. Len(s) : s[i] \in S
  BY <1>5
<1>7. \A t : t \in S => t \in Params(j, r[1], r[2]) /\ ~(j.tied /\ t = Output)
  BY <1>4, NamesAre DEF Owns
<1> QED BY <1>3, <1>4, <1>5, <1>6, <1>7

LEMMA LoadInit == Init => LoadInv
<1> SUFFICES ASSUME Init PROVE LoadInv
  OBVIOUS
<1>1. Shape /\ position = [r \in Ranks(job) |-> position[r]]
  BY DEF Init, Shape, InitialParam
<1>2. \A r \in Ranks(job) : stage[r] = "load" /\ position[r] = 1
  BY DEF Init
<1>3. \A r \in Ranks(job) : \A t \in Params(job, r[1], r[2]) : param[r][t] = NoTensor
  BY DEF Init, InitialParam
<1>4. \A r \in Ranks(job) : \A i \in 1 .. Len(LoadTasks(job, r)) : ~(i < position[r])
  BY <1>1, <1>2, LoadTasksAre DEF Shape
<1> QED BY <1>1, <1>2, <1>3, <1>4 DEF LoadInv

\* A step that neither loads nor shares.
LEMMA Resting ==
    ASSUME LoadInv, job' = job, param' = param,
           stage' = [r \in Ranks(job) |-> stage'[r]],
           position' = [r \in Ranks(job) |-> position'[r]],
           \A r \in Ranks(job) :
               /\ stage'[r] = "load" => stage[r] = "load" /\ position'[r] = position[r]
               /\ stage'[r] # "load" => stage[r] # "load" \/ position[r] > Len(LoadTasks(job, r))
               /\ stage'[r] = "share" => job.tied
    PROVE  LoadInv'
<1>1. Shape'
  BY DEF LoadInv, Shape
<1>2. ASSUME NEW r \in Ranks(job), NEW i \in 1 .. Len(LoadTasks(job, r)),
             stage'[r] # "load" \/ i < position'[r]
      PROVE  param[r][LoadTasks(job, r)[i]] = OwnShard(r, LoadTasks(job, r)[i])
  <2>1. Len(LoadTasks(job, r)) \in Nat
    BY LoadTasksAre DEF LoadInv, Shape
  <2>2. stage[r] # "load" \/ (position[r] \in Nat /\ i < position[r])
    BY <1>2, <2>1 DEF LoadInv
  <2> QED BY <2>2 DEF LoadInv
<1>3. \A t : Shared(t)' <=> Shared(t)
  BY DEF Shared
<1>4. \A r, t : OwnShard(r, t)' = OwnShard(r, t)
  BY DEF OwnShard
<1>5. \A r \in Ranks(job) : stage'[r] = "load" => position'[r] \in Nat \ {0}
  BY DEF LoadInv
<1>6. \A r, s \in Ranks(job) : /\ s \in GroupOf(job, r, "tp")
                               /\ stage'[r] = "load" /\ stage'[s] = "load"
                               => position'[r] = position'[s]
  BY DEF LoadInv
<1>7. \A r \in Ranks(job) : \A t \in Params(job, r[1], r[2]) :
           ~Shared(t) => param[r][t] \in {NoTensor, OwnShard(r, t)}
  BY DEF LoadInv
<1> QED BY <1>1, <1>2, <1>3, <1>4, <1>5, <1>6, <1>7 DEF LoadInv

LEMMA LoadsShards ==
    ASSUME LoadInv, NEW lead \in Ranks(job), Load(lead)
    PROVE  LoadInv'
<1> DEFINE g == GroupOf(job, lead, "tp")
           p == position[lead]
           task == LoadTasks(job, lead)[p]
<1>1. /\ job' = job /\ stage' = stage
      /\ \A r \in g : stage[r] = "load" /\ position[r] <= Len(LoadTasks(job, r))
      /\ param' = [r \in Ranks(job) |->
                      IF r \in g THEN [param[r] EXCEPT ![LoadTasks(job, r)[position[r]]] =
                                          Shard(job, task, r[3])]
                      ELSE param[r]]
      /\ position' = [r \in Ranks(job) |-> IF r \in g THEN position[r] + 1 ELSE position[r]]
  BY DEF Load
<1>2. job \in Jobs /\ lead \in g /\ g \subseteq Ranks(job)
      /\ \A r \in Ranks(job) : param[r] = [t \in Params(job, r[1], r[2]) |-> param[r][t]]
  BY GroupsPart DEF LoadInv, Shape
<1>3. \A r \in g : LoadTasks(job, r) = LoadTasks(job, lead)
  <2> TAKE r \in g
  <2>1. r[1] = lead[1] /\ r[2] = lead[2]
    BY DEF GroupOf
  <2>2. \A t : Owns(job, r, t) <=> Owns(job, lead, t)
    BY <2>1 DEF Owns
  <2>3. {t \in NamesOf(job, r[2]) : Owns(job, r, t)} = {t \in NamesOf(job, lead[2]) : Owns(job, lead, t)}
    BY <2>1, <2>2
  <2> QED BY <2>3 DEF LoadTasks
<1>4. \A r \in g : position[r] = p
  BY <1>1, <1>2 DEF LoadInv
<1>5. p \in 1 .. Len(LoadTasks(job, lead))
  <2>1. p \in Nat \ {0} /\ p <= Len(LoadTasks(job, lead))
    BY <1>1, <1>2 DEF LoadInv
  <2>2. Len(LoadTasks(job, lead)) \in Nat
    BY <1>2, LoadTasksAre
  <2> QED BY <2>1, <2>2
<1>6. task \in Params(job, lead[1], lead[2]) /\ ~Shared(task)
  BY <1>2, <1>5, LoadTasksAre DEF Shared
<1>7. \A r \in g : r[1] = lead[1] /\ r[2] = lead[2]
  BY DEF GroupOf
<1>8. \A r \in Ranks(job) :
          /\ r \in g => param'[r] = [param[r] EXCEPT ![task] = OwnShard(r, task)]
          /\ r \notin g => param'[r] = param[r]
  BY <1>1, <1>2, <1>3, <1>4 DEF OwnShard
<1> HIDE DEF g, task
<1>9. ASSUME NEW r \in Ranks(job)
      PROVE  /\ param'[r] = [t \in Params(job, r[1], r[2]) |-> param'[r][t]]
             /\ \A t \in Params(job, r[1], r[2]) :
                   \/ param'[r][t] = param[r][t]
                   \/ r \in g /\ t = task /\ param'[r][t] = OwnShard(r, t)
             /\ r \in g => param'[r][task] = OwnShard(r, task)
  <2>1. CASE r \in g
    BY <2>1, <1>2, <1>6, <1>7, <1>8
  <2>2. CASE r \notin g
    BY <2>2, <1>2, <1>8
  <2> QED BY <2>1, <2>2
<1>10. Shape'
  <2>1. stage = [r \in Ranks(job) |-> stage[r]]
    BY DEF LoadInv, Shape
  <2>2. param' = [r \in Ranks(job) |-> param'[r]]
    BY <1>1
  <2> QED BY <1>1, <1>2, <1>9, <2>1, <2>2 DEF Shape
<1>11. \A t : Shared(t)' <=> Shared(t)
  BY <1>1 DEF Shared
<1>12. \A r, t : OwnShard(r, t)' = OwnShard(r, t)
  BY <1>1 DEF OwnShard
<1>13. \A r \in Ranks(job) : \A t \in Params(job, r[1], r[2]) :
           ~Shared(t) => param'[r][t] \in {NoTensor, OwnShard(r, t)}
  BY <1>9 DEF LoadInv
<1>14. \A r \in Ranks(job) : position'[r] = IF r \in g THEN position[r] + 1 ELSE position[r]
  BY <1>1
<1>15. ASSUME NEW r \in Ranks(job), NEW i \in 1 .. Len(LoadTasks(job, r)),
              stage[r] # "load" \/ i < position'[r]
       PROVE  param'[r][LoadTasks(job, r)[i]] = OwnShard(r, LoadTasks(job, r)[i])
  <2> DEFINE t == LoadTasks(job, r)[i]
  <2>1. t \in Params(job, r[1], r[2]) /\ Len(LoadTasks(job, r)) \in Nat
    BY <1>2, LoadTasksAre
  <2>2. CASE r \in g /\ i = p
    <3>1. t = task
      BY <2>2, <1>3 DEF task
    <3> QED BY <2>2, <3>1, <1>9
  <2>3. CASE ~(r \in g /\ i = p)
    <3>1. stage[r] # "load" \/ i < position[r]
      <4>1. CASE r \in g
        <5>1. stage[r] = "load" /\ position[r] = p /\ position'[r] = p + 1
          BY <4>1, <1>1, <1>4, <1>14
        <5>2. i < p + 1 /\ i # p
          BY <5>1, <4>1, <1>15, <2>3
        <5>3. p \in Int
          BY <1>2, <1>5, LoadTasksAre
        <5> HIDE DEF p
        <5> QED BY <5>1, <5>2, <5>3, <2>1
      <4>2. CASE r \notin g
        BY <4>2, <1>14, <1>15
      <4> QED BY <4>1, <4>2
    <3>2. param[r][t] = OwnShard(r, t)
      BY <3>1 DEF LoadInv
    <3> HIDE DEF t
    <3>3. param'[r][t] = OwnShard(r, t)
      BY <2>1, <3>2, <1>9
    <3> QED BY <3>3 DEF t
  <2> QED BY <2>2, <2>3
<1>16. \A r \in Ranks(job) : stage[r] = "load" => position'[r] \in Nat \ {0}
  BY <1>14 DEF LoadInv
<1>17. \A r, s \in Ranks(job) : /\ s \in GroupOf(job, r, "tp")
                                /\ stage[r] = "load" /\ stage[s] = "load"
                                => position'[r] = position'[s]
  <2> TAKE r, s \in Ranks(job)
  <2> HAVE s \in GroupOf(job, r, "tp") /\ stage[r] = "load" /\ stage[s] = "load"
  <2>1. r \in g <=> s \in g
    BY GroupsPart DEF g
  <2>2. position[r] = position[s]
    BY DEF LoadInv
  <2> QED BY <1>14, <2>1, <2>2
<1>18. position' = [r \in Ranks(job) |-> position'[r]]
  BY <1>1
<1>19. \A r \in Ranks(job) : stage[r] = "share" => job.tied
  BY DEF LoadInv
<1>20. \A r : LoadTasks(job, r)' = LoadTasks(job, r)
  BY <1>1
<1> QED BY <1>1, <1>10, <1>11, <1>12, <1>13, <1>15, <1>16, <1>17, <1>18, <1>19 DEF LoadInv

LEMMA LoadFinishes ==
    ASSUME LoadInv, NEW r \in Ranks(job), FinishLoad(r)
    PROVE  LoadInv'
<1>1. /\ job' = job /\ param' = param /\ position' = position
      /\ stage[r] = "load" /\ position[r] > Len(LoadTasks(job, r))
      /\ stage' = [stage EXCEPT ![r] = IF job.tied /\ job.pp > 1 /\ r[1] \in {0, job.pp - 1}
                                       THEN "share" ELSE "loaded"]
  BY DEF FinishLoad
<1>2. stage = [s \in Ranks(job) |-> stage[s]] /\ position = [s \in Ranks(job) |-> position[s]]
  BY DEF LoadInv, Shape
<1>3. \A s \in Ranks(job) : s # r => stage'[s] = stage[s]
  BY <1>1, <1>2
<1>4. stage'[r] \in {"share", "loaded"} /\ (stage'[r] = "share" => job.tied)
  BY <1>1, <1>2
<1>5. stage' = [s \in Ranks(job) |-> stage'[s]]
  BY <1>1, <1>2
<1>6. \A s \in Ranks(job) : stage[s] = "share" => job.tied
  BY DEF LoadInv
<1> QED BY <1>1, <1>2, <1>3, <1>4, <1>5, <1>6, Resting

LEMMA LoadParts ==
    ASSUME job' = job, Shape',
           position' = [r \in Ranks(job) |-> position'[r]],
           \A r \in Ranks(job) : stage'[r] = "share" => job.tied,
           \A r \in Ranks(job) : stage'[r] = "load" => position'[r] \in Nat \ {0},
           \A r, s \in Ranks(job) : /\ s \in GroupOf(job, r, "tp")
                                    /\ stage'[r] = "load" /\ stage'[s] = "load"
                                    => position'[r] = position'[s],
           \A r \in Ranks(job) : \A t \in Params(job, r[1], r[2]) :
               ~Shared(t) => param'[r][t] \in {NoTensor, OwnShard(r, t)},
           \A r \in Ranks(job) : \A i \in 1 .. Len(LoadTasks(job, r)) :
               stage'[r] # "load" \/ i < position'[r] =>
                   param'[r][LoadTasks(job, r)[i]] = OwnShard(r, LoadTasks(job, r)[i])
    PROVE  LoadInv'
<1>1. \A t : Shared(t)' <=> Shared(t)
  BY DEF Shared
<1>2. \A r, t : OwnShard(r, t)' = OwnShard(r, t)
  BY DEF OwnShard
<1> QED BY <1>1, <1>2 DEF LoadInv

LEMMA LoadShares ==
    ASSUME LoadInv, NEW first \in Ranks(job), ShareEmbedding(first)
    PROVE  LoadInv'
<1> DEFINE last == <<job.pp - 1, first[2], first[3]>>
<1>1. /\ job' = job /\ position' = position /\ stage[first] = "share" /\ stage[last] = "share"
      /\ param' = [param EXCEPT ![last] = [param[last] EXCEPT ![Output] = param[first][Embedding]]]
      /\ stage' = [stage EXCEPT ![first] = "loaded", ![last] = "loaded"]
  BY DEF ShareEmbedding
<1>2. /\ job \in Jobs /\ job.tied
      /\ stage = [s \in Ranks(job) |-> stage[s]] /\ param = [s \in Ranks(job) |-> param[s]]
      /\ \A s \in Ranks(job) : param[s] = [t \in Params(job, s[1], s[2]) |-> param[s][t]]
  BY <1>1 DEF LoadInv, Shape
<1>3. last \in Ranks(job)
  BY <1>2, RankParts
<1> HIDE DEF last
<1>4. ASSUME NEW s \in Ranks(job)
      PROVE  /\ param'[s] = [t \in Params(job, s[1], s[2]) |-> param'[s][t]]
             /\ \A t \in Params(job, s[1], s[2]) : t # Output => param'[s][t] = param[s][t]
             /\ stage'[s] = "load" <=> stage[s] = "load"
             /\ stage'[s] = "share" => stage[s] = "share"
  <2>1. param'[s] = IF s = last THEN [param[last] EXCEPT ![Output] = param[first][Embedding]]
                    ELSE param[s]
    BY <1>1, <1>2, <1>3
  <2>2. stage'[s] = IF s \in {first, last} THEN "loaded" ELSE stage[s]
    BY <1>1, <1>2, <1>3
  <2>3. s \in {first, last} => stage[s] = "share"
    BY <1>1
  <2>4. CASE s = last
    BY <2>1, <2>2, <2>3, <2>4, <1>2
  <2>5. CASE s # last
    BY <2>1, <2>2, <2>3, <2>5, <1>2
  <2> QED BY <2>4, <2>5
<1>5. Shape'
  <2>1. stage' = [s \in Ranks(job) |-> stage'[s]] /\ param' = [s \in Ranks(job) |-> param'[s]]
    BY <1>1, <1>2
  <2> QED BY <1>1, <1>2, <1>4, <2>1 DEF Shape
<1>6. \A t : (Shared(t)' <=> Shared(t)) /\ (Shared(t) <=> t = Output)
  BY <1>1, <1>2 DEF Shared
<1>8. \A s \in Ranks(job) : \A t \in Params(job, s[1], s[2]) :
           ~Shared(t) => param'[s][t] \in {NoTensor, OwnShard(s, t)}
  BY <1>4, <1>6 DEF LoadInv
<1>9. ASSUME NEW s \in Ranks(job), NEW i \in 1 .. Len(LoadTasks(job, s)),
             stage'[s] # "load" \/ i < position'[s]
      PROVE  param'[s][LoadTasks(job, s)[i]] = OwnShard(s, LoadTasks(job, s)[i])
  <2>1. LoadTasks(job, s)[i] \in Params(job, s[1], s[2]) /\ LoadTasks(job, s)[i] # Output
    BY <1>2, LoadTasksAre
  <2>2. stage[s] # "load" \/ i < position[s]
    BY <1>1, <1>4, <1>9
  <2>3. param[s][LoadTasks(job, s)[i]] = OwnShard(s, LoadTasks(job, s)[i])
    BY <2>2 DEF LoadInv
  <2> QED BY <2>1, <2>3, <1>4
<1>10. \A s \in Ranks(job) : stage'[s] = "share" => job.tied
  BY <1>2
<1>11. \A r \in Ranks(job) : stage'[r] = "load" => position'[r] \in Nat \ {0}
  BY <1>1, <1>4 DEF LoadInv
<1>12. \A r, s \in Ranks(job) : /\ s \in GroupOf(job, r, "tp")
                                /\ stage'[r] = "load" /\ stage'[s] = "load"
                                => position'[r] = position'[s]
  BY <1>1, <1>4 DEF LoadInv
<1>13. position' = [r \in Ranks(job) |-> position'[r]]
  BY <1>1 DEF LoadInv
<1> QED BY <1>1, <1>5, <1>8, <1>9, <1>10, <1>11, <1>12, <1>13, LoadParts


\* While it exports no rank goes back to loading.
LEMMA LoadExport ==
    ASSUME LoadInv,
           \/ StartExport
           \/ \E r \in Ranks(job) : StageCollective(r) \/ GatherShards(r) \/ GatherExperts(r)
           \/ \E r \in Ranks(job) : Consume(r) \/ EndAlone(r) \/ WriteAssigned(r)
           \/ AgreeOnStatus \/ Leave
    PROVE  LoadInv'
<1> DEFINE Rests == /\ stage' = [s \in Ranks(job) |-> stage'[s]]
                    /\ position' = [s \in Ranks(job) |-> position'[s]]
                    /\ \A s \in Ranks(job) :
                          \/ stage'[s] = stage[s] /\ position'[s] = position[s]
                          \/ stage[s] # "load" /\ stage'[s] \notin {"load", "share"}
<1>1. job' = job /\ param' = param
  BY DEF StartExport, StageCollective, GatherShards, GatherExperts, Consume, EndAlone,
         WriteAssigned, AgreeOnStatus, Leave
<1>2. stage = [s \in Ranks(job) |-> stage[s]] /\ position = [s \in Ranks(job) |-> position[s]]
  BY DEF LoadInv, Shape
<1>3. Rests
  <2>1. CASE StartExport
    BY <2>1, <1>2 DEF StartExport
  <2>2. ASSUME NEW r \in Ranks(job), StageCollective(r) \/ GatherShards(r) \/ GatherExperts(r)
        PROVE  Rests
    <3>1. CASE StageCollective(r)
      <4>1. AllEnter(GroupOf(job, r, "pp"), OfObject) \/ AllEnter(GroupOf(job, r, "pp"), {"tensor"})
        BY <3>1 DEF StageCollective
      <4>2. \A s \in GroupOf(job, r, "pp") : stage[s] = "export"
        BY <4>1 DEF AllEnter
      <4>3. /\ position' = position
            /\ \/ stage' = stage
               \/ stage' = [s \in Ranks(job) |-> IF s \in GroupOf(job, r, "pp") THEN "failed" ELSE stage[s]]
        BY <3>1 DEF StageCollective
      <4> QED
        BY <4>2, <4>3, <1>2
    <3>2. CASE GatherShards(r) \/ GatherExperts(r)
      <4>1. stage' = stage /\ position' = position
        BY <3>2 DEF GatherShards, GatherExperts
      <4> QED BY <4>1, <1>2
    <3> QED
      BY <2>2, <3>1, <3>2
  <2>3. ASSUME NEW r \in Ranks(job), Consume(r) \/ EndAlone(r) \/ WriteAssigned(r)
        PROVE  Rests
    <3>1. stage[r] = "export"
      BY <2>3 DEF Consume, EndAlone, WriteAssigned, AtEnd
    <3>2. CASE Consume(r)
      <4>1. \/ stage' = [stage EXCEPT ![r] = "failed"] /\ position' = position
            \/ stage' = stage /\ position' = [position EXCEPT ![r] = @ + 1]
        BY <3>2 DEF Consume, NextTask
      <4>2. CASE stage' = [stage EXCEPT ![r] = "failed"] /\ position' = position
        BY <4>2, <3>1, <1>2
      <4>3. CASE stage' = stage /\ position' = [position EXCEPT ![r] = @ + 1]
        BY <4>3, <3>1, <1>2
      <4> QED BY <4>1, <4>2, <4>3
    <3>3. CASE EndAlone(r) \/ WriteAssigned(r)
      <4>1. /\ position' = position
            /\ \E x \in {"failed", "barrier", "status"} : stage' = [stage EXCEPT ![r] = x]
        BY <3>3 DEF EndAlone, WriteAssigned
      <4> QED BY <4>1, <3>1, <1>2
    <3> QED BY <2>3, <3>2, <3>3
  <2>4. CASE AgreeOnStatus
    <3>1. \A s \in Ranks(job) : stage[s] = "status"
      BY <2>4 DEF AgreeOnStatus
    <3>2. /\ position' = position
          /\ stage' = [s \in Ranks(job) |-> "failed"] \/ stage' = [s \in Ranks(job) |-> "barrier"]
      BY <2>4 DEF AgreeOnStatus
    <3> QED
      BY <3>1, <3>2, <1>2
  <2>5. CASE Leave
    BY <2>5, <1>2 DEF Leave
  <2> HIDE DEF Rests
  <2> QED
    BY <2>1, <2>2, <2>3, <2>4, <2>5
<1>4. \A s \in Ranks(job) : stage[s] = "share" => job.tied
  BY DEF LoadInv
<1> QED
  BY <1>1, <1>3, <1>4, Resting

LEMMA LoadStep == LoadInv /\ [Next]_vars => LoadInv'
<1> SUFFICES ASSUME LoadInv, [Next]_vars PROVE LoadInv'
  OBVIOUS
<1>1. CASE \E r \in Ranks(job) : Load(r) \/ FinishLoad(r) \/ ShareEmbedding(r)
  BY <1>1, LoadsShards, LoadFinishes, LoadShares
<1>2. CASE \/ StartExport
           \/ \E r \in Ranks(job) : StageCollective(r) \/ GatherShards(r) \/ GatherExperts(r)
           \/ \E r \in Ranks(job) : Consume(r) \/ EndAlone(r) \/ WriteAssigned(r)
           \/ AgreeOnStatus \/ Leave
  BY <1>2, LoadExport
<1>3. CASE UNCHANGED vars
  <2>1. job' = job /\ param' = param /\ stage' = stage /\ position' = position
    BY <1>3 DEF vars
  <2>2. /\ stage = [s \in Ranks(job) |-> stage[s]] /\ position = [s \in Ranks(job) |-> position[s]]
        /\ \A s \in Ranks(job) : stage[s] = "share" => job.tied
    BY DEF LoadInv, Shape
  <2> QED BY <2>1, <2>2, Resting
<1> QED
  BY <1>1, <1>2, <1>3 DEF Next

\* Once loaded, a shard can be computed with alone: an attention shard holds whole query
\* groups, each query with its gate and with its key and value, and an MLP shard pairs the
\* rows of gate and up projection, for all heads, groups, sizes and numbers of ranks
\* (QKVMapping.hf_to_megatron and GatedMLPMapping.hf_to_megatron, param_mapping.py).
THEOREM ShardsAreWhole == Spec => []ShardsComputeAlone
<1>1. LoadInv => ShardsComputeAlone
  <2> SUFFICES ASSUME LoadInv, NEW r \in Ranks(job), NEW t \in Params(job, r[1], r[2]),
                      param[r][t] # NoTensor, t[3] \in {"qkv", "fc1", "experts"}
               PROVE  LET s == param[r][t]
                          m == Len(s) \div 2
                      IN  /\ t[3] = "qkv" =>
                                /\ Len(s) * job.tp = Groups * GroupWidth(Heads, Groups, job.gated)
                                /\ \A b \in 0 .. (Groups \div job.tp) - 1 : IsGroup(s, b)
                          /\ t[3] \in {"fc1", "experts"} =>
                                \A i \in 1 .. m :
                                    /\ s[i][1][1] = "gate" /\ s[m + i][1][1] = "up"
                                    /\ RowOf(s, i) = RowOf(s, m + i)
    BY DEF ShardsComputeAlone
  <2>1. job \in Jobs /\ r[3] \in 0 .. job.tp - 1
    BY DEF LoadInv, Shape, Ranks
  <2>2. param[r][t] = Shard(job, t, r[3])
    <3>1. ~Shared(t)
      BY DEF Shared, Output
    <3> QED BY <3>1 DEF LoadInv, OwnShard
  <2>3. CASE t[3] = "qkv"
    <3>1. Len(Shard(job, t, r[3])) * job.tp = Groups * GroupWidth(Heads, Groups, job.gated)
      BY <2>1, <2>3, ShardOfGroups
    <3>2. \A b \in 0 .. (Groups \div job.tp) - 1 : IsGroup(Shard(job, t, r[3]), b)
      BY <2>1, <2>3, GroupsAreWhole
    <3> QED BY <2>2, <2>3, <3>1, <3>2
  <2>4. CASE t[3] \in {"fc1", "experts"}
    <3>1. PairsRows(param[r][t])
      BY <2>1, <2>2, <2>4, GatedRows
    <3> QED BY <2>4, <3>1 DEF PairsRows
  <2> QED BY <2>3, <2>4
<1> QED
  BY <1>1, LoadInit, LoadStep, PTL DEF Spec

-----------------------------------------------------------------------------
(* Tensors before they are divided and after they are put together.         *)

\* Parameter t as a whole, from the source.
Full(j, t) ==
    LET src(w) == Source(j, <<w, t[1], t[2]>>)
    IN  CASE t[3] = "qkv" -> MergeQKV(Heads, Groups, j.gated, src("q"), src("k"), src("v"))
          [] t[3] \in {"fc1", "experts"} -> src("gate") \o src("up")
          [] t[3] = "embed" -> PadRight(src("embed"), PaddedVocab(j))
          [] t[3] = "out" -> PadRight(Source(j, LmHead), PaddedVocab(j))
          [] OTHER -> src(t[3])

Gated == {"fc1", "experts"}

LEMMA PlainFull ==
    ASSUME NEW j \in Jobs, NEW t, t[3] \in WeightNames \ (Gated \cup {"norm"})
    PROVE  /\ \A k : Shard(j, t, k) = Part(Full(j, t), j.tp, k)
           /\ \E S : \E m \in Nat \ {0} : Full(j, t) \in Seq(S) /\ Len(Full(j, t)) = j.tp * m
<1> DEFINE X == Full(j, t)
           n == j.tp
<1>1. n \in Nat \ {0}
  BY JobSizes
<1>p. ASSUME NEW l \in Nat, NEW f, X = [i \in 1 .. l |-> f[i]]
      PROVE  \E S : X \in Seq(S) /\ Len(X) = l
  <2> DEFINE S == {f[i] : i \in 1 .. l}
  <2>1. \A i \in 1 .. l : f[i] \in S
    OBVIOUS
  <2> HIDE DEF S, X
  <2>2. X \in Seq(S) /\ Len(X) = l
    BY <1>p, <2>1
  <2> QED BY <2>2
<1>2. CASE t[3] = "qkv"
  <2> DEFINE M == MergeQKV(Heads, Groups, j.gated, Source(j, <<"q", t[1], t[2]>>),
                           Source(j, <<"k", t[1], t[2]>>), Source(j, <<"v", t[1], t[2]>>))
             w == GroupWidth(Heads, Groups, j.gated)
             m == Groups \div n
  <2>1. \A k : Shard(j, t, k) = Part(M, n, k)
    BY <1>2 DEF Shard
  <2>2. X = M
    BY <1>2 DEF Full
  <2>3. M = [i \in 1 .. Groups * w |-> M[i]]
    BY DEF MergeQKV
  <2>4. /\ Groups \in Nat \ {0} /\ w \in Nat \ {0} /\ m \in Nat \ {0} /\ Groups = n * m
    <3>1. /\ Heads \div Groups \in Nat \ {0} /\ Heads = (Heads \div Groups) * Groups
          /\ Groups \in Nat \ {0} /\ m \in Nat \ {0} /\ Groups = n * m /\ j.gated \in BOOLEAN
      BY Divided
    <3> QED BY <3>1, WidthOfGroup
  <2> HIDE DEF M, X, w, m, n
  <2>5. Groups * w \in Nat /\ Groups * w = n * (m * w) /\ m * w \in Nat \ {0}
    BY <1>1, <2>4
  <2>6. \E S : X \in Seq(S) /\ Len(X) = Groups * w
    BY <1>p, <2>2, <2>3, <2>5
  <2> QED BY <2>1, <2>2, <2>5, <2>6 DEF X, n
<1>v. ASSUME NEW s
      PROVE  \E m \in Nat \ {0} : /\ PaddedVocab(j) = n * m
                                  /\ \E f : PadRight(s, PaddedVocab(j)) = [i \in 1 .. n * m |-> f[i]]
  <2> DEFINE m == (Vocab + n - 1) \div n
  <2>1. PaddedVocab(j) = m * n
    BY DEF PaddedVocab
  <2>2. m \in Nat \ {0}
    <3>1. Vocab \in Nat \ {0}
      BY ExportConstants
    <3>2. Vocab + n - 1 \in Nat /\ Vocab + n - 1 >= n
      BY <1>1, <3>1
    <3> DEFINE a == Vocab + n - 1
    <3> HIDE DEF a, n
    <3>3. a \in Nat /\ a >= n
      BY <3>2 DEF a
    <3>4. a \div n \in Nat /\ a = n * (a \div n) + (a % n) /\ a % n < n
      BY <1>1, <3>3
    <3>5. a \div n # 0
      BY <1>1, <3>3, <3>4
    <3> QED BY <3>4, <3>5 DEF a
  <2> HIDE DEF m
  <2>3. m * n = n * m
    BY <1>1, <2>2
  <2> DEFINE f == PadRight(s, n * m)
  <2>4. f = [i \in 1 .. n * m |-> f[i]]
    BY DEF PadRight
  <2> HIDE DEF f
  <2>5. PadRight(s, PaddedVocab(j)) = f
    BY <2>1, <2>3 DEF f
  <2> QED BY <2>1, <2>2, <2>3, <2>4, <2>5
<1>3. CASE t[3] = "embed"
  <2> DEFINE P == PadRight(Source(j, <<"embed", t[1], t[2]>>), PaddedVocab(j))
  <2>1. X = P /\ \A k : Shard(j, t, k) = Part(P, n, k)
    BY <1>3 DEF Full, Shard
  <2>2. PICK m \in Nat \ {0} : \E f : P = [i \in 1 .. n * m |-> f[i]]
    BY <1>v
  <2> HIDE DEF P, X, n
  <2>3. n * m \in Nat
    BY <1>1
  <2> QED BY <1>p, <2>1, <2>2, <2>3 DEF X, n
<1>4. CASE t[3] = "out"
  <2> DEFINE P == PadRight(Source(j, LmHead), PaddedVocab(j))
  <2>1. X = P /\ \A k : Shard(j, t, k) = Part(P, n, k)
    BY <1>4 DEF Full, Shard
  <2>2. PICK m \in Nat \ {0} : \E f : P = [i \in 1 .. n * m |-> f[i]]
    BY <1>v
  <2> HIDE DEF P, X, n
  <2>3. n * m \in Nat
    BY <1>1
  <2> QED BY <1>p, <2>1, <2>2, <2>3 DEF X, n
<1>5. CASE t[3] = "proj"
  <2> DEFINE P == Source(j, <<"proj", t[1], t[2]>>)
             m == Hidden \div n
  <2>1. X = P /\ \A k : Shard(j, t, k) = Part(P, n, k)
    BY <1>5 DEF Full, Shard
  <2>2. Rows(j, <<"proj", t[1], t[2]>>) = Hidden
    BY DEF Rows
  <2>3. m \in Nat \ {0} /\ Hidden = n * m
    BY Divided
  <2>4. P \in Seq({<<"proj", t[1], t[2]>>} \X Nat) /\ Len(P) = Hidden
    BY <2>2, SourceIs
  <2> HIDE DEF P, X, m, n
  <2> QED BY <2>1, <2>3, <2>4 DEF X, n
<1> QED BY <1>2, <1>3, <1>4, <1>5 DEF WeightNames, Gated

\* x and y are the gate and the up projection of parameter t, divided alike.
GateAndUp(j, t, x, y) ==
    /\ \A k : Shard(j, t, k) = GatedShard(x, y, j.tp, k)
    /\ Full(j, t) = x \o y
    /\ \E S : \E m \in Nat \ {0} : /\ x \in Seq(S) /\ y \in Seq(S)
                                   /\ Len(x) = j.tp * m /\ Len(y) = j.tp * m

LEMMA GatedFull ==
    ASSUME NEW j \in Jobs, NEW t, t[3] \in Gated
    PROVE  GateAndUp(j, t, Source(j, <<"gate", t[1], t[2]>>), Source(j, <<"up", t[1], t[2]>>))
<1> DEFINE x == Source(j, <<"gate", t[1], t[2]>>)
           y == Source(j, <<"up", t[1], t[2]>>)
           a == <<"gate", t[1], t[2]>>
           b == <<"up", t[1], t[2]>>
           m == Inner \div j.tp
           S == ({a} \X Nat) \cup ({b} \X Nat)
<1>1. /\ \A k : Shard(j, t, k) = GatedShard(x, y, j.tp, k)
      /\ Full(j, t) = x \o y
  BY DEF Shard, Full, Gated
<1>2. Rows(j, a) = Inner /\ Rows(j, b) = Inner
  BY DEF Rows
<1>3. m \in Nat \ {0} /\ Inner = j.tp * m
  BY Divided
<1>4. x \in Seq({a} \X Nat) /\ Len(x) = Inner /\ y \in Seq({b} \X Nat) /\ Len(y) = Inner
  BY <1>2, SourceIs
<1>5. {a} \X Nat \subseteq S /\ {b} \X Nat \subseteq S
  OBVIOUS
<1>7. x = Source(j, <<"gate", t[1], t[2]>>) /\ y = Source(j, <<"up", t[1], t[2]>>)
  OBVIOUS
<1> HIDE DEF a, b, S, m, x, y
<1>6. x \in Seq(S) /\ y \in Seq(S)
  BY <1>4, <1>5
<1> QED BY <1>1, <1>3, <1>4, <1>6, <1>7 DEF GateAndUp

\* The shards of a parameter put together are the parameter.
LEMMA FullOfShards ==
    ASSUME NEW j \in Jobs, NEW t, t[3] \in WeightNames \ {"norm"}
    PROVE  Gathered(t, [k \in 0 .. j.tp - 1 |-> Shard(j, t, k)], j.tp) = Full(j, t)
<1> DEFINE n == j.tp
           X == Full(j, t)
           shards == [k \in 0 .. n - 1 |-> Shard(j, t, k)]
<1>1. n \in Nat \ {0}
  BY JobSizes
<1>2. CASE t[3] \in Gated
  <2> DEFINE x == Source(j, <<"gate", t[1], t[2]>>)
             y == Source(j, <<"up", t[1], t[2]>>)
  <2>g. GateAndUp(j, t, x, y)
    BY <1>2, GatedFull
  <2> HIDE DEF x, y
  <2>1. /\ \A k : Shard(j, t, k) = GatedShard(x, y, n, k)
        /\ X = x \o y
        /\ \E S : \E m \in Nat \ {0} : /\ x \in Seq(S) /\ y \in Seq(S)
                                       /\ Len(x) = n * m /\ Len(y) = n * m
    BY <2>g DEF GateAndUp
  <2>s. PICK S : \E m \in Nat \ {0} : x \in Seq(S) /\ y \in Seq(S) /\ Len(x) = n * m /\ Len(y) = n * m
    BY <2>1
  <2>2. PICK m \in Nat \ {0} : x \in Seq(S) /\ y \in Seq(S) /\ Len(x) = n * m /\ Len(y) = n * m
    BY <2>s
  <2>3. shards = [k \in 0 .. n - 1 |-> GatedShard(x, y, n, k)]
    BY <2>1
  <2> HIDE DEF x, y, n, X, shards
  <2>4. UngatedShards([k \in 0 .. n - 1 |-> GatedShard(x, y, n, k)], n) = x \o y
    BY <1>1, <2>2, GatedRoundTrip
  <2>5. Gathered(t, shards, n) = UngatedShards(shards, n)
    BY <1>2 DEF Gathered, Gated
  <2> QED BY <2>1, <2>3, <2>4, <2>5 DEF n, X, shards
<1>3. CASE t[3] \notin Gated
  <2>1. /\ \A k : Shard(j, t, k) = Part(X, n, k)
        /\ \E S : \E m \in Nat \ {0} : X \in Seq(S) /\ Len(X) = n * m
    BY <1>3, PlainFull
  <2>s. PICK S : \E m \in Nat \ {0} : X \in Seq(S) /\ Len(X) = n * m
    BY <2>1
  <2>2. PICK m \in Nat \ {0} : X \in Seq(S) /\ Len(X) = n * m
    BY <2>s
  <2>3. shards = [k \in 0 .. n - 1 |-> Part(X, n, k)]
    BY <2>1
  <2> HIDE DEF n, X, shards
  <2>4. Cat([k \in 0 .. n - 1 |-> Part(X, n, k)], n) = X
    BY <1>1, <2>2, CatOfParts
  <2>5. Gathered(t, shards, n) = Cat(shards, n)
    BY <1>3 DEF Gathered, Gated
  <2> QED BY <2>3, <2>4, <2>5 DEF n, X, shards
<1> QED BY <1>2, <1>3

LEMMA SolePart ==
    ASSUME NEW S, NEW s \in Seq(S)
    PROVE  Part(s, 1, 0) = s
<1> DEFINE l == Len(s)
<1>1. l \in Nat /\ s = [i \in 1 .. l |-> s[i]]
  OBVIOUS
<1> HIDE DEF l
<1>2. l \div 1 = l
  <2>1. 1 * l = l
    BY <1>1
  <2> QED BY <2>1, <1>1, ExactQuotient
<1>3. \A i \in 1 .. l : 0 * l + i = i
  BY <1>1
<1>4. Part(s, 1, 0) = [i \in 1 .. l |-> s[0 * l + i]]
  BY <1>2 DEF Part, l
<1> QED BY <1>1, <1>3, <1>4

\* A sole rank has the whole parameter, and all ranks have the whole of a norm.
LEMMA SoleShard ==
    ASSUME NEW j \in Jobs, NEW t, t[3] \in WeightNames, NEW k \in 0 .. j.tp - 1,
           j.tp = 1 \/ t[3] = "norm"
    PROVE  Shard(j, t, k) = Full(j, t)
<1>1. CASE t[3] = "norm"
  BY <1>1 DEF Shard, Full
<1>2. CASE t[3] # "norm"
  <2>1. j.tp = 1 /\ k = 0
    BY <1>2
  <2>2. CASE t[3] \in Gated
    <3> DEFINE x == Source(j, <<"gate", t[1], t[2]>>)
               y == Source(j, <<"up", t[1], t[2]>>)
    <3>g. GateAndUp(j, t, x, y)
      BY <2>2, GatedFull
    <3> HIDE DEF x, y
    <3>1. /\ Shard(j, t, k) = GatedShard(x, y, 1, 0) /\ Full(j, t) = x \o y
          /\ \E S : x \in Seq(S) /\ y \in Seq(S)
      BY <2>1, <3>g DEF GateAndUp
    <3>2. Part(x, 1, 0) = x /\ Part(y, 1, 0) = y
      BY <3>1, SolePart
    <3> QED BY <3>1, <3>2 DEF GatedShard
  <2>3. CASE t[3] \notin Gated
    <3>1. Shard(j, t, k) = Part(Full(j, t), 1, 0) /\ \E S : Full(j, t) \in Seq(S)
      BY <1>2, <2>1, <2>3, PlainFull
    <3> QED BY <3>1, SolePart
  <2> QED BY <2>2, <2>3
<1> QED BY <1>1, <1>2

\* The expert at the same place as t on the i-th rank of an expert-parallel group.
Peer(j, t, i) == <<t[1], (t[2] % ExpertsPerRank(j)) + ExpertsPerRank(j) * (i - 1), "experts">>

Spread(j, t) == t[3] = "experts" /\ j.ep > 1

\* What a rank has in hand at the end of a task.
Complete(j, t) ==
    IF Spread(j, t) THEN [i \in 1 .. j.ep |-> Full(j, Peer(j, t, i))] ELSE <<Full(j, t)>>

LEMMA NameIs ==
    ASSUME NEW j \in Jobs, NEW e \in 0 .. j.ep - 1, NEW t \in NamesOf(j, e)
    PROVE  /\ t[3] \in WeightNames
           /\ t[3] = "embed" => t = Embedding
           /\ t[3] = "out" => t = Output /\ ~j.tied
<1>1. PICK p \in 0 .. j.pp - 1 : t \in Params(j, p, e)
  BY NamesAre
<1>2. ~(j.tied /\ t = Output)
  BY NamesAre
<1>3. t \in NameBox(j)
  BY <1>1, ParamShape
<1>4. OfEnds(j, p, t) \/ OfLayer(j, p, t) \/ OfExpert(j, p, e, t)
  BY <1>1, ParamsAre
<1>5. t[3] \in {"embed", "out"} => OfEnds(j, p, t)
  BY <1>4 DEF OfLayer, OfExpert
<1>6. OfEnds(j, p, t) => t \in {Embedding, Output, <<None, None, "norm">>}
  BY DEF OfEnds
<1>7. t[3] \in WeightNames
  BY <1>3 DEF NameBox
<1> QED BY <1>2, <1>5, <1>6, <1>7 DEF Embedding, Output

\* The halves of a gated parameter.
LEMMA GatedBack ==
    ASSUME NEW j \in Jobs, NEW t, t[3] \in Gated
    PROVE  /\ Part(Full(j, t), 2, 0) = Source(j, <<"gate", t[1], t[2]>>)
           /\ Part(Full(j, t), 2, 1) = Source(j, <<"up", t[1], t[2]>>)
<1> DEFINE x == Source(j, <<"gate", t[1], t[2]>>)
           y == Source(j, <<"up", t[1], t[2]>>)
<1>1. j.tp \in Nat \ {0}
  BY JobSizes
<1>2. x = Source(j, <<"gate", t[1], t[2]>>) /\ y = Source(j, <<"up", t[1], t[2]>>)
  OBVIOUS
<1>8. GateAndUp(j, t, x, y)
  BY GatedFull
<1> HIDE DEF x, y
<1>3. /\ Full(j, t) = x \o y
      /\ \E S : \E m \in Nat \ {0} : /\ x \in Seq(S) /\ y \in Seq(S)
                                     /\ Len(x) = j.tp * m /\ Len(y) = j.tp * m
  BY <1>8 DEF GateAndUp
<1>4. PICK S : \E m \in Nat \ {0} : /\ x \in Seq(S) /\ y \in Seq(S)
                                   /\ Len(x) = j.tp * m /\ Len(y) = j.tp * m
  BY <1>3
<1>5. PICK m \in Nat \ {0} : x \in Seq(S) /\ y \in Seq(S) /\ Len(x) = j.tp * m /\ Len(y) = j.tp * m
  BY <1>4
<1>6. j.tp * m \in Nat \ {0}
  BY <1>1
<1>7. Part(x \o y, 2, 0) = x /\ Part(x \o y, 2, 1) = y
  BY <1>5, <1>6, HalvesOfShard
<1> QED BY <1>2, <1>3, <1>7

LEMMA AttentionBack ==
    ASSUME NEW j \in Jobs, NEW t, t[3] = "qkv"
    PROVE  /\ SplitQ(Heads, Groups, j.gated, Full(j, t)) = Source(j, <<"q", t[1], t[2]>>)
           /\ SplitK(Heads, Groups, j.gated, Full(j, t)) = Source(j, <<"k", t[1], t[2]>>)
           /\ SplitV(Heads, Groups, j.gated, Full(j, t)) = Source(j, <<"v", t[1], t[2]>>)
<1> DEFINE nq == <<"q", t[1], t[2]>>
           nk == <<"k", t[1], t[2]>>
           nv == <<"v", t[1], t[2]>>
           q == Source(j, nq)
           k == Source(j, nk)
           v == Source(j, nv)
           S == {nq, nk, nv} \X Nat
           c == Heads \div Groups
<1>1. Full(j, t) = MergeQKV(Heads, Groups, j.gated, q, k, v)
  BY DEF Full
<1>2. /\ Rows(j, nq) = IF j.gated THEN 2 * Heads ELSE Heads
      /\ Rows(j, nk) = Groups /\ Rows(j, nv) = Groups
  BY DEF Rows
<1>3. /\ q \in Seq({nq} \X Nat) /\ Len(q) = Rows(j, nq)
      /\ k \in Seq({nk} \X Nat) /\ Len(k) = Rows(j, nk)
      /\ v \in Seq({nv} \X Nat) /\ Len(v) = Rows(j, nv)
  BY SourceIs
<1>4. {nq} \X Nat \subseteq S /\ {nk} \X Nat \subseteq S /\ {nv} \X Nat \subseteq S
  OBVIOUS
<1>5. c \in Nat \ {0} /\ Heads = c * Groups /\ Groups \in Nat \ {0} /\ j.gated \in BOOLEAN
  BY Divided
<1> HIDE DEF nq, nk, nv, q, k, v, S, c
<1>6. q \in Seq(S) /\ k \in Seq(S) /\ v \in Seq(S)
  BY <1>3, <1>4
<1> DEFINE M == MergeQKV(Heads, Groups, j.gated, q, k, v)
<1>7. Len(q) = (IF j.gated THEN 2 * Heads ELSE Heads) /\ Len(k) = Groups /\ Len(v) = Groups
  BY <1>2, <1>3
<1>8. /\ SplitQ(Heads, Groups, j.gated, M) = q
      /\ SplitK(Heads, Groups, j.gated, M) = k
      /\ SplitV(Heads, Groups, j.gated, M) = v
  BY <1>5, <1>6, <1>7, AttentionRoundTrip
<1> QED BY <1>1, <1>8 DEF M, nq, nk, nv, q, k, v

\* What an export makes of a parameter are the tensors that the source has of it.
LEMMA ConvertedBack ==
    ASSUME job \in Jobs, NEW e \in 0 .. job.ep - 1, NEW t \in NamesOf(job, e), NEW h,
           h \in {NoTensor, Complete(job, t)}
    PROVE  \A n \in DOMAIN Converted(job, t, h) : Converted(job, t, h)[n] = Reference(n)
<1> DEFINE F == Full(job, t)
           new == Converted(job, t, h)
<1>1. CASE h = NoTensor
  <2>1. new = <<>>
    BY <1>1 DEF Converted, Nothing
  <2> QED BY <2>1
<1>2. CASE h # NoTensor
  <2> USE <1>2
  <2>1. /\ t[3] \in WeightNames
        /\ t[3] = "embed" => t = Embedding
        /\ t[3] = "out" => t = Output /\ ~job.tied
    BY NameIs
  <2>2. h = Complete(job, t)
    OBVIOUS
  <2>3. ~Spread(job, t) => h = <<F>> /\ DOMAIN h = {1} /\ h[1] = F
    BY <2>2 DEF Complete
  <2>4. \A n : n[1] \notin {"embed", "lm_head"} => Reference(n) = Source(job, n)
    BY DEF Reference
  <2> HIDE DEF F
  <2>5. CASE t[3] = "qkv"
    <3>1. h[1] = F
      BY <2>3, <2>5 DEF Spread
    <3>2. new = [n \in Tensors(t) |->
                   IF n[1] = "q" THEN SplitQ(Heads, Groups, job.gated, h[1])
                   ELSE IF n[1] = "k" THEN SplitK(Heads, Groups, job.gated, h[1])
                   ELSE SplitV(Heads, Groups, job.gated, h[1])]
      BY <2>5 DEF Converted
    <3>3. Tensors(t) = {<<"q", t[1], t[2]>>, <<"k", t[1], t[2]>>, <<"v", t[1], t[2]>>}
      BY <2>5 DEF Tensors
    <3>4. /\ SplitQ(Heads, Groups, job.gated, F) = Source(job, <<"q", t[1], t[2]>>)
          /\ SplitK(Heads, Groups, job.gated, F) = Source(job, <<"k", t[1], t[2]>>)
          /\ SplitV(Heads, Groups, job.gated, F) = Source(job, <<"v", t[1], t[2]>>)
      BY <2>5, AttentionBack DEF F
    <3> HIDE DEF new
    <3>5. /\ new[<<"q", t[1], t[2]>>] = Source(job, <<"q", t[1], t[2]>>)
          /\ new[<<"k", t[1], t[2]>>] = Source(job, <<"k", t[1], t[2]>>)
          /\ new[<<"v", t[1], t[2]>>] = Source(job, <<"v", t[1], t[2]>>)
          /\ DOMAIN new = Tensors(t)
      BY <3>1, <3>2, <3>3, <3>4
    <3> QED BY <2>4, <3>3, <3>5 DEF new
  <2>6. CASE t[3] = "fc1"
    <3>1. h[1] = F
      BY <2>3, <2>6 DEF Spread
    <3>2. new = [n \in Tensors(t) |-> Part(h[1], 2, IF n[1] = "gate" THEN 0 ELSE 1)]
      BY <2>6 DEF Converted
    <3>3. Tensors(t) = {<<"gate", t[1], t[2]>>, <<"up", t[1], t[2]>>}
      BY <2>6 DEF Tensors
    <3>4. /\ Part(F, 2, 0) = Source(job, <<"gate", t[1], t[2]>>)
          /\ Part(F, 2, 1) = Source(job, <<"up", t[1], t[2]>>)
      BY <2>6, GatedBack DEF F, Gated
    <3> HIDE DEF new
    <3>5. /\ new[<<"gate", t[1], t[2]>>] = Source(job, <<"gate", t[1], t[2]>>)
          /\ new[<<"up", t[1], t[2]>>] = Source(job, <<"up", t[1], t[2]>>)
          /\ DOMAIN new = Tensors(t)
      BY <3>1, <3>2, <3>3, <3>4
    <3> QED BY <2>4, <3>3, <3>5 DEF new
  <2>7. CASE t[3] = "experts"
    <3> DEFINE E == ExpertsPerRank(job)
               expert(i) == IF job.ep = 1 THEN t[2] ELSE (t[2] % E) + E * (i - 1)
               N == {<<w, t[1], expert(i)>> : w \in {"gate", "up"}, i \in DOMAIN h}
               at(n) == CHOOSE k \in DOMAIN h : expert(k) = n[3]
    <3>1. new = [n \in N |-> Part(h[at(n)], 2, IF n[1] = "gate" THEN 0 ELSE 1)]
      BY <2>7 DEF Converted
    <3>2. ASSUME NEW i \in DOMAIN h
          PROVE  /\ Part(h[i], 2, 0) = Source(job, <<"gate", t[1], expert(i)>>)
                 /\ Part(h[i], 2, 1) = Source(job, <<"up", t[1], expert(i)>>)
      <4> DEFINE u == <<t[1], expert(i), "experts">>
      <4>1. h[i] = Full(job, u)
        <5>1. CASE job.ep = 1
          <6>1. i = 1 /\ h[i] = F /\ expert(i) = t[2]
            BY <5>1, <2>3, <3>2 DEF Spread
          <6>2. t = <<t[1], t[2], t[3]>>
            <7>1. t \in NameBox(job)
              BY ShiftNames
            <7> QED BY <7>1 DEF NameBox
          <6> QED BY <6>1, <6>2, <2>7 DEF F
        <5>2. CASE job.ep # 1
          <6>1. job.ep > 1
            BY <5>2, JobSizes
          <6>2. h = [k \in 1 .. job.ep |-> Full(job, Peer(job, t, k))]
            BY <6>1, <2>2, <2>7 DEF Complete, Spread
          <6>3. Peer(job, t, i) = u
            BY <5>2 DEF Peer
          <6> HIDE DEF u
          <6> QED BY <6>2, <6>3, <3>2
        <5> QED BY <5>1, <5>2
      <4>2. u[3] \in Gated /\ u[1] = t[1] /\ u[2] = expert(i)
        BY DEF Gated
      <4> HIDE DEF u, expert
      <4> QED BY <4>1, <4>2, GatedBack
    <3> HIDE DEF expert
    <3>3. ASSUME NEW n \in N PROVE new[n] = Reference(n)
      <4>1. PICK w \in {"gate", "up"}, i \in DOMAIN h : n = <<w, t[1], expert(i)>>
        OBVIOUS
      <4>2. at(n) \in DOMAIN h /\ expert(at(n)) = n[3]
        BY <4>1
      <4> HIDE DEF at
      <4>3. n = <<w, t[1], expert(at(n))>>
        BY <4>1, <4>2
      <4>4. Part(h[at(n)], 2, IF w = "gate" THEN 0 ELSE 1) = Source(job, n)
        <5>1. PICK k \in DOMAIN h : k = at(n) /\ n = <<w, t[1], expert(k)>>
          BY <4>2, <4>3
        <5>4. /\ Part(h[k], 2, 0) = Source(job, <<"gate", t[1], expert(k)>>)
              /\ Part(h[k], 2, 1) = Source(job, <<"up", t[1], expert(k)>>)
          BY <3>2
        <5>2. CASE w = "gate"
          BY <5>1, <5>2, <5>4
        <5>3. CASE w = "up"
          BY <5>1, <5>3, <5>4
        <5> QED BY <5>2, <5>3
      <4>5. Reference(n) = Source(job, n)
        BY <4>1, <2>4
      <4> HIDE DEF N, new
      <4> QED BY <3>1, <4>1, <4>4, <4>5
    <3> HIDE DEF N, new, at
    <3>4. DOMAIN new = N
      BY <3>1
    <3> QED BY <3>3, <3>4 DEF new
  <2>8. CASE t[3] = "embed"
    <3>1. h[1] = F
      BY <2>3, <2>8 DEF Spread
    <3> DEFINE name == <<"embed", None, None>>
               P == PadRight(Source(job, name), PaddedVocab(job))
    <3>2. Tensors(t) = {name}
      BY <2>1, <2>8 DEF Tensors, Embedding
    <3>3. F = P
      BY <2>1, <2>8 DEF F, Full, Embedding
    <3>4. /\ DOMAIN new = {name} \cup (IF job.tied /\ LmHead \in Expected(job) THEN {LmHead} ELSE {})
          /\ \A n \in DOMAIN new : new[n] = h[1]
      <4>1. CASE job.tied /\ LmHead \in Expected(job)
        <5>1. new = [n \in Tensors(t) \cup {LmHead} |-> h[1]]
          BY <4>1, <2>8 DEF Converted
        <5> HIDE DEF new
        <5> QED BY <4>1, <5>1, <3>2
      <4>2. CASE ~(job.tied /\ LmHead \in Expected(job))
        <5>1. new = [n \in Tensors(t) |-> h[1]]
          BY <4>2, <2>8 DEF Converted
        <5> HIDE DEF new
        <5> QED BY <4>2, <5>1, <3>2
      <4> QED BY <4>1, <4>2
    <3>5. Reference(name) = P /\ (job.tied => Reference(LmHead) = P)
      BY DEF Reference, LmHead
    <3> HIDE DEF new, P, name
    <3> QED BY <3>1, <3>3, <3>4, <3>5 DEF new
  <2>9. CASE t[3] = "out"
    <3>1. h[1] = F
      BY <2>3, <2>9 DEF Spread
    <3>2. Tensors(t) = {LmHead}
      BY <2>9 DEF Tensors
    <3>3. new = [n \in {LmHead} |-> h[1]]
      BY <2>9, <3>2 DEF Converted
    <3>4. Reference(LmHead) = F
      BY <2>1, <2>9 DEF Reference, F, Full, LmHead
    <3> QED BY <3>1, <3>3, <3>4
  <2>10. CASE t[3] \in {"proj", "norm"}
    <3> DEFINE name == <<t[3], t[1], t[2]>>
    <3>1. h[1] = F
      BY <2>3, <2>10 DEF Spread
    <3>2. Tensors(t) = {name}
      BY <2>10 DEF Tensors
    <3>3. new = [n \in {name} |-> h[1]]
      BY <2>10, <3>2 DEF Converted
    <3>4. F = Source(job, name)
      BY <2>10 DEF F, Full
    <3>5. Reference(name) = Source(job, name)
      BY <2>4, <2>10
    <3> HIDE DEF new, name
    <3> QED BY <3>1, <3>3, <3>4, <3>5 DEF new
  <2> QED BY <2>1, <2>5, <2>6, <2>7, <2>8, <2>9, <2>10 DEF WeightNames
<1> QED BY <1>1, <1>2

-----------------------------------------------------------------------------
(* What a rank has in hand when it has entered some of a task's collectives. *)

LEMMA LeftAtStart ==
    ASSUME NEW j \in Jobs, NEW r, NEW t
    PROVE  LET L == Left(j, t, StartOf(j, r, t))
               skips == j.pp = 1 /\ ~Owns(j, r, t)
           IN  /\ skips => L = {}
               /\ "tensor" \in L <=> j.pp > 1
               /\ ~skips => ("tp" \in L <=> j.tp > 1 /\ t[3] # "norm")
               /\ ~skips => ("ep" \in L <=> Spread(j, t))
               /\ "ep" \in L => Spread(j, t)
<1> DEFINE after == AfterType(j, t)
           a == InGroup(j, "tensor")
           b == IF t[3] = "norm" THEN <<>> ELSE InGroup(j, "tp")
           x == InGroup(j, "experts")
           y == InGroup(j, "ep")
           s == StartOf(j, r, t)
           L == Left(j, t, s)
           skips == j.pp = 1 /\ ~Owns(j, r, t)
<1>1. /\ j.pp \in Nat \ {0} /\ j.tp \in Nat \ {0} /\ j.ep \in Nat \ {0}
      /\ SizeOf(j, "tensor") = j.pp /\ SizeOf(j, "tp") = j.tp
      /\ SizeOf(j, "experts") = j.pp /\ SizeOf(j, "ep") = j.ep
  BY JobSizes DEF SizeOf
<1>2. /\ InTurn(a) /\ Range(a) = IF j.pp > 1 THEN {"tensor"} ELSE {}
      /\ InTurn(x) /\ Range(x) = IF j.pp > 1 THEN {"experts"} ELSE {}
      /\ InTurn(y) /\ Range(y) = IF j.ep > 1 THEN {"ep"} ELSE {}
      /\ InTurn(b) /\ Range(b) = IF j.tp > 1 /\ t[3] # "norm" THEN {"tp"} ELSE {}
  BY <1>1, OneInTurn DEF InGroup, Kinds
<1>3. /\ Turn["tensor"] = 3 /\ Turn["tp"] = 4 /\ Turn["experts"] = 5 /\ Turn["ep"] = 6
      /\ Turn["config"] = 1 /\ Turn["type"] = 2
  BY DEF Turn
<1>4. after = a \o b
  BY DEF AfterType
<1>5. \/ s = <<>> /\ skips
      \/ ~skips /\ s = after /\ ~Spread(j, t)
      \/ ~skips /\ s = (after \o x) \o y /\ Spread(j, t)
      \/ ~skips /\ s = <<"config", "type">> /\ ~Spread(j, t) /\ j.pp # 1
      \/ ~skips /\ s = <<"type">> /\ ~Spread(j, t) /\ j.pp # 1
  BY DEF StartOf, Spread
<1> HIDE DEF after, a, b, x, y, s, L, skips
<1>6. InTurn(after) /\ Range(after) = Range(a) \cup Range(b)
  <2>1. \A k \in Range(a), l \in Range(b) : Turn[k] < Turn[l]
    BY <1>2, <1>3
  <2> QED BY <2>1, <1>2, <1>4, BothInTurn
<1>7. InTurn(after \o x) /\ Range(after \o x) = Range(after) \cup Range(x)
  <2>1. \A k \in Range(after), l \in Range(x) : Turn[k] < Turn[l]
    BY <1>2, <1>3, <1>6
  <2> QED BY <2>1, <1>2, <1>6, BothInTurn
<1>8. Range((after \o x) \o y) = Range(after) \cup Range(x) \cup Range(y)
  <2> DEFINE c == after \o x
  <2>1. InTurn(c) /\ Range(c) = Range(after) \cup Range(x)
    BY <1>7
  <2> HIDE DEF c
  <2>2. \A k \in Range(c), l \in Range(y) : Turn[k] < Turn[l]
    BY <2>1, <1>2, <1>3, <1>6
  <2>3. Range(c \o y) = Range(c) \cup Range(y)
    BY <2>1, <2>2, <1>2, BothInTurn
  <2> QED BY <2>1, <2>3 DEF c
<1>9. Range(<<"config", "type">>) = {"config", "type"} /\ Range(<<"type">>) = {"type"} /\ Range(<<>>) = {}
  <2> DEFINE c == <<"config", "type">>
  <2>1. DOMAIN c = 1 .. 2 /\ c[1] = "config" /\ c[2] = "type"
    OBVIOUS
  <2> HIDE DEF c
  <2>2. Range(c) = {c[1], c[2]}
    BY <2>1 DEF Range
  <2> QED BY <2>1, <2>2, OneInTurn DEF c, Kinds
<1>10. L = Range(s) \cup (IF "type" \in Range(s) THEN Range(after) ELSE {})
  BY DEF L, Left, after
<1>11. CASE s = <<>> /\ skips
  <2>1. L = {} /\ ~(j.pp > 1)
    BY <1>9, <1>10, <1>11, <1>1 DEF skips
  <2> QED BY <2>1, <1>11 DEF L, s, skips
<1>12. CASE ~skips /\ s = after /\ ~Spread(j, t)
  <2>1. L = Range(a) \cup Range(b)
    BY <1>2, <1>6, <1>10, <1>12
  <2>2. /\ "tensor" \in L <=> j.pp > 1
        /\ "tp" \in L <=> j.tp > 1 /\ t[3] # "norm"
        /\ "ep" \notin L
    BY <2>1, <1>2
  <2> QED BY <2>2, <1>12 DEF L, s, skips
<1>13. CASE ~skips /\ s = (after \o x) \o y /\ Spread(j, t)
  <2>1. L = Range(a) \cup Range(b) \cup Range(x) \cup Range(y)
    BY <1>2, <1>6, <1>8, <1>10, <1>13
  <2>2. /\ "tensor" \in L <=> j.pp > 1
        /\ "tp" \in L <=> j.tp > 1 /\ t[3] # "norm"
        /\ "ep" \in L
    BY <2>1, <1>2, <1>13 DEF Spread
  <2> QED BY <2>2, <1>13 DEF L, s, skips
<1>14. CASE ~skips /\ (s = <<"config", "type">> \/ s = <<"type">>) /\ ~Spread(j, t) /\ j.pp # 1
  <2>1. L = Range(s) \cup Range(a) \cup Range(b) /\ Range(s) \subseteq {"config", "type"}
    BY <1>6, <1>9, <1>10, <1>14
  <2>2. /\ "tensor" \in L <=> j.pp > 1
        /\ "tp" \in L <=> j.tp > 1 /\ t[3] # "norm"
        /\ "ep" \notin L
    BY <2>1, <1>2
  <2> QED BY <2>2, <1>14 DEF L, s, skips
<1> QED BY <1>5, <1>11, <1>12, <1>13, <1>14

\* The collectives of s are the last ones of the task.
Reached(j, r, t, s) ==
    LET all == Left(j, t, StartOf(j, r, t))
    IN  /\ Left(j, t, s) \subseteq all
        /\ \A k \in all \ Left(j, t, s), l \in Left(j, t, s) : Turn[k] < Turn[l]

Own(j, r, t) == IF Owns(j, r, t) THEN <<Shard(j, t, r[3])>> ELSE NoTensor

\* The tensor a rank works with while the collectives L of task t are left: its own shard,
\* the shard of its place, the whole parameter, or the experts of its group.
InHand(j, r, t, L) ==
    IF "tensor" \in L \/ (j.pp = 1 /\ ~Owns(j, r, t)) THEN Own(j, r, t)
    ELSE IF "tp" \in L THEN <<Shard(j, t, r[3])>>
    ELSE IF "ep" \in L THEN <<Full(j, t)>>
    ELSE Complete(j, t)

HeldIs(j, r, t, s, h) ==
    Proper(s) /\ Reached(j, r, t, s) /\ h = InHand(j, r, t, Left(j, t, s))

LEMMA HeldAtStart ==
    ASSUME NEW j \in Jobs, NEW r \in Ranks(j), NEW t \in NamesOf(j, r[2])
    PROVE  HeldIs(j, r, t, StartOf(j, r, t), Own(j, r, t))
<1> DEFINE s == StartOf(j, r, t)
           L == Left(j, t, s)
           skips == j.pp = 1 /\ ~Owns(j, r, t)
<1>1. Proper(s) /\ Reached(j, r, t, s)
  BY StartIs DEF Reached
<1>2. /\ "tensor" \in L <=> j.pp > 1
      /\ ~skips => ("tp" \in L <=> j.tp > 1 /\ t[3] # "norm")
      /\ ~skips => ("ep" \in L <=> Spread(j, t))
  BY LeftAtStart
<1>3. /\ j.pp \in Nat \ {0} /\ j.tp \in Nat \ {0} /\ r[2] \in 0 .. j.ep - 1 /\ r[3] \in 0 .. j.tp - 1
  BY JobSizes DEF Ranks
<1>4. t[3] \in WeightNames
  BY <1>3, NameIs
<1> HIDE DEF s, L
<1>5. Own(j, r, t) = InHand(j, r, t, L)
  <2>1. CASE "tensor" \in L \/ skips
    BY <2>1 DEF InHand
  <2>2. CASE ~("tensor" \in L \/ skips)
    <3>1. Own(j, r, t) = <<Shard(j, t, r[3])>>
      BY <2>2, <1>2, <1>3 DEF Own
    <3>2. CASE "tp" \in L
      BY <2>2, <3>1, <3>2 DEF InHand
    <3>3. CASE "tp" \notin L
      <4>1. Shard(j, t, r[3]) = Full(j, t)
        BY <2>2, <3>3, <1>2, <1>3, <1>4, SoleShard
      <4>2. "ep" \notin L => Complete(j, t) = <<Full(j, t)>>
        BY <2>2, <1>2 DEF Complete
      <4> QED BY <2>2, <3>1, <3>3, <4>1, <4>2 DEF InHand
    <3> QED BY <3>2, <3>3
  <2> QED BY <2>1, <2>2
<1> QED BY <1>1, <1>5 DEF HeldIs, s, L

\* A collective is entered in its turn: what comes after it in the task is still left.
LEMMA OneLess ==
    ASSUME NEW j, NEW r, NEW t, NEW s, Proper(s), s # <<>>, Reached(j, r, t, s)
    PROVE  LET L == Left(j, t, s)
           IN  /\ Proper(Rest(j, t, s)) /\ Reached(j, r, t, Rest(j, t, s))
               /\ Left(j, t, Rest(j, t, s)) = L \ {Head(s)} /\ Head(s) \in L
               /\ L \subseteq Left(j, t, StartOf(j, r, t))
               /\ \A k \in Kinds : k \in Left(j, t, StartOf(j, r, t)) /\ Turn[Head(s)] <= Turn[k] => k \in L
               /\ \A k \in Kinds : k \in L => Turn[Head(s)] <= Turn[k]
<1> DEFINE L == Left(j, t, s)
           h == Head(s)
           new == Rest(j, t, s)
           all == Left(j, t, StartOf(j, r, t))
           M == Left(j, t, new)
<1>1. /\ h \in Kinds /\ h \in L
      /\ \A k \in L : k \in Kinds /\ Turn[h] <= Turn[k]
      /\ Proper(new) /\ M = L \ {h}
  BY Entered
<1>2. L \subseteq all /\ \A k \in all \ L, l \in L : Turn[k] < Turn[l]
  BY DEF Reached
<1>5. Reached(j, r, t, new) <=> M \subseteq all /\ \A k \in all \ M, l \in M : Turn[k] < Turn[l]
  BY DEF Reached
<1> HIDE DEF L, h, new, all, M
<1>3. \A k \in Kinds : k \in all /\ Turn[h] <= Turn[k] => k \in L
  BY <1>1, <1>2, Turns
<1>4. ASSUME NEW k \in all \ M, NEW l \in M PROVE Turn[k] < Turn[l]
  <2>1. CASE k = h
    <3>1. Turn[h] <= Turn[l] /\ Turn[h] # Turn[l] /\ l \in Kinds
      BY <1>1, Turns
    <3> QED BY <2>1, <3>1, <1>1, Turns
  <2>2. CASE k # h
    BY <2>2, <1>1, <1>2
  <2> QED BY <2>1, <2>2
<1>6. Reached(j, r, t, new)
  BY <1>1, <1>2, <1>4, <1>5
<1> QED BY <1>1, <1>2, <1>3, <1>6 DEF L, h, new, all, M

\* A collective about the object or the number of experts leaves the tensors as they are.
LEMMA HandKept ==
    ASSUME NEW j, NEW r, NEW t, NEW s, NEW h, HeldIs(j, r, t, s, h), s # <<>>,
           Head(s) \notin {"tensor", "tp", "ep"}
    PROVE  HeldIs(j, r, t, Rest(j, t, s), h)
<1> DEFINE L == Left(j, t, s)
           M == Left(j, t, Rest(j, t, s))
<1>1. /\ Proper(Rest(j, t, s)) /\ Reached(j, r, t, Rest(j, t, s)) /\ M = L \ {Head(s)}
      /\ h = InHand(j, r, t, L)
  BY OneLess DEF HeldIs
<1> HIDE DEF L, M
<1>2. InHand(j, r, t, M) = InHand(j, r, t, L)
  BY <1>1 DEF InHand
<1> QED BY <1>1, <1>2 DEF HeldIs, M

\* What the collectives over tensors find and leave.
LEMMA HandReceives ==
    ASSUME NEW j \in Jobs, NEW r \in Ranks(j), NEW t \in NamesOf(j, r[2]),
           NEW s, NEW h, HeldIs(j, r, t, s, h), s # <<>>
    PROVE  /\ Head(s) = "tensor" =>
                 /\ h = Own(j, r, t)
                 /\ HeldIs(j, r, t, Rest(j, t, s), <<Shard(j, t, r[3])>>)
           /\ Head(s) = "tp" =>
                 /\ h = <<Shard(j, t, r[3])>> /\ t[3] # "norm"
                 /\ HeldIs(j, r, t, Rest(j, t, s), <<Full(j, t)>>)
           /\ Head(s) = "ep" =>
                 /\ h = <<Full(j, t)>> /\ Spread(j, t)
                 /\ HeldIs(j, r, t, Rest(j, t, s), Complete(j, t))
<1> DEFINE L == Left(j, t, s)
           M == Left(j, t, Rest(j, t, s))
           all == Left(j, t, StartOf(j, r, t))
           skips == j.pp = 1 /\ ~Owns(j, r, t)
           k == Head(s)
<1>1. /\ Proper(Rest(j, t, s)) /\ Reached(j, r, t, Rest(j, t, s)) /\ M = L \ {k} /\ k \in L
      /\ L \subseteq all /\ h = InHand(j, r, t, L)
      /\ \A l \in Kinds : l \in all /\ Turn[k] <= Turn[l] => l \in L
      /\ \A l \in Kinds : l \in L => Turn[k] <= Turn[l]
  BY OneLess DEF HeldIs
<1>2. /\ skips => all = {}
      /\ "tensor" \in all <=> j.pp > 1
      /\ ~skips => ("tp" \in all <=> j.tp > 1 /\ t[3] # "norm")
      /\ ~skips => ("ep" \in all <=> Spread(j, t))
  BY LeftAtStart
<1>3. Turn["tensor"] = 3 /\ Turn["tp"] = 4 /\ Turn["ep"] = 6 /\ {"tensor", "tp", "ep"} \subseteq Kinds
  BY DEF Turn, Kinds
<1>4. /\ j.tp \in Nat \ {0} /\ r[2] \in 0 .. j.ep - 1 /\ r[3] \in 0 .. j.tp - 1
      /\ t[3] \in WeightNames
  <2>1. j.tp \in Nat \ {0} /\ r[2] \in 0 .. j.ep - 1 /\ r[3] \in 0 .. j.tp - 1
    BY JobSizes DEF Ranks
  <2> QED BY <2>1, NameIs
<1>5. ~skips
  BY <1>1, <1>2
<1>6. ~Spread(j, t) => Complete(j, t) = <<Full(j, t)>>
  BY DEF Complete
<1>7. \A x : x = InHand(j, r, t, M) => HeldIs(j, r, t, Rest(j, t, s), x)
  BY <1>1 DEF HeldIs
<1> HIDE DEF L, M, all, k, skips
<1>8. CASE k = "tensor"
  <2>1. h = Own(j, r, t)
    BY <1>1, <1>8 DEF InHand
  <2>2. /\ "tensor" \notin M
        /\ "tp" \in M <=> j.tp > 1 /\ t[3] # "norm"
        /\ "ep" \in M <=> Spread(j, t)
    BY <1>1, <1>2, <1>3, <1>5, <1>8
  <2>3. "tp" \notin M => Shard(j, t, r[3]) = Full(j, t)
    BY <2>2, <1>4, SoleShard
  <2>4. <<Shard(j, t, r[3])>> = InHand(j, r, t, M)
    BY <2>2, <2>3, <1>5, <1>6 DEF InHand, skips
  <2> QED BY <2>1, <2>4, <1>7, <1>8 DEF k
<1>9. CASE k = "tp"
  <2>1. "tensor" \notin L /\ "tp" \in L
    BY <1>1, <1>3, <1>9
  <2>2. h = <<Shard(j, t, r[3])>>
    BY <2>1, <1>1, <1>5 DEF InHand, skips
  <2>3. /\ "tensor" \notin M /\ "tp" \notin M
        /\ "ep" \in M <=> Spread(j, t)
    BY <2>1, <1>1, <1>2, <1>3, <1>5, <1>9
  <2>4. <<Full(j, t)>> = InHand(j, r, t, M)
    BY <2>3, <1>5, <1>6 DEF InHand, skips
  <2>5. t[3] # "norm"
    BY <1>1, <1>2, <1>5, <1>9
  <2> QED BY <2>2, <2>4, <2>5, <1>7, <1>9 DEF k
<1>10. CASE k = "ep"
  <2>1. "tensor" \notin L /\ "tp" \notin L /\ "ep" \in L
    BY <1>1, <1>3, <1>10
  <2>2. h = <<Full(j, t)>>
    BY <2>1, <1>1, <1>5 DEF InHand, skips
  <2>3. "tensor" \notin M /\ "tp" \notin M /\ "ep" \notin M
    BY <2>1, <1>1, <1>10
  <2>4. Complete(j, t) = InHand(j, r, t, M)
    BY <2>3, <1>5 DEF InHand, skips
  <2>5. Spread(j, t)
    BY <2>1, <1>1, <1>2, <1>5
  <2> QED BY <2>2, <2>4, <2>5, <1>7, <1>10 DEF k
<1> QED BY <1>8, <1>9, <1>10 DEF k

LEMMA HandAtEnd ==
    ASSUME NEW j, NEW r, NEW t, NEW h, HeldIs(j, r, t, <<>>, h)
    PROVE  h \in {NoTensor, Complete(j, t)}
<1>1. Left(j, t, <<>>) = {}
  BY OneInTurn DEF Left, Kinds
<1>2. h = InHand(j, r, t, {})
  BY <1>1 DEF HeldIs
<1> QED BY <1>2 DEF InHand, Own

-----------------------------------------------------------------------------
(* What is in hand is what the collectives entered so far make of the       *)
(* shards, and what is kept to be written is what the source had.           *)

Faithful(b) == \A n \in DOMAIN b : b[n] = Reference(n)
Restored(d) == \A f \in Files : \A n \in DOMAIN d[f] : d[f][n] \in {Reference(n), Old}

RoundInv ==
    /\ MeetInv
    /\ LoadInv
    /\ held = [r \in Ranks(job) |-> held[r]]
    /\ buffer = [r \in Ranks(job) |-> buffer[r]]
    /\ \A r \in Ranks(job) : stage[r] = "export" /\ position[r] <= TaskCount =>
           HeldIs(job, r, TaskOf(r), todo[r], held[r])
    /\ \A r \in Ranks(job) : Faithful(buffer[r])
    /\ Restored(disk)

\* A step that keeps what RoundInv says of tensors.
Carries ==
    /\ job' = job
    /\ held' = [r \in Ranks(job) |-> held'[r]]
    /\ buffer' = [r \in Ranks(job) |-> buffer'[r]]
    /\ \A r \in Ranks(job) : stage'[r] = "export" /\ position'[r] <= TaskCount =>
           HeldIs(job, r, Tasks(job, r)[position'[r]], todo'[r], held'[r])
    /\ \A r \in Ranks(job) : Faithful(buffer'[r])
    /\ Restored(disk')

LEMMA RoundInit == Init => RoundInv
<1> SUFFICES ASSUME Init PROVE RoundInv
  OBVIOUS
<1>1. MeetInv /\ LoadInv
  BY MeetInit, LoadInit
<1>2. /\ \A r \in Ranks(job) : stage[r] = "load"
      /\ held = [r \in Ranks(job) |-> NoTensor] /\ buffer = [r \in Ranks(job) |-> Nothing]
      /\ disk = [f \in Files |-> IF f \in job.leftover THEN [n \in NamesIn(job, f) |-> Old]
                                 ELSE Nothing]
  BY DEF Init
<1>3. Faithful(Nothing)
  BY DEF Faithful, Nothing
<1>4. Restored(disk)
  <2> SUFFICES ASSUME NEW f \in Files, NEW n \in DOMAIN disk[f] PROVE disk[f][n] = Old
    BY DEF Restored
  <2>1. CASE f \in job.leftover
    BY <2>1, <1>2
  <2>2. CASE f \notin job.leftover
    BY <2>2, <1>2 DEF Nothing
  <2> QED BY <2>1, <2>2
<1> QED BY <1>1, <1>2, <1>3, <1>4 DEF RoundInv

LEMMA TaskIs ==
    ASSUME job \in Jobs, NEW r \in Ranks(job), InPlace(r), position[r] <= TaskCount
    PROVE  /\ position[r] \in 1 .. TaskCount /\ TaskCount \in Nat
           /\ TaskOf(r) \in NamesOf(job, r[2])
           /\ FirstTasks(job)[position[r]] \in NamesOf(job, 0)
           /\ TaskOf(r) = Shift(job, FirstTasks(job)[position[r]], r[2])
<1> DEFINE i == position[r]
<1>1. TaskCount \in Nat /\ TaskCount = Len(FirstTasks(job)) /\ Len(Tasks(job, r)) = TaskCount
  BY TasksInOrder DEF TaskCount
<1>2. i \in 1 .. TaskCount
  <2>1. i \in 1 .. TaskCount + 1 /\ i <= TaskCount
    BY DEF InPlace
  <2> HIDE DEF i
  <2> QED BY <1>1, <2>1
<1> HIDE DEF i
<1>3. /\ FirstTasks(job)[i] \in NamesOf(job, 0)
      /\ Tasks(job, r)[i] \in NamesOf(job, r[2])
      /\ Tasks(job, r)[i] = Shift(job, FirstTasks(job)[i], r[2])
  BY <1>1, <1>2, TasksInOrder
<1> QED BY <1>1, <1>2, <1>3 DEF TaskOf, i

\* A rank starts a task with its shard as it was loaded, if the task is on its own
\* parameter.
LEMMA HandAtTask ==
    ASSUME LoadInv, NEW r \in Ranks(job), stage[r] # "load", NEW i \in 1 .. TaskCount
    PROVE  HeldIs(job, r, Tasks(job, r)[i], TodoAt(job, r, i), HeldAt(job, r, i))
<1> DEFINE t == Tasks(job, r)[i]
<1>1. job \in Jobs
  BY DEF LoadInv, Shape
<1>2. TaskCount \in Nat /\ TaskCount = Len(FirstTasks(job)) /\ Len(Tasks(job, r)) = TaskCount
  BY <1>1, TasksInOrder DEF TaskCount
<1>3. t \in NamesOf(job, r[2])
  BY <1>1, <1>2, TasksInOrder
<1>4. TodoAt(job, r, i) = StartOf(job, r, t)
  BY <1>2 DEF TodoAt
<1>5. HeldAt(job, r, i) = IF Owns(job, r, t) THEN <<param[r][t]>> ELSE NoTensor
  BY <1>2 DEF HeldAt
<1> HIDE DEF t
<1>6. Owns(job, r, t) => param[r][t] = Shard(job, t, r[3])
  <2> HAVE Owns(job, r, t)
  <2>1. PICK k \in 1 .. Len(LoadTasks(job, r)) : LoadTasks(job, r)[k] = t
    BY <1>1, <1>3, LoadTasksAre
  <2> QED BY <2>1 DEF LoadInv, OwnShard
<1>7. HeldAt(job, r, i) = Own(job, r, t)
  BY <1>5, <1>6 DEF Own
<1>8. HeldIs(job, r, t, StartOf(job, r, t), Own(job, r, t))
  BY <1>1, <1>3, HeldAtStart
<1> QED BY <1>4, <1>7, <1>8 DEF t

\* A file that is written has the tensors of the buffer.
LEMMA WrittenBack ==
    ASSUME NEW d, Restored(d), NEW b, Faithful(b), NEW fs
    PROVE  Restored(Written(job, d, fs, b))
<1> DEFINE w == Written(job, d, fs, b)
<1> SUFFICES ASSUME NEW f \in Files, NEW n \in DOMAIN w[f] PROVE w[f][n] \in {Reference(n), Old}
  BY DEF Restored
<1>1. CASE f \in fs
  <2> DEFINE S == NamesIn(job, f) \cap DOMAIN b
  <2>1. w[f] = [x \in S |-> b[x]]
    BY <1>1 DEF Written, Restrict
  <2>2. S \subseteq DOMAIN b
    OBVIOUS
  <2> HIDE DEF w, S
  <2>3. w[f][n] = b[n] /\ n \in DOMAIN b
    BY <2>1, <2>2
  <2> QED BY <2>3 DEF Faithful
<1>2. CASE f \notin fs
  <2>1. w[f] = d[f]
    BY <1>2 DEF Written
  <2> HIDE DEF w
  <2> QED BY <2>1 DEF Restored
<1> QED BY <1>1, <1>2

LEMMA RoundLoad ==
    ASSUME RoundInv, \E r \in Ranks(job) : Load(r) \/ FinishLoad(r) \/ ShareEmbedding(r)
    PROVE  Carries
<1>1. job' = job /\ held' = held /\ buffer' = buffer /\ disk' = disk
  BY DEF Load, FinishLoad, ShareEmbedding, output
<1>2. /\ stage = [s \in Ranks(job) |-> stage[s]]
      /\ Exporting \/ \A s \in Ranks(job) : stage[s] \in Loading
  BY DEF RoundInv, MeetInv
<1>3. PICK r \in Ranks(job) : Load(r) \/ FinishLoad(r) \/ ShareEmbedding(r)
  OBVIOUS
<1>4. \E s \in Ranks(job) : stage[s] \in {"load", "share"}
  <2>1. CASE Load(r)
    BY <2>1, GroupsPart DEF Load
  <2>2. CASE FinishLoad(r)
    BY <2>2 DEF FinishLoad
  <2>3. CASE ShareEmbedding(r)
    BY <2>3 DEF ShareEmbedding
  <2> QED BY <1>3, <2>1, <2>2, <2>3
<1>5. \A s \in Ranks(job) : stage[s] \in Loading
  BY <1>2, <1>4 DEF Exporting, Loading
<1>6. \A s \in Ranks(job) : stage'[s] \in Loading
  <2>1. CASE Load(r)
    BY <2>1, <1>5 DEF Load
  <2>2. CASE FinishLoad(r)
    <3>1. \E x \in {"share", "loaded"} : stage' = [stage EXCEPT ![r] = x]
      BY <2>2 DEF FinishLoad
    <3> QED BY <3>1, <1>2, <1>5 DEF Loading
  <2>3. CASE ShareEmbedding(r)
    <3>1. \E q : stage' = [stage EXCEPT ![r] = "loaded", ![q] = "loaded"]
      BY <2>3 DEF ShareEmbedding
    <3> QED BY <3>1, <1>2, <1>5 DEF Loading
  <2> QED BY <1>3, <2>1, <2>2, <2>3
<1>7. \A s \in Ranks(job) : stage'[s] # "export"
  BY <1>6 DEF Loading
<1> QED BY <1>1, <1>7 DEF RoundInv, Carries

LEMMA RoundStart ==
    ASSUME RoundInv, StartExport
    PROVE  Carries
<1>1. /\ job' = job /\ buffer' = buffer /\ disk' = disk
      /\ \A r \in Ranks(job) : stage[r] = "loaded"
      /\ position' = [r \in Ranks(job) |-> 1]
      /\ todo' = [r \in Ranks(job) |-> TodoAt(job, r, 1)]
      /\ held' = [r \in Ranks(job) |-> HeldAt(job, r, 1)]
  BY DEF StartExport, output
<1>2. job \in Jobs /\ LoadInv
  BY DEF RoundInv, MeetInv
<1>3. TaskCount \in Nat
  BY <1>2, SomeRank, TasksInOrder DEF TaskCount
<1>4. ASSUME NEW r \in Ranks(job), position'[r] <= TaskCount
      PROVE  HeldIs(job, r, Tasks(job, r)[position'[r]], todo'[r], held'[r])
  <2>1. position'[r] = 1 /\ todo'[r] = TodoAt(job, r, 1) /\ held'[r] = HeldAt(job, r, 1)
    BY <1>1
  <2>2. 1 \in 1 .. TaskCount /\ stage[r] # "load"
    BY <1>1, <1>3, <1>4, <2>1
  <2> QED BY <1>2, <2>1, <2>2, HandAtTask
<1>5. held' = [r \in Ranks(job) |-> held'[r]]
  BY <1>1
<1> QED BY <1>1, <1>4, <1>5 DEF RoundInv, Carries

LEMMA RoundEnd ==
    ASSUME RoundInv,
           \/ \E r \in Ranks(job) : EndAlone(r) \/ WriteAssigned(r)
           \/ AgreeOnStatus
           \/ Leave
    PROVE  Carries
<1>1. job' = job /\ held' = held /\ buffer' = buffer /\ todo' = todo /\ position' = position
  BY DEF EndAlone, WriteAssigned, AgreeOnStatus, Leave, output
<1>2. stage = [s \in Ranks(job) |-> stage[s]]
  BY DEF RoundInv, MeetInv
<1>3. \A s \in Ranks(job) : stage'[s] = "export" => stage[s] = "export"
  <2>1. ASSUME NEW r \in Ranks(job), EndAlone(r) \/ WriteAssigned(r)
        PROVE  <1>3
    <3>1. \E x \in {"failed", "barrier", "status"} : stage' = [stage EXCEPT ![r] = x]
      BY <2>1 DEF EndAlone, WriteAssigned
    <3> QED BY <3>1, <1>2
  <2>2. CASE AgreeOnStatus \/ Leave
    <3>1. \E x \in {"failed", "barrier", "done"} : stage' = [s \in Ranks(job) |-> x]
      BY <2>2 DEF AgreeOnStatus, Leave
    <3> QED BY <3>1
  <2> QED BY <2>1, <2>2
<1>4. Restored(disk')
  <2>1. ASSUME NEW r \in Ranks(job), EndAlone(r) \/ WriteAssigned(r)
        PROVE  Restored(disk')
    <3>1. \E fs : disk' = Written(job, disk, fs, buffer[r])
      BY <2>1 DEF EndAlone, WriteAssigned
    <3> QED BY <3>1, WrittenBack DEF RoundInv
  <2>2. CASE AgreeOnStatus \/ Leave
    BY <2>2 DEF AgreeOnStatus, Leave, output, RoundInv
  <2> QED BY <2>1, <2>2
<1>5. \A s \in Ranks(job) : TaskOf(s) = Tasks(job, s)[position[s]]
  BY DEF TaskOf
<1> QED BY <1>1, <1>3, <1>4, <1>5 DEF RoundInv, Carries

\* What a rank that waits in a collective has in hand, and will have.
LEMMA HandOf ==
    ASSUME RoundInv, Exporting, NEW r \in Ranks(job), stage[r] = "export", todo[r] # <<>>
    PROVE  LET t   == TaskOf(r)
               new == Rest(job, t, todo[r])
           IN  /\ job \in Jobs /\ position[r] \in 1 .. TaskCount
               /\ t \in NamesOf(job, r[2])
               /\ t = Shift(job, FirstTasks(job)[position[r]], r[2])
               /\ FirstTasks(job)[position[r]] \in NamesOf(job, 0)
               /\ Head(todo[r]) \notin {"tensor", "tp", "ep"} => HeldIs(job, r, t, new, held[r])
               /\ Head(todo[r]) = "tensor" =>
                     /\ held[r] = Own(job, r, t)
                     /\ HeldIs(job, r, t, new, <<Shard(job, t, r[3])>>)
               /\ Head(todo[r]) = "tp" =>
                     /\ held[r] = <<Shard(job, t, r[3])>> /\ t[3] \in WeightNames \ {"norm"}
                     /\ HeldIs(job, r, t, new, <<Full(job, t)>>)
               /\ Head(todo[r]) = "ep" =>
                     /\ held[r] = <<Full(job, t)>> /\ Spread(job, t)
                     /\ HeldIs(job, r, t, new, Complete(job, t))
<1> DEFINE t == TaskOf(r)
<1>1. job \in Jobs /\ InPlace(r)
  BY DEF RoundInv, MeetInv, Places
<1>2. position[r] <= TaskCount
  BY <1>1 DEF InPlace
<1>3. /\ position[r] \in 1 .. TaskCount /\ t \in NamesOf(job, r[2])
      /\ FirstTasks(job)[position[r]] \in NamesOf(job, 0)
      /\ t = Shift(job, FirstTasks(job)[position[r]], r[2])
  BY <1>1, <1>2, TaskIs
<1>4. HeldIs(job, r, t, todo[r], held[r])
  BY <1>2 DEF RoundInv
<1>5. t[3] \in WeightNames
  <2>1. r[2] \in 0 .. job.ep - 1
    BY DEF Ranks
  <2> QED BY <2>1, <1>1, <1>3, NameIs
<1> HIDE DEF t
<1> QED BY <1>1, <1>3, <1>4, <1>5, HandKept, HandReceives DEF t

\* A collective that every member of its group g leaves with what it should have in hand.
LEMMA RoundCollective ==
    ASSUME RoundInv, NEW g,
           job' = job, stage' = stage, position' = position, output' = output,
           todo' = [s \in Ranks(job) |->
                       IF s \in g THEN Rest(job, TaskOf(s), todo[s]) ELSE todo[s]],
           held' = [s \in Ranks(job) |-> held'[s]],
           \A s \in Ranks(job) : s \notin g => held'[s] = held[s],
           \A s \in g : HeldIs(job, s, TaskOf(s), Rest(job, TaskOf(s), todo[s]), held'[s])
    PROVE  Carries
<1>1. buffer' = buffer /\ disk' = disk
  BY DEF output
<1>2. ASSUME NEW s \in Ranks(job), stage[s] = "export", position[s] <= TaskCount
      PROVE  HeldIs(job, s, TaskOf(s), todo'[s], held'[s])
  <2>1. CASE s \in g
    <3>1. todo'[s] = Rest(job, TaskOf(s), todo[s])
      BY <2>1
    <3> QED BY <2>1, <3>1
  <2>2. CASE s \notin g
    <3>1. todo'[s] = todo[s] /\ held'[s] = held[s]
      BY <2>2
    <3> QED BY <3>1, <1>2 DEF RoundInv
  <2> QED BY <2>1, <2>2
<1>3. \A s \in Ranks(job) : TaskOf(s) = Tasks(job, s)[position'[s]]
  BY DEF TaskOf
<1> QED BY <1>1, <1>2, <1>3 DEF RoundInv, Carries

LEMMA RoundStage ==
    ASSUME RoundInv, NEW lead \in Ranks(job), StageCollective(lead)
    PROVE  Carries
<1> DEFINE g == GroupOf(job, lead, "pp")
           k == Head(todo[lead])
           o == FirstOwner(g)
<1>1. job' = job /\ position' = position /\ output' = output
  BY DEF StageCollective, output
<1>2. /\ job \in Jobs /\ Exporting /\ lead \in g /\ g \subseteq Ranks(job)
      /\ k \in OfStage
      /\ \A s \in g : /\ stage[s] = "export" /\ todo[s] # <<>>
                      /\ Head(todo[s]) = k /\ TaskOf(s) = TaskOf(lead) /\ s[3] = lead[3]
  BY StageMeets DEF RoundInv
<1>3. held = [s \in Ranks(job) |-> held[s]]
  BY DEF RoundInv
<1>4. CASE Owners(g) = {}
  <2>1. /\ stage' = [s \in Ranks(job) |-> IF s \in g THEN "failed" ELSE stage[s]]
        /\ todo' = todo /\ held' = held
    BY <1>4 DEF StageCollective
  <2>2. \A s \in Ranks(job) : stage'[s] = "export" => stage[s] = "export"
    BY <2>1
  <2>3. \A s \in Ranks(job) : TaskOf(s) = Tasks(job, s)[position'[s]]
    BY <1>1 DEF TaskOf
  <2> QED BY <1>1, <2>1, <2>2, <2>3 DEF RoundInv, Carries, output
<1>5. CASE Owners(g) # {}
  <2>1. /\ stage' = stage
        /\ todo' = [s \in Ranks(job) |->
                       IF s \notin g THEN todo[s]
                       ELSE IF Head(todo[s]) = "type" THEN AfterType(job, TaskOf(o))
                       ELSE Tail(todo[s])]
        /\ held' = [s \in Ranks(job) |->
                       IF s \in g /\ Head(todo[s]) = "tensor" THEN held[o] ELSE held[s]]
    BY <1>5 DEF StageCollective
  <2>2. o \in g /\ Owns(job, o, TaskOf(o)) /\ o \in Ranks(job)
    BY <1>2, <1>5, SomeOwner DEF Owners
  <2> HIDE DEF g, k, o
  <2>3. todo' = [s \in Ranks(job) |->
                    IF s \in g THEN Rest(job, TaskOf(s), todo[s]) ELSE todo[s]]
    BY <1>2, <2>1, <2>2 DEF Rest
  <2>4. ASSUME NEW s \in g
        PROVE  HeldIs(job, s, TaskOf(s), Rest(job, TaskOf(s), todo[s]), held'[s])
    <3>1. s \in Ranks(job) /\ stage[s] = "export" /\ todo[s] # <<>> /\ Head(todo[s]) = k
      BY <1>2
    <3>2. CASE k = "tensor"
      <4>1. held'[s] = held[o]
        BY <2>1, <3>1, <3>2
      <4>2. held[o] = Own(job, o, TaskOf(o))
        BY <1>2, <2>2, <3>2, HandOf
      <4>3. held[o] = <<Shard(job, TaskOf(s), s[3])>>
        BY <1>2, <2>2, <4>2 DEF Own
      <4> QED BY <1>2, <3>1, <3>2, <4>1, <4>3, HandOf
    <3>3. CASE k # "tensor"
      <4>1. held'[s] = held[s]
        BY <2>1, <3>1, <3>3
      <4>2. k \notin {"tensor", "tp", "ep"}
        BY <1>2, <3>3 DEF OfStage, OfObject
      <4> QED BY <1>2, <3>1, <4>1, <4>2, HandOf
    <3> QED BY <3>2, <3>3
  <2>5. \A s \in Ranks(job) : s \notin g => held'[s] = held[s]
    BY <2>1
  <2>6. held' = [s \in Ranks(job) |-> held'[s]]
    BY <2>1
  <2> QED BY <1>1, <2>1, <2>3, <2>4, <2>5, <2>6, RoundCollective
<1> QED BY <1>4, <1>5

LEMMA RoundShards ==
    ASSUME RoundInv, NEW lead \in Ranks(job), GatherShards(lead)
    PROVE  Carries
<1> DEFINE g == GroupOf(job, lead, "tp")
           at(i) == <<lead[1], lead[2], i>>
           shards == [i \in 0 .. job.tp - 1 |-> held[at(i)][1]]
           t == TaskOf(lead)
<1>1. /\ job' = job /\ stage' = stage /\ position' = position /\ output' = output
      /\ AllEnter(g, {"tp"})
      /\ held' = [s \in Ranks(job) |-> IF s \in g THEN <<Gathered(TaskOf(s), shards, job.tp)>>
                                       ELSE held[s]]
      /\ todo' = [s \in Ranks(job) |-> IF s \in g THEN Tail(todo[s]) ELSE todo[s]]
  BY DEF GatherShards, output
<1>2. /\ job \in Jobs /\ Exporting /\ lead \in g /\ g \subseteq Ranks(job)
      /\ \A s \in g : /\ stage[s] = "export" /\ todo[s] # <<>> /\ Head(todo[s]) = "tp"
                      /\ position[s] = position[lead]
  BY <1>1, GroupMeets DEF RoundInv
<1>3. \A s \in g : TaskOf(s) = t
  <2>1. \A s \in g : s[2] = lead[2]
    BY DEF GroupOf
  <2> QED BY <2>1, <1>2 DEF TaskOf, Tasks
<1>4. \A i \in 0 .. job.tp - 1 : at(i) \in g /\ at(i)[3] = i
  BY DEF GroupOf, Ranks
<1> HIDE DEF g, t, at
<1>5. ASSUME NEW i \in 0 .. job.tp - 1
      PROVE  held[at(i)][1] = Shard(job, t, i)
  <2>1. \A s \in g : held[s] = <<Shard(job, t, s[3])>>
    BY <1>2, <1>3, HandOf
  <2>2. held[at(i)] = <<Shard(job, t, i)>>
    BY <1>4, <2>1
  <2> QED BY <2>2
<1>6. shards = [i \in 0 .. job.tp - 1 |-> Shard(job, t, i)]
  BY <1>5
<1> HIDE DEF shards
<1>7. t[3] \in WeightNames \ {"norm"}
  BY <1>2, HandOf DEF t
<1>8. Gathered(t, shards, job.tp) = Full(job, t)
  BY <1>2, <1>6, <1>7, FullOfShards
<1>9. ASSUME NEW s \in g
      PROVE  HeldIs(job, s, TaskOf(s), Rest(job, TaskOf(s), todo[s]), held'[s])
  <2>1. held'[s] = <<Full(job, TaskOf(s))>>
    BY <1>1, <1>2, <1>3, <1>8
  <2> QED BY <1>2, <2>1, HandOf
<1>10. \A s \in Ranks(job) : s \notin g => held'[s] = held[s]
  BY <1>1
<1>11. held' = [s \in Ranks(job) |-> held'[s]]
  BY <1>1
<1>12. todo' = [s \in Ranks(job) |->
                   IF s \in g THEN Rest(job, TaskOf(s), todo[s]) ELSE todo[s]]
  BY <1>1, <1>2 DEF Rest
<1> QED BY <1>1, <1>9, <1>10, <1>11, <1>12, RoundCollective

\* The i-th member of an expert-parallel group works on the peer of the others' experts.
LEMMA PeerIs ==
    ASSUME NEW j \in Jobs, NEW a \in NamesOf(j, 0), a[3] = "experts",
           NEW e \in 0 .. j.ep - 1, NEW i \in 1 .. j.ep
    PROVE  Peer(j, Shift(j, a, e), i) = Shift(j, a, i - 1)
<1> DEFINE E == ExpertsPerRank(j)
<1>1. PICK p \in 0 .. j.pp - 1 : a \in Params(j, p, 0)
  BY NamesAre
<1>2. OfExpert(j, p, 0, a)
  <2>1. OfEnds(j, p, a) \/ OfLayer(j, p, a) \/ OfExpert(j, p, 0, a)
    BY <1>1, ParamsAre
  <2> QED BY <2>1 DEF OfEnds, OfLayer, Embedding, Output
<1>3. PICK x \in 0 .. E - 1 : a = <<Layers - 1, 0 * E + x, "experts">>
  BY <1>2 DEF OfExpert
<1>4. E \in Nat /\ j.ep \in Nat \ {0} /\ x \in Nat /\ x < E /\ a[2] = x
  <2>1. E \in Nat /\ j.ep \in Nat \ {0} /\ 0 * E = 0
    BY JobSizes
  <2> QED BY <2>1, <1>3
<1>5. Shift(j, a, e) = <<a[1], x + e * E, a[3]>> /\ Shift(j, a, i - 1) = <<a[1], x + (i - 1) * E, a[3]>>
  BY <1>4 DEF Shift
<1> HIDE DEF E
<1>6. (x + e * E) % E = x
  <2>1. E \in Nat \ {0} /\ e \in Nat /\ x \in 0 .. E - 1
    BY <1>4
  <2>2. (E * e + x) % E = x
    BY <2>1, Quotient
  <2>3. x + e * E = E * e + x
    BY <2>1
  <2> QED BY <2>2, <2>3
<1>7. E * (i - 1) = (i - 1) * E /\ (i - 1) * E \in Int
  BY <1>4
<1>8. Peer(j, Shift(j, a, e), i) = <<a[1], x + E * (i - 1), "experts">>
  BY <1>5, <1>6 DEF Peer, E
<1> QED BY <1>5, <1>7, <1>8

LEMMA RoundExperts ==
    ASSUME RoundInv, NEW lead \in Ranks(job), GatherExperts(lead)
    PROVE  Carries
<1> DEFINE g == GroupOf(job, lead, "ep")
           at(i) == <<lead[1], i - 1, lead[3]>>
           all == [i \in 1 .. job.ep |-> held[at(i)][1]]
           a == FirstTasks(job)[position[lead]]
<1>1. /\ job' = job /\ stage' = stage /\ position' = position /\ output' = output
      /\ AllEnter(g, {"ep"})
      /\ held' = [s \in Ranks(job) |-> IF s \in g THEN all ELSE held[s]]
      /\ todo' = [s \in Ranks(job) |-> IF s \in g THEN Tail(todo[s]) ELSE todo[s]]
  BY DEF GatherExperts, output
<1>2. /\ job \in Jobs /\ Exporting /\ lead \in g /\ g \subseteq Ranks(job)
      /\ \A s \in g : /\ stage[s] = "export" /\ todo[s] # <<>> /\ Head(todo[s]) = "ep"
                      /\ position[s] = position[lead]
  BY <1>1, GroupMeets DEF RoundInv
<1>3. \A i \in 1 .. job.ep : at(i) \in g /\ at(i)[2] = i - 1
  <2>1. job.ep \in Nat
    BY <1>2, JobSizes
  <2> QED BY <2>1 DEF GroupOf, Ranks
<1>4. \A s \in g : s[2] \in 0 .. job.ep - 1
  BY DEF GroupOf, Ranks
<1> HIDE DEF g, at
<1>5. ASSUME NEW s \in g
      PROVE  /\ TaskOf(s) = Shift(job, a, s[2]) /\ a \in NamesOf(job, 0)
             /\ held[s] = <<Full(job, TaskOf(s))>> /\ Spread(job, TaskOf(s))
             /\ HeldIs(job, s, TaskOf(s), Rest(job, TaskOf(s), todo[s]), Complete(job, TaskOf(s)))
  BY <1>2, HandOf
<1> HIDE DEF a
<1>6. a \in NamesOf(job, 0) /\ a[3] = "experts"
  BY <1>2, <1>5 DEF Shift, Spread
<1>7. \A i \in 1 .. job.ep : held[at(i)][1] = Full(job, Shift(job, a, i - 1))
  BY <1>3, <1>5
<1>8. ASSUME NEW s \in g
      PROVE  all = Complete(job, TaskOf(s))
  <2>1. Complete(job, TaskOf(s)) = [i \in 1 .. job.ep |-> Full(job, Peer(job, TaskOf(s), i))]
    BY <1>5 DEF Complete
  <2>2. \A i \in 1 .. job.ep : Peer(job, TaskOf(s), i) = Shift(job, a, i - 1)
    BY <1>2, <1>4, <1>5, <1>6, PeerIs
  <2> QED BY <2>1, <2>2, <1>7
<1> HIDE DEF all
<1>9. \A s \in g : HeldIs(job, s, TaskOf(s), Rest(job, TaskOf(s), todo[s]), held'[s])
  BY <1>1, <1>2, <1>5, <1>8
<1>10. \A s \in Ranks(job) : s \notin g => held'[s] = held[s]
  BY <1>1
<1>11. held' = [s \in Ranks(job) |-> held'[s]]
  BY <1>1
<1>12. todo' = [s \in Ranks(job) |->
                   IF s \in g THEN Rest(job, TaskOf(s), todo[s]) ELSE todo[s]]
  BY <1>1, <1>2 DEF Rest
<1> QED BY <1>1, <1>9, <1>10, <1>11, <1>12, RoundCollective

LEMMA RoundConsume ==
    ASSUME RoundInv, NEW r \in Ranks(job), Consume(r)
    PROVE  Carries
<1> DEFINE t == TaskOf(r)
           new == Converted(job, t, held[r])
           kept == {n \in DOMAIN new \cap Expected(job) : FileOf(n) \in Assigned(job, r)}
           b == [n \in kept \cup DOMAIN buffer[r] |-> IF n \in kept THEN new[n] ELSE buffer[r][n]]
           full == IF job.dist THEN {}
                   ELSE {f \in {FileOf(n) : n \in kept} : NamesIn(job, f) \subseteq DOMAIN b}
           rest == {n \in DOMAIN b : FileOf(n) \notin full}
           p == position[r]
<1>1. /\ job' = job /\ stage[r] = "export" /\ p <= Len(Tasks(job, r)) /\ todo[r] = <<>>
      /\ \/ /\ stage' = [stage EXCEPT ![r] = "failed"]
            /\ UNCHANGED <<position, todo, held, disk, buffer>>
         \/ /\ stage' = stage
            /\ disk' = Written(job, disk, full, b)
            /\ buffer' = [buffer EXCEPT ![r] = Restrict(b, rest)]
            /\ NextTask(r)
  BY DEF Consume
<1>2. /\ job \in Jobs /\ stage = [s \in Ranks(job) |-> stage[s]]
      /\ position = [s \in Ranks(job) |-> position[s]] /\ todo = [s \in Ranks(job) |-> todo[s]]
      /\ held = [s \in Ranks(job) |-> held[s]] /\ buffer = [s \in Ranks(job) |-> buffer[s]]
      /\ LoadInv
  BY DEF RoundInv, MeetInv
<1>3. \A s \in Ranks(job) : TaskOf(s) = Tasks(job, s)[position[s]]
  BY DEF TaskOf
<1>4. CASE /\ stage' = [stage EXCEPT ![r] = "failed"]
           /\ UNCHANGED <<position, todo, held, disk, buffer>>
  <2>1. \A s \in Ranks(job) : stage'[s] = "export" => stage[s] = "export"
    BY <1>2, <1>4
  <2> QED BY <1>1, <1>3, <1>4, <2>1 DEF RoundInv, Carries
<1>5. CASE /\ stage' = stage
           /\ disk' = Written(job, disk, full, b)
           /\ buffer' = [buffer EXCEPT ![r] = Restrict(b, rest)]
           /\ NextTask(r)
  <2>1. /\ InPlace(r) /\ p <= TaskCount
    <3>1. Exporting
      BY <1>1 DEF RoundInv, MeetInv, Loading
    <3>2. Len(Tasks(job, r)) = TaskCount
      BY <1>2, TasksInOrder DEF TaskCount
    <3> QED BY <1>1, <3>1, <3>2 DEF RoundInv, MeetInv, Places
  <2>2. p \in 1 .. TaskCount /\ TaskCount \in Nat /\ t \in NamesOf(job, r[2])
    BY <1>2, <2>1, TaskIs
  <2>3. held[r] \in {NoTensor, Complete(job, t)}
    <3>1. HeldIs(job, r, t, todo[r], held[r])
      BY <1>1, <2>1 DEF RoundInv
    <3> HIDE DEF t
    <3> QED BY <1>1, <3>1, HandAtEnd
  <2>4. \A n \in DOMAIN new : new[n] = Reference(n)
    <3>1. r[2] \in 0 .. job.ep - 1
      BY DEF Ranks
    <3> HIDE DEF t
    <3> QED BY <1>2, <2>2, <2>3, <3>1, ConvertedBack
  <2>5. kept \subseteq DOMAIN new
    OBVIOUS
  <2>6. Faithful(buffer[r])
    BY DEF RoundInv
  <2>7. b = [n \in kept \cup DOMAIN buffer[r] |-> IF n \in kept THEN new[n] ELSE buffer[r][n]]
        /\ rest \subseteq DOMAIN b
    OBVIOUS
  <2> HIDE DEF new, kept, b, full, rest, t, p
  <2>8. Faithful(b)
    BY <2>4, <2>5, <2>6, <2>7 DEF Faithful
  <2>9. Faithful(Restrict(b, rest))
    BY <2>7, <2>8 DEF Faithful, Restrict
  <2>10. Restored(disk')
    BY <1>5, <2>8, WrittenBack DEF RoundInv
  <2>11. /\ buffer' = [s \in Ranks(job) |-> buffer'[s]]
         /\ \A s \in Ranks(job) : Faithful(buffer'[s])
    <3>1. \A s \in Ranks(job) : buffer'[s] = IF s = r THEN Restrict(b, rest) ELSE buffer[s]
      BY <1>2, <1>5
    <3> QED BY <1>2, <1>5, <2>9, <3>1 DEF RoundInv
  <2>12. /\ position' = [position EXCEPT ![r] = p + 1]
         /\ todo' = [todo EXCEPT ![r] = TodoAt(job, r, p + 1)]
         /\ held' = [held EXCEPT ![r] = HeldAt(job, r, p + 1)]
    BY <1>5 DEF NextTask, p
  <2>13. ASSUME NEW s \in Ranks(job), stage'[s] = "export", position'[s] <= TaskCount
         PROVE  HeldIs(job, s, Tasks(job, s)[position'[s]], todo'[s], held'[s])
    <3>1. CASE s = r
      <4>1. position'[s] = p + 1 /\ todo'[s] = TodoAt(job, r, p + 1) /\ held'[s] = HeldAt(job, r, p + 1)
        BY <3>1, <1>2, <2>12
      <4>2. p + 1 \in 1 .. TaskCount /\ stage[r] # "load"
        BY <1>1, <2>2, <2>13, <4>1
      <4> QED BY <1>2, <3>1, <4>1, <4>2, HandAtTask
    <3>2. CASE s # r
      <4>1. position'[s] = position[s] /\ todo'[s] = todo[s] /\ held'[s] = held[s]
        BY <3>2, <1>2, <2>12
      <4> QED BY <1>3, <1>5, <2>13, <4>1 DEF RoundInv
    <3> QED BY <3>1, <3>2
  <2>14. held' = [s \in Ranks(job) |-> held'[s]]
    BY <1>2, <2>12
  <2> QED BY <1>1, <2>10, <2>11, <2>13, <2>14 DEF Carries
<1> QED BY <1>1, <1>4, <1>5

LEMMA RoundStep == ExpertsAlike /\ RoundInv /\ [Next]_vars => RoundInv'
<1> SUFFICES ASSUME ExpertsAlike, RoundInv, [Next]_vars PROVE RoundInv'
  OBVIOUS
<1>1. MeetInv' /\ LoadInv'
  BY MeetStep, LoadStep DEF RoundInv
<1>2. Carries
  <2>1. CASE \E r \in Ranks(job) : Load(r) \/ FinishLoad(r) \/ ShareEmbedding(r)
    BY <2>1, RoundLoad
  <2>2. CASE StartExport
    BY <2>2, RoundStart
  <2>3. CASE \E r \in Ranks(job) : StageCollective(r) \/ GatherShards(r) \/ GatherExperts(r)
    BY <2>3, RoundStage, RoundShards, RoundExperts
  <2>4. CASE \E r \in Ranks(job) : Consume(r)
    BY <2>4, RoundConsume
  <2>5. CASE (\E r \in Ranks(job) : EndAlone(r) \/ WriteAssigned(r)) \/ AgreeOnStatus \/ Leave
    BY <2>5, RoundEnd
  <2>6. CASE UNCHANGED vars
    <3>1. /\ job' = job /\ stage' = stage /\ position' = position /\ todo' = todo
          /\ held' = held /\ buffer' = buffer /\ disk' = disk
      BY <2>6 DEF vars, output
    <3>2. \A s \in Ranks(job) : TaskOf(s) = Tasks(job, s)[position[s]]
      BY DEF TaskOf
    <3> QED BY <3>1, <3>2 DEF RoundInv, Carries
  <2> QED BY <2>1, <2>2, <2>3, <2>4, <2>5, <2>6 DEF Next
<1>3. /\ \A n : Reference(n)' = Reference(n)
      /\ TaskCount' = TaskCount
      /\ \A r : TaskOf(r)' = Tasks(job, r)[position'[r]]
  BY <1>2 DEF Carries, Reference, TaskCount, TaskOf
<1>4. \A r \in Ranks(job) : Faithful(buffer[r])' <=> Faithful(buffer'[r])
  BY <1>3 DEF Faithful
<1>5. Restored(disk)' <=> Restored(disk')
  BY <1>3 DEF Restored
<1> QED BY <1>1, <1>2, <1>3, <1>4, <1>5 DEF RoundInv, Carries

\* Every tensor that an export writes is the tensor the source had under its name, for
\* every architecture, all heads, groups and sizes, every number of pipeline stages and of
\* tensor-parallel and expert-parallel ranks, whoever owns a weight and in whatever order
\* the ranks go on: scatter, broadcast, gather, interleaving, splitting, the renumbering
\* of experts and the tying of embeddings undo each other (the hf_to_megatron and
\* megatron_to_hf of param_mapping.py, stream_weights_megatron_to_hf of model_bridge.py) -
\* if the source lacks no expert of one rank alone.
THEOREM TensorsComeBack ==
    ASSUME ExpertsAlike
    PROVE  Spec => []TensorsRoundTrip
<1>1. RoundInv => TensorsRoundTrip
  BY DEF RoundInv, Restored, TensorsRoundTrip
<1>2. ExpertsAlike /\ RoundInv /\ [Next]_vars => RoundInv'
  BY RoundStep
<1> QED BY <1>1, <1>2, RoundInit, PTL DEF Spec

-----------------------------------------------------------------------------
(* Whom a file is dealt out to.                                             *)

LEMMA Least ==
    ASSUME NEW w \in Nat \ {0}, NEW a \in Nat, NEW b \in Nat, w * a < w * b
    PROVE  a < b
<1> SUFFICES ASSUME b <= a PROVE FALSE
  OBVIOUS
<1> DEFINE d == a - b
<1>1. d \in Nat /\ a = b + d
  OBVIOUS
<1> HIDE DEF d
<1>2. w * a = w * b + w * d /\ w * d \in Nat /\ w * b \in Nat
  BY <1>1
<1>3. w * a \in Nat
  OBVIOUS
<1> QED BY <1>2, <1>3

LEMMA Parted ==
    ASSUME NEW w \in Nat \ {0}, NEW x \in Nat
    PROVE  /\ x \div w \in Nat /\ x % w \in 0 .. w - 1
           /\ x = w * (x \div w) + (x % w)
OBVIOUS

LEMMA NumberSplits ==
    ASSUME NEW j \in Jobs, NEW r \in Ranks(j)
    PROVE  LET k == Number(j, r)
           IN  /\ k \in Nat
               /\ k % j.tp = r[3] /\ (k \div j.tp) % j.ep = r[2]
               /\ (k \div j.tp) \div j.ep = r[1]
<1> DEFINE x == r[1] * j.ep + r[2]
<1>1. /\ j.pp \in Nat \ {0} /\ j.tp \in Nat \ {0} /\ j.ep \in Nat \ {0}
      /\ r[1] \in Nat /\ r[2] \in 0 .. j.ep - 1 /\ r[3] \in 0 .. j.tp - 1
  BY JobSizes DEF Ranks
<1>2. x \in Nat /\ x = j.ep * r[1] + r[2]
  BY <1>1
<1>3. x \div j.ep = r[1] /\ x % j.ep = r[2]
  BY <1>1, <1>2, Quotient
<1> HIDE DEF x
<1>4. Number(j, r) = j.tp * x + r[3] /\ Number(j, r) \in Nat
  BY <1>1, <1>2 DEF Number, x
<1>5. Number(j, r) \div j.tp = x /\ Number(j, r) % j.tp = r[3]
  <2>1. (j.tp * x + r[3]) \div j.tp = x /\ (j.tp * x + r[3]) % j.tp = r[3]
    BY <1>1, <1>2, Quotient
  <2> QED BY <2>1, <1>4
<1> QED BY <1>3, <1>4, <1>5

\* A number is of one rank.
LEMMA NumberOnce ==
    ASSUME NEW j \in Jobs, NEW r \in Ranks(j), NEW s \in Ranks(j), Number(j, r) = Number(j, s)
    PROVE  r = s
<1>1. r[1] = s[1] /\ r[2] = s[2] /\ r[3] = s[3]
  BY NumberSplits
<1> QED BY <1>1 DEF Ranks

\* The numbers below the size of the world are given to ranks.
LEMMA NumberGiven ==
    ASSUME NEW j \in Jobs, NEW k \in Nat, k < World(j)
    PROVE  \E r \in Ranks(j) : Number(j, r) = k
<1> DEFINE x == k \div j.tp
           m == j.pp * j.ep
           p == x \div j.ep
           e == x % j.ep
           c == k % j.tp
<1>1. /\ j.pp \in Nat \ {0} /\ j.tp \in Nat \ {0} /\ j.ep \in Nat \ {0}
  BY JobSizes
<1>2. m \in Nat /\ World(j) = j.tp * m
  BY <1>1 DEF World
<1>3. x \in Nat /\ c \in 0 .. j.tp - 1 /\ k = j.tp * x + c
  BY <1>1, Parted
<1>4. p \in Nat /\ e \in 0 .. j.ep - 1 /\ x = j.ep * p + e
  BY <1>1, <1>3, Parted
<1> HIDE DEF p, e, c, x
<1>5. x < m
  <2>1. j.tp * x \in Nat /\ j.tp * m \in Nat
    BY <1>1, <1>2, <1>3
  <2>2. j.tp * x < j.tp * m
    BY <2>1, <1>2, <1>3
  <2> QED BY <1>1, <1>2, <1>3, <2>2, Least
<1>6. p < j.pp
  <2>1. j.ep * p \in Nat /\ j.ep * j.pp \in Nat /\ m = j.ep * j.pp
    BY <1>1, <1>4
  <2>2. j.ep * p < j.ep * j.pp
    <3> HIDE DEF m
    <3> QED BY <2>1, <1>4, <1>5
  <2> QED BY <1>1, <1>4, <2>2, Least
<1> DEFINE r == <<p, e, c>>
<1>7. r \in Ranks(j)
  BY <1>1, <1>3, <1>4, <1>6 DEF Ranks
<1>8. Number(j, r) = k
  <2>1. Number(j, r) = (p * j.ep + e) * j.tp + c
    BY DEF Number
  <2>2. p * j.ep = j.ep * p
    BY <1>1, <1>4
  <2>3. x * j.tp = j.tp * x
    BY <1>1, <1>3
  <2> QED BY <2>1, <2>2, <2>3, <1>3, <1>4
<1> QED BY <1>7, <1>8

\* With distributed saving a file has one saver.
LEMMA SaversApart ==
    ASSUME NEW j \in Jobs, j.dist, NEW r \in Ranks(j), NEW s \in Ranks(j),
           NEW f \in Assigned(j, r), f \in Assigned(j, s)
    PROVE  r = s
<1>1. j.every \in Nat \ {0}
  BY ExportConstants
<1>2. /\ Number(j, r) % j.every = 0 /\ Number(j, s) % j.every = 0
      /\ Number(j, r) \div j.every = Number(j, s) \div j.every
  BY DEF Assigned, IsSaver
<1>3. Number(j, r) \in Nat /\ Number(j, s) \in Nat
  BY NumberSplits
<1>4. Number(j, r) = Number(j, s)
  <2>1. ASSUME NEW x \in Nat, x % j.every = 0
        PROVE  x = j.every * (x \div j.every)
    <3>1. x \div j.every \in Nat /\ x = j.every * (x \div j.every) + (x % j.every)
      BY <1>1, <2>1, Parted
    <3> DEFINE y == x \div j.every
    <3> HIDE DEF y
    <3>2. j.every * y \in Nat
      BY <1>1, <3>1 DEF y
    <3>3. x = j.every * y + 0
      BY <2>1, <3>1 DEF y
    <3> QED BY <3>2, <3>3 DEF y
  <2> QED BY <2>1, <1>2, <1>3
<1> QED BY <1>4, NumberOnce

LEMMA SaversAll ==
    ASSUME NEW j \in Jobs, j.dist, NEW f \in Files
    PROVE  \E r \in Ranks(j) : f \in Assigned(j, r)
<1> DEFINE v == j.every
           q == (World(j) + v - 1) \div v
           c == (World(j) + v - 1) % v
           i == f % q
<1>1. v \in Nat \ {0} /\ f \in Nat
  BY ExportConstants, ShardsOfSource
<1>2. World(j) \in Nat \ {0}
  <2>1. j.pp \in Nat \ {0} /\ j.tp \in Nat \ {0} /\ j.ep \in Nat \ {0}
    BY JobSizes
  <2>2. j.pp * j.tp \in Nat \ {0}
    BY <2>1
  <2> QED BY <2>1, <2>2 DEF World
<1> HIDE DEF v
<1>3. q \in Nat /\ c \in 0 .. v - 1 /\ World(j) + v - 1 = v * q + c
  <2>1. World(j) + v - 1 \in Nat
    BY <1>1, <1>2
  <2> QED BY <1>1, <2>1, Parted
<1> HIDE DEF q, c
<1>4. q # 0
  BY <1>1, <1>2, <1>3
<1>5. i \in 0 .. q - 1
  BY <1>1, <1>3, <1>4, Parted
<1> HIDE DEF i
<1>6. v * i \in Nat /\ v * i < World(j)
  <2> DEFINE d == q - 1 - i
  <2>1. d \in Nat /\ q = i + d + 1
    BY <1>3, <1>5
  <2> HIDE DEF d
  <2>2. v * q = v * i + v * d + v /\ v * i \in Nat /\ v * d \in Nat /\ v * q \in Nat
    BY <1>1, <1>5, <2>1
  <2> QED BY <1>1, <1>2, <1>3, <2>2
<1>7. PICK r \in Ranks(j) : Number(j, r) = v * i
  BY <1>6, NumberGiven
<1>8. (v * i) % v = 0 /\ (v * i) \div v = i
  <2>1. 0 \in 0 .. v - 1 /\ i \in Nat
    BY <1>1, <1>5
  <2>2. (v * i + 0) \div v = i /\ (v * i + 0) % v = 0
    BY <1>1, <2>1, Quotient
  <2>3. v * i + 0 = v * i
    BY <1>6
  <2> QED BY <2>2, <2>3
<1> QED BY <1>7, <1>8 DEF Assigned, IsSaver, Savers, v, q, i

-----------------------------------------------------------------------------
(* What the index names.                                                    *)

Late  == {"status", "barrier", "done"}
Ended == {"barrier", "done"}

\* Rank r holds tensors of its own files only.
KeepsOwn(r) == \A n \in DOMAIN buffer[r] : FileOf(n) \in Assigned(job, r)

\* Those of its files that rank r has a tensor of hold what it has, and nothing else.
Delivered(r) ==
    \A f \in Assigned(job, r) : NamesIn(job, f) \cap DOMAIN buffer[r] # {} =>
        /\ DOMAIN disk[f] = NamesIn(job, f) \cap DOMAIN buffer[r]
        /\ \A n \in DOMAIN disk[f] : disk[f][n] = Reference(n)

IndexInv ==
    /\ RoundInv
    /\ disk = [f \in Files |-> disk[f]]
    /\ \A r \in Ranks(job) : KeepsOwn(r)
    /\ \A r \in Ranks(job) : stage[r] = "status" => job.dist /\ Delivered(r)
    /\ job.dist /\ index # NoIndex => \A r \in Ranks(job) : stage[r] \in Ended
    /\ ~job.dist /\ index # NoIndex => stage[<<0, 0, 0>>] \in Ended
    /\ IndexNamesSaved

LEMMA ReferenceIsNew ==
    ASSUME job \in Jobs, NEW n
    PROVE  Reference(n) # Old
<1>1. \A m : 1 \in DOMAIN Source(job, m)
  <2> TAKE m
  <2>1. Rows(job, m) \in Nat \ {0}
    BY SourceIs
  <2> QED BY <2>1 DEF Source
<1>2. \A s : 1 \in DOMAIN PadRight(s, PaddedVocab(job))
  <2>1. PaddedVocab(job) \in Nat \ {0}
    <3>1. Vocab \in Nat \ {0} /\ job.tp \in Nat \ {0}
      BY ExportConstants, JobSizes
    <3> DEFINE q == (Vocab + job.tp - 1) \div job.tp
               c == (Vocab + job.tp - 1) % job.tp
    <3>2. q \in Nat /\ c \in 0 .. job.tp - 1 /\ Vocab + job.tp - 1 = job.tp * q + c
      <4>1. Vocab + job.tp - 1 \in Nat
        BY <3>1
      <4> QED BY <3>1, <4>1, Parted
    <3> HIDE DEF q, c
    <3>3. q # 0
      BY <3>1, <3>2
    <3>4. q * job.tp \in Nat \ {0}
      BY <3>1, <3>2, <3>3
    <3> QED BY <3>4 DEF PaddedVocab, q
  <2> QED BY <2>1 DEF PadRight
<1>3. 1 \notin DOMAIN Old
  BY DEF Old
<1>4. 1 \in DOMAIN Reference(n)
  BY <1>1, <1>2 DEF Reference
<1> QED BY <1>3, <1>4

LEMMA FirstSaves ==
    ASSUME job \in Jobs, ~job.dist, NEW r \in Ranks(job), r # <<0, 0, 0>>
    PROVE  ~IsSaver(job, r) /\ Assigned(job, r) = {}
<1>1. <<0, 0, 0>> \in Ranks(job)
  BY SomeRank
<1>2. Number(job, <<0, 0, 0>>) = 0
  <2>1. job.tp \in Nat /\ job.ep \in Nat
    BY JobSizes
  <2> QED BY <2>1 DEF Number
<1>3. Number(job, r) # 0
  BY <1>1, <1>2, NumberOnce
<1> QED BY <1>3 DEF IsSaver, Assigned

LEMMA IndexInit == Init => IndexInv
<1> SUFFICES ASSUME Init PROVE IndexInv
  OBVIOUS
<1>1. RoundInv
  BY RoundInit
<1>2. /\ job \in Jobs /\ index = NoIndex /\ \A r \in Ranks(job) : stage[r] = "load"
      /\ \A r \in Ranks(job) : buffer[r] = Nothing
      /\ disk = [f \in Files |-> IF f \in job.leftover THEN [n \in NamesIn(job, f) |-> Old]
                                 ELSE Nothing]
  BY DEF Init
<1>3. \A r \in Ranks(job) : KeepsOwn(r)
  BY <1>2 DEF KeepsOwn, Nothing
<1>4. disk = [f \in Files |-> disk[f]]
  BY <1>2
<1> QED BY <1>1, <1>2, <1>3, <1>4 DEF IndexInv, IndexNamesSaved

\* Before a rank is at the end it writes nothing, and no step but the end of its own
\* takes a rank there.
LEMMA BeforeEnd ==
    ASSUME RoundInv,
           \/ \E r \in Ranks(job) : Load(r) \/ FinishLoad(r) \/ ShareEmbedding(r)
           \/ StartExport
           \/ \E r \in Ranks(job) : StageCollective(r) \/ GatherShards(r) \/ GatherExperts(r)
           \/ UNCHANGED vars
    PROVE  /\ job' = job /\ buffer' = buffer /\ disk' = disk /\ index' = index
           /\ \A s \in Ranks(job) : stage[s] \in Late \/ stage'[s] \in Late => stage'[s] = stage[s]
<1>1. job' = job /\ buffer' = buffer /\ disk' = disk /\ index' = index
  <2>1. CASE \E r \in Ranks(job) : Load(r) \/ FinishLoad(r) \/ ShareEmbedding(r)
    BY <2>1 DEF Load, FinishLoad, ShareEmbedding, output
  <2>2. CASE StartExport
    BY <2>2 DEF StartExport, output
  <2>3. CASE \E r \in Ranks(job) : StageCollective(r) \/ GatherShards(r) \/ GatherExperts(r)
    BY <2>3 DEF StageCollective, GatherShards, GatherExperts, output
  <2>4. CASE UNCHANGED vars
    BY <2>4 DEF vars, output
  <2> QED BY <2>1, <2>2, <2>3, <2>4
<1>2. stage = [s \in Ranks(job) |-> stage[s]]
  BY DEF RoundInv, MeetInv
<1> DEFINE Goal == \A s \in Ranks(job) : stage[s] \in Late \/ stage'[s] \in Late => stage'[s] = stage[s]
<1>3. CASE \E r \in Ranks(job) : Load(r) \/ GatherShards(r) \/ GatherExperts(r)
  BY <1>1, <1>3 DEF Load, GatherShards, GatherExperts
<1>4. ASSUME NEW r \in Ranks(job), FinishLoad(r) PROVE Goal
  <2>1. stage[r] = "load" /\ \E x \in {"share", "loaded"} : stage' = [stage EXCEPT ![r] = x]
    BY <1>4 DEF FinishLoad
  <2> QED BY <1>2, <2>1 DEF Late
<1>5. ASSUME NEW r \in Ranks(job), ShareEmbedding(r) PROVE Goal
  <2>1. PICK q : /\ stage[r] = "share" /\ stage[q] = "share"
                 /\ stage' = [stage EXCEPT ![r] = "loaded", ![q] = "loaded"]
    BY <1>5 DEF ShareEmbedding
  <2> QED BY <1>2, <2>1 DEF Late
<1>6. CASE StartExport
  <2>1. \A s \in Ranks(job) : stage[s] = "loaded"
    BY <1>6 DEF StartExport
  <2>2. stage' = [s \in Ranks(job) |-> "export"]
    BY <1>6 DEF StartExport
  <2> QED BY <1>1, <2>1, <2>2 DEF Late
<1>7. ASSUME NEW r \in Ranks(job), StageCollective(r) PROVE Goal
  <2> DEFINE g == GroupOf(job, r, "pp")
  <2>1. \A s \in g : stage[s] = "export"
    BY <1>7, StageMeets DEF RoundInv
  <2>2. stage' = stage \/ stage' = [s \in Ranks(job) |-> IF s \in g THEN "failed" ELSE stage[s]]
    BY <1>7 DEF StageCollective
  <2> HIDE DEF g
  <2> QED BY <2>1, <2>2 DEF Late
<1>8. CASE UNCHANGED vars
  BY <1>1, <1>8 DEF vars
<1> QED BY <1>1, <1>3, <1>4, <1>5, <1>6, <1>7, <1>8

\* Such a step keeps what the index rests on.
LEMMA IndexKept ==
    ASSUME IndexInv, job' = job, buffer' = buffer, disk' = disk, index' = index, RoundInv',
           \A s \in Ranks(job) : stage[s] \in Late \/ stage'[s] \in Late => stage'[s] = stage[s]
    PROVE  IndexInv'
<1>1. <<0, 0, 0>> \in Ranks(job)
  BY SomeRank DEF IndexInv, RoundInv, MeetInv
<1>2. \A n : Reference(n)' = Reference(n)
  BY DEF Reference
<1>3. \A r : KeepsOwn(r)' <=> KeepsOwn(r)
  BY DEF KeepsOwn
<1>4. \A r : Delivered(r)' <=> Delivered(r)
  BY <1>2 DEF Delivered
<1>5. \A s \in Ranks(job) : /\ stage'[s] = "status" => stage[s] = "status"
                            /\ stage[s] \in Ended => stage'[s] \in Ended
  BY DEF Late, Ended
<1>6. IndexNamesSaved'
  BY DEF IndexInv, IndexNamesSaved
<1> QED BY <1>1, <1>3, <1>4, <1>5, <1>6 DEF IndexInv

\* A file that is written has the names of the buffer that are its own.
LEMMA WrittenAt ==
    ASSUME NEW d, NEW b, NEW fs, NEW f \in Files
    PROVE  /\ Written(job, d, fs, b) = [g \in Files |-> Written(job, d, fs, b)[g]]
           /\ f \notin fs => Written(job, d, fs, b)[f] = d[f]
           /\ f \in fs =>
                 /\ DOMAIN Written(job, d, fs, b)[f] = NamesIn(job, f) \cap DOMAIN b
                 /\ \A n \in NamesIn(job, f) \cap DOMAIN b : Written(job, d, fs, b)[f][n] = b[n]
BY DEF Written, Restrict

LEMMA IndexConsume ==
    ASSUME IndexInv, RoundInv', NEW r \in Ranks(job), Consume(r)
    PROVE  IndexInv'
<1> DEFINE new == Converted(job, TaskOf(r), held[r])
           kept == {n \in DOMAIN new \cap Expected(job) : FileOf(n) \in Assigned(job, r)}
           b == [n \in kept \cup DOMAIN buffer[r] |-> IF n \in kept THEN new[n] ELSE buffer[r][n]]
           full == IF job.dist THEN {}
                   ELSE {f \in {FileOf(n) : n \in kept} : NamesIn(job, f) \subseteq DOMAIN b}
<1>1. /\ job' = job /\ index' = index /\ stage[r] = "export"
      /\ stage' = stage \/ stage' = [stage EXCEPT ![r] = "failed"]
      /\ \/ disk' = disk /\ buffer' = buffer
         \/ /\ disk' = Written(job, disk, full, b)
            /\ buffer' = [buffer EXCEPT ![r] = Restrict(b, {n \in DOMAIN b : FileOf(n) \notin full})]
  BY DEF Consume
<1>2. /\ job \in Jobs /\ stage = [s \in Ranks(job) |-> stage[s]]
      /\ buffer = [s \in Ranks(job) |-> buffer[s]] /\ disk = [f \in Files |-> disk[f]]
  BY DEF IndexInv, RoundInv, MeetInv
<1>3. <<0, 0, 0>> \in Ranks(job)
  BY <1>2, SomeRank
<1>4. \A n : Reference(n)' = Reference(n)
  BY <1>1 DEF Reference
<1>5. \A s \in Ranks(job) : /\ stage[s] \in Late \/ stage'[s] \in Late => stage'[s] = stage[s] /\ s # r
                            /\ s # r => buffer'[s] = buffer[s]
  BY <1>1, <1>2 DEF Late
<1>6. job.dist \/ index # NoIndex => disk' = disk
  <2> HAVE job.dist \/ index # NoIndex
  <2>1. ~job.dist => Assigned(job, r) = {}
    <3> HAVE ~job.dist
    <3>1. stage[<<0, 0, 0>>] \in Ended
      BY DEF IndexInv
    <3>2. r # <<0, 0, 0>>
      BY <1>1, <3>1 DEF Ended
    <3> QED BY <1>2, <3>2, FirstSaves
  <2>2. full = {}
    BY <2>1
  <2> HIDE DEF full, b
  <2>3. \A f \in Files : Written(job, disk, full, b)[f] = disk[f]
    BY <2>2, WrittenAt
  <2>4. Written(job, disk, full, b) = [f \in Files |-> Written(job, disk, full, b)[f]]
    BY DEF Written
  <2> QED BY <1>1, <1>2, <2>3, <2>4
<1>8. \A s \in Ranks(job) : KeepsOwn(s)'
  <2>1. \A n \in DOMAIN b : FileOf(n) \in Assigned(job, r)
    BY DEF IndexInv, KeepsOwn
  <2> HIDE DEF b, full
  <2>2. DOMAIN buffer'[r] \subseteq DOMAIN buffer[r] \cup DOMAIN b
    BY <1>1, <1>2 DEF Restrict
  <2>3. \A n \in DOMAIN buffer'[r] : FileOf(n) \in Assigned(job, r)
    BY <2>1, <2>2 DEF IndexInv, KeepsOwn
  <2>4. \A s \in Ranks(job) : s # r => buffer'[s] = buffer[s]
    BY <1>5
  <2> QED BY <1>1, <2>3, <2>4 DEF IndexInv, KeepsOwn
<1> HIDE DEF new, kept, b, full
<1>7. disk' = [f \in Files |-> disk'[f]]
  BY <1>1, <1>2 DEF Written
<1>9. job.dist => \A s \in Ranks(job) : s # r /\ Delivered(s) => Delivered(s)'
  BY <1>1, <1>4, <1>5, <1>6 DEF Delivered
<1>10. IndexNamesSaved'
  <2>1. job.dist => index = NoIndex
    BY <1>1 DEF IndexInv, Ended
  <2> QED BY <1>1, <1>6, <2>1 DEF IndexInv, IndexNamesSaved
<1>11. \A s \in Ranks(job) : /\ stage'[s] = "status" => stage[s] = "status" /\ s # r
                             /\ stage[s] \in Ended => stage'[s] \in Ended
  BY <1>5 DEF Late, Ended
<1> QED BY <1>1, <1>3, <1>7, <1>8, <1>9, <1>10, <1>11 DEF IndexInv

LEMMA IndexAlone ==
    ASSUME IndexInv, RoundInv', NEW r \in Ranks(job), EndAlone(r)
    PROVE  IndexInv'
<1> DEFINE saved == SavedIn(job, disk')
           rest  == IF job.strict \/ ~IsSaver(job, r) THEN {}
                    ELSE {f \in Files : f \in {FileOf(n) : n \in Expected(job) \ SavedIn(job, disk)}}
<1>1. /\ job' = job /\ stage[r] = "export" /\ ~job.dist /\ buffer' = buffer
      /\ disk' = Written(job, disk, rest, buffer[r])
      /\ \/ /\ IsSaver(job, r) /\ job.strict /\ saved # Expected(job)
            /\ stage' = [stage EXCEPT ![r] = "failed"] /\ index' = index
         \/ /\ IsSaver(job, r) => ~job.strict \/ saved = Expected(job)
            /\ stage' = [stage EXCEPT ![r] = "barrier"]
            /\ index' = IF IsSaver(job, r) /\ saved # {} THEN saved ELSE index
  BY DEF EndAlone, AtEnd
<1>2. /\ job \in Jobs /\ stage = [s \in Ranks(job) |-> stage[s]]
      /\ disk = [f \in Files |-> disk[f]]
  BY DEF IndexInv, RoundInv, MeetInv
<1> DEFINE first == <<0, 0, 0>>
<1>3. first \in Ranks(job)
  BY <1>2, SomeRank
<1> HIDE DEF first
<1>4. disk' = [f \in Files |-> disk'[f]]
  BY <1>1 DEF Written
<1>9. \A s \in Ranks(job) : KeepsOwn(s)'
  BY <1>1 DEF IndexInv, KeepsOwn
<1>5. \A s \in Ranks(job) : stage'[s] # "status"
  <2>1. \A s \in Ranks(job) : stage[s] # "status"
    BY <1>1 DEF IndexInv
  <2>2. \E x \in {"failed", "barrier"} : stage' = [stage EXCEPT ![r] = x]
    BY <1>1
  <2> QED BY <1>2, <2>1, <2>2
<1>6. CASE index # NoIndex
  <2>1. stage[first] \in Ended /\ r # first
    BY <1>1, <1>6 DEF IndexInv, Ended, first
  <2>2. ~IsSaver(job, r)
    BY <1>1, <1>2, <2>1, FirstSaves DEF first
  <2>3. index' = index
    BY <1>1, <2>2
  <2>4. disk' = disk
    <3>1. rest = {}
      BY <2>2
    <3> HIDE DEF rest
    <3>2. \A f \in Files : disk'[f] = disk[f]
      BY <1>1, <3>1, WrittenAt
    <3> QED BY <1>2, <1>4, <3>2
  <2>5. stage'[first] = stage[first]
    <3>1. \E x : stage' = [stage EXCEPT ![r] = x]
      BY <1>1
    <3> QED BY <3>1, <1>2, <1>3, <2>1
  <2>6. IndexNamesSaved'
    BY <1>1, <2>3, <2>4 DEF IndexInv, IndexNamesSaved
  <2> QED BY <1>1, <1>4, <1>5, <1>9, <2>1, <2>5, <2>6 DEF IndexInv, first
<1>7. CASE index = NoIndex /\ index' = index
  BY <1>1, <1>4, <1>7, <1>5, <1>9 DEF IndexInv, IndexNamesSaved
<1>8. CASE index = NoIndex /\ index' # index
  <2>1. /\ IsSaver(job, r) /\ index' = saved
        /\ job.strict => saved = Expected(job)
        /\ stage' = [stage EXCEPT ![r] = "barrier"]
    BY <1>1, <1>8
  <2>2. r = first
    BY <1>1, <1>2, <2>1, FirstSaves DEF first
  <2>3. stage'[first] \in Ended
    BY <1>2, <2>1, <2>2, <1>3 DEF Ended
  <2>4. \A n \in saved : n \in DOMAIN disk'[FileOf(n)] /\ disk'[FileOf(n)][n] # Old
    BY DEF SavedIn
  <2> HIDE DEF saved
  <2>5. IndexNamesSaved'
    BY <1>1, <2>1, <2>4 DEF IndexNamesSaved
  <2> QED BY <1>1, <1>4, <1>5, <1>9, <2>3, <2>5 DEF IndexInv, first
<1> QED BY <1>6, <1>7, <1>8

LEMMA IndexWrite ==
    ASSUME IndexInv, RoundInv', NEW r \in Ranks(job), WriteAssigned(r)
    PROVE  IndexInv'
<1> DEFINE b  == buffer[r]
           fs == {f \in Assigned(job, r) : NamesIn(job, f) \cap DOMAIN b # {}}
<1>1. /\ job' = job /\ stage[r] = "export" /\ job.dist /\ buffer' = buffer /\ index' = index
      /\ stage' = [stage EXCEPT ![r] = "status"] /\ disk' = Written(job, disk, fs, b)
  BY DEF WriteAssigned, AtEnd
<1>2. /\ job \in Jobs /\ stage = [s \in Ranks(job) |-> stage[s]]
      /\ disk = [f \in Files |-> disk[f]] /\ Faithful(b)
  BY DEF IndexInv, RoundInv, MeetInv
<1>3. index = NoIndex
  BY <1>1 DEF IndexInv, Ended
<1>4. \A n : Reference(n)' = Reference(n)
  BY <1>1 DEF Reference
<1> HIDE DEF b, fs
<1>5. disk' = [f \in Files |-> disk'[f]]
  BY <1>1 DEF Written
<1>6. \A s \in Ranks(job) : KeepsOwn(s)'
  BY <1>1 DEF IndexInv, KeepsOwn
<1>7. ASSUME NEW s \in Ranks(job), stage'[s] = "status"
      PROVE  Delivered(s)'
  <2>1. ASSUME NEW f \in Assigned(job, s), NamesIn(job, f) \cap DOMAIN buffer[s] # {}
        PROVE  /\ DOMAIN disk'[f] = NamesIn(job, f) \cap DOMAIN buffer[s]
               /\ \A n \in DOMAIN disk'[f] : disk'[f][n] = Reference(n)
    <3>1. f \in Files
      BY DEF Assigned
    <3>2. CASE s = r
      <4>1. f \in fs
        BY <2>1, <3>2 DEF fs, b
      <4>2. /\ DOMAIN disk'[f] = NamesIn(job, f) \cap DOMAIN b
            /\ \A n \in NamesIn(job, f) \cap DOMAIN b : disk'[f][n] = b[n]
        BY <1>1, <3>1, <4>1, WrittenAt
      <4>3. \A n \in DOMAIN b : b[n] = Reference(n)
        BY <1>2 DEF Faithful
      <4> QED BY <3>2, <4>2, <4>3 DEF b
    <3>3. CASE s # r
      <4>1. f \notin Assigned(job, r)
        BY <1>1, <1>2, <3>3, SaversApart
      <4>2. disk'[f] = disk[f]
        <5>1. f \notin fs
          BY <4>1 DEF fs
        <5> QED BY <1>1, <3>1, <5>1, WrittenAt
      <4>3. stage[s] = "status"
        BY <1>1, <1>2, <1>7, <3>3
      <4>4. Delivered(s)
        BY <1>1, <4>3 DEF IndexInv
      <4> QED BY <2>1, <4>2, <4>4 DEF Delivered
    <3> QED BY <3>2, <3>3
  <2> QED BY <1>1, <1>4, <2>1 DEF Delivered
<1>8. IndexNamesSaved'
  BY <1>1, <1>3 DEF IndexNamesSaved
<1> QED BY <1>1, <1>3, <1>5, <1>6, <1>7, <1>8 DEF IndexInv

LEMMA IndexAgree ==
    ASSUME IndexInv, RoundInv', AgreeOnStatus
    PROVE  IndexInv'
<1> DEFINE first == <<0, 0, 0>>
           found == {n \in Expected(job) : n \in DOMAIN disk[FileOf(n)]}
<1>1. /\ job' = job /\ buffer' = buffer /\ disk' = disk
      /\ \A r \in Ranks(job) : stage[r] = "status"
      /\ \/ stage' = [r \in Ranks(job) |-> "failed"] /\ index' = index
         \/ /\ job.strict => Unsaved = {}
            /\ stage' = [r \in Ranks(job) |-> "barrier"] /\ index' = found
  BY DEF AgreeOnStatus
<1>2. /\ job \in Jobs /\ disk = [f \in Files |-> disk[f]]
  BY DEF IndexInv, RoundInv, MeetInv
<1>3. first \in Ranks(job)
  BY <1>2, SomeRank
<1>4. \A n : Reference(n)' = Reference(n)
  BY <1>1 DEF Reference
<1>5. \A r \in Ranks(job) : KeepsOwn(r)' /\ stage'[r] # "status"
  BY <1>1 DEF IndexInv, KeepsOwn
<1> HIDE DEF first
<1>6. index = NoIndex
  BY <1>1, <1>3 DEF IndexInv, Ended, first
<1>7. CASE index' = index
  BY <1>1, <1>2, <1>5, <1>6, <1>7 DEF IndexInv, IndexNamesSaved
<1>8. CASE /\ job.strict => Unsaved = {}
           /\ stage' = [r \in Ranks(job) |-> "barrier"] /\ index' = found
  <2>1. \A r \in Ranks(job) : stage'[r] \in Ended
    BY <1>8 DEF Ended
  <2>2. job.dist /\ \A r \in Ranks(job) : Delivered(r) /\ KeepsOwn(r)
    BY <1>1, <1>3 DEF IndexInv
  <2>3. ASSUME job.strict, NEW n \in Expected(job)
        PROVE  n \in DOMAIN disk[FileOf(n)] /\ disk[FileOf(n)][n] = Reference(n)
    <3>1. FileOf(n) \in Files
      BY <1>2, ShardsOfSource
    <3>2. PICK s \in Ranks(job) : FileOf(n) \in Assigned(job, s)
      BY <1>2, <2>2, <3>1, SaversAll
    <3>3. n \in DOMAIN buffer[s]
      BY <1>8, <2>3, <3>2 DEF Unsaved
    <3> QED BY <2>2, <2>3, <3>2, <3>3 DEF Delivered, NamesIn
  \* What is of an earlier export is in a file that no rank has a tensor of.
  <2>4. ASSUME NEW n \in found, disk[FileOf(n)][n] = Old
        PROVE  /\ ~job.strict
               /\ \A r \in Ranks(job) : NamesIn(job, FileOf(n)) \cap DOMAIN buffer[r] = {}
    <3>1. disk[FileOf(n)][n] # Reference(n)
      BY <1>2, <2>4, ReferenceIsNew
    <3>2. ~job.strict
      BY <2>3, <3>1
    <3>3. ASSUME NEW r \in Ranks(job), NEW m \in NamesIn(job, FileOf(n)) \cap DOMAIN buffer[r]
          PROVE  FALSE
      <4>1. FileOf(n) \in Assigned(job, r)
        BY <2>2, <3>3 DEF KeepsOwn, NamesIn
      <4> QED BY <2>2, <3>1, <3>3, <4>1 DEF Delivered
    <3> QED BY <3>2, <3>3
  <2>7. \A n \in found : n \in DOMAIN disk[FileOf(n)]
    OBVIOUS
  <2>5. job.strict => found = Expected(job)
    BY <2>3
  <2> HIDE DEF found
  <2>6. IndexNamesSaved'
    BY <1>1, <1>8, <2>2, <2>4, <2>5, <2>7 DEF IndexNamesSaved
  <2> QED BY <1>1, <1>2, <1>5, <2>1, <2>2, <2>6 DEF IndexInv
<1> QED BY <1>1, <1>7, <1>8

LEMMA IndexLeave ==
    ASSUME IndexInv, RoundInv', Leave
    PROVE  IndexInv'
<1>1. /\ job' = job /\ buffer' = buffer /\ disk' = disk /\ index' = index
      /\ stage' = [r \in Ranks(job) |-> "done"]
  BY DEF Leave, output
<1>2. <<0, 0, 0>> \in Ranks(job) /\ disk = [f \in Files |-> disk[f]]
  BY SomeRank DEF IndexInv, RoundInv, MeetInv
<1>3. \A r \in Ranks(job) : stage'[r] \in Ended /\ stage'[r] # "status"
  BY <1>1 DEF Ended
<1>4. \A r \in Ranks(job) : KeepsOwn(r)'
  BY <1>1 DEF IndexInv, KeepsOwn
<1>5. IndexNamesSaved'
  BY <1>1 DEF IndexInv, IndexNamesSaved
<1> QED BY <1>1, <1>2, <1>3, <1>4, <1>5 DEF IndexInv

LEMMA IndexStep == ExpertsAlike /\ IndexInv /\ [Next]_vars => IndexInv'
<1> SUFFICES ASSUME ExpertsAlike, IndexInv, [Next]_vars PROVE IndexInv'
  OBVIOUS
<1>1. RoundInv /\ RoundInv'
  BY RoundStep DEF IndexInv
<1>2. CASE \/ \E r \in Ranks(job) : Load(r) \/ FinishLoad(r) \/ ShareEmbedding(r)
           \/ StartExport
           \/ \E r \in Ranks(job) : StageCollective(r) \/ GatherShards(r) \/ GatherExperts(r)
           \/ UNCHANGED vars
  BY <1>1, <1>2, BeforeEnd, IndexKept
<1>3. CASE \E r \in Ranks(job) : Consume(r)
  BY <1>1, <1>3, IndexConsume
<1>4. CASE \E r \in Ranks(job) : EndAlone(r)
  BY <1>1, <1>4, IndexAlone
<1>5. CASE \E r \in Ranks(job) : WriteAssigned(r)
  BY <1>1, <1>5, IndexWrite
<1>6. CASE AgreeOnStatus \/ Leave
  BY <1>1, <1>6, IndexAgree, IndexLeave
<1> QED BY <1>2, <1>3, <1>4, <1>5, <1>6 DEF Next

\* The index names only tensors that are in the files it names them in, and with strict all
\* that the source has: for every job, all sizes, any shards and any number of ranks and
\* savers, whatever an earlier export has left and whichever of the savers ends first
\* (save_generator and _save_generator_distributed of state.py).  They are of this export,
\* but for the files of an earlier one that a distributed export which is not strict finds
\* and has no tensor of.  The source must lack no expert of one rank alone.
THEOREM IndexIsOfThisExport ==
    ASSUME ExpertsAlike
    PROVE  Spec => []IndexNamesSaved
<1>1. IndexInv => IndexNamesSaved
  BY DEF IndexInv
<1>2. Init => IndexInv
  BY IndexInit
<1>3. ExpertsAlike /\ IndexInv /\ [Next]_vars => IndexInv'
  BY IndexStep
<1> QED BY <1>1, <1>2, <1>3, PTL DEF Spec

=============================================================================
