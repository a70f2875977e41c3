-------------------------- MODULE MimoTraining_proofs --------------------------
(***************************************************************************)
(* What crosses the bridge meets the tokens it belongs to, each step       *)
(* trains on the samples of its place in the schedule, and both modules on *)
(* gradients of one loss, for every size of the two modules, of the        *)
(* microbatch and of the job, through any crashes.                         *)
(***************************************************************************)
EXTENDS MimoTraining, WeightLayouts_proofs, FiniteSetTheorems

-----------------------------------------------------------------------------
(* Slices. *)

\* The m samples of replica k in a microbatch that starts at sample `from'.
Run(from, m, k) == [i \in 1 .. m |-> from + k * m + i - 1]

LEMMA RunType ==
    ASSUME NEW from \in Nat, NEW m \in Nat \ {0}, NEW k \in Nat
    PROVE  /\ Run(from, m, k) \in Seq(Nat)
           /\ Len(Run(from, m, k)) = m
<1>1. k * m \in Nat
  OBVIOUS
<1>2. \A i \in 1 .. m : from + k * m + i - 1 \in Nat
  BY <1>1
<1> QED BY <1>2 DEF Run

\* A divisor of the microbatch leaves equal slices that are not empty.
LEMMA Divided ==
    ASSUME NEW b \in Nat \ {0}, NEW d \in Nat \ {0}, b % d = 0
    PROVE  b \div d \in Nat \ {0} /\ b = d * (b \div d)
<1> DEFINE m == b \div d
<1>1. m \in Int /\ b = d * m + (b % d)
  OBVIOUS
<1>2. b = d * m
  BY <1>1
<1> HIDE DEF m
<1>3. ~(m <= 0)
  <2>1. SUFFICES ASSUME m <= 0 PROVE FALSE
    OBVIOUS
  <2>2. d * m <= 0
    BY <1>1, <2>1
  <2> QED BY <2>2, <1>2
<1> QED BY <1>1, <1>2, <1>3 DEF m

\* A run of n * m samples, taken apart.
LEMMA PartOfRun ==
    ASSUME NEW from \in Nat, NEW n \in Nat \ {0}, NEW m \in Nat \ {0}, NEW k \in Nat,
           NEW e \in 0 .. n - 1
    PROVE  Part(Run(from, n * m, k), n, e) = Run(from, m, k * n + e)
<1> DEFINE s == Run(from, n * m, k)
<1>1. n * m \in Nat \ {0} /\ e * m \in Nat /\ k * (n * m) \in Nat
  OBVIOUS
<1>2. s \in Seq(Nat) /\ Len(s) = n * m
  BY <1>1, RunType
<1>3. \A i \in 1 .. n * m : s[i] = from + k * (n * m) + i - 1
  BY DEF Run
<1> HIDE DEF s
<1>4. Part(s, n, e) = [i \in 1 .. m |-> s[e * m + i]]
  BY <1>2, ExactQuotient DEF Part
<1>5. ASSUME NEW i \in 1 .. m
      PROVE  s[e * m + i] = from + (k * n + e) * m + i - 1
  <2>1. (e + 1) * m <= n * m /\ (e + 1) * m = e * m + m
    OBVIOUS
  <2>2. e * m + i \in 1 .. n * m
    BY <1>1, <2>1
  <2>3. (k * n + e) * m = k * (n * m) + e * m
    OBVIOUS
  <2> QED BY <1>1, <1>3, <2>2, <2>3
<1> QED BY <1>4, <1>5 DEF Run, s

\* The k-th run of m samples, in the run of n * m samples that it is in.
LEMMA PartAt ==
    ASSUME NEW from \in Nat, NEW n \in Nat \ {0}, NEW m \in Nat \ {0}, NEW k \in Nat
    PROVE  Part(Run(from, n * m, k \div n), n, k % n) = Run(from, m, k)
<1> DEFINE q == k \div n
           e == k % n
           i == k + 1
           d == k + 1
<1>1. d \in Nat \ {0} /\ i - 1 = k
  OBVIOUS
<1>2. i \in 1 .. d * n
  OBVIOUS
<1>3. q = (i - 1) \div n /\ e = (i - 1) % n
  BY <1>1
<1> HIDE DEF q, e, i, d
<1>4. q \in 0 .. d - 1 /\ e \in 0 .. n - 1 /\ q * n + e = i - 1
  BY <1>1, <1>2, <1>3, BlockAndPlace
<1>5. Part(Run(from, n * m, q), n, e) = Run(from, m, q * n + e)
  BY <1>1, <1>4, PartOfRun
<1> QED BY <1>1, <1>4, <1>5 DEF q, e

\* Runs of m samples, put together.
LEMMA CatOfRuns ==
    ASSUME NEW from \in Nat, NEW n \in Nat \ {0}, NEW m \in Nat \ {0}, NEW k \in Nat,
           NEW part, \A e \in 0 .. n - 1 : part[e] = Run(from, m, k * n + e)
    PROVE  Cat(part, n) = Run(from, n * m, k)
<1>1. Len(part[0]) = m
  <2>1. part[0] = Run(from, m, k * n + 0) /\ k * n + 0 \in Nat
    OBVIOUS
  <2> QED BY <2>1, RunType
<1>2. Cat(part, n) = [i \in 1 .. n * m |-> part[(i - 1) \div m][((i - 1) % m) + 1]]
  BY <1>1 DEF Cat
<1>3. ASSUME NEW i \in 1 .. n * m
      PROVE  part[(i - 1) \div m][((i - 1) % m) + 1] = from + k * (n * m) + i - 1
  <2> DEFINE e == (i - 1) \div m
             c == (i - 1) % m
  <2>1. e \in 0 .. n - 1 /\ c \in 0 .. m - 1 /\ e * m + c = i - 1
    BY BlockAndPlace
  <2> HIDE DEF e, c
  <2>2. part[e][c + 1] = from + (k * n + e) * m + (c + 1) - 1
    <3>1. part[e] = Run(from, m, k * n + e) /\ c + 1 \in 1 .. m
      BY <2>1
    <3> QED BY <3>1 DEF Run
  <2>3. (k * n + e) * m = k * (n * m) + e * m /\ k * (n * m) \in Nat /\ e * m \in Nat
    BY <2>1
  <2> QED BY <2>1, <2>2, <2>3 DEF e, c
<1> QED BY <1>2, <1>3 DEF Run

\* What a rank cuts out of its loader's microbatch.
LEMMA SliceAt ==
    ASSUME NEW from \in Nat, NEW n \in Nat \ {0}, NEW m \in Nat \ {0}, MicroBatch = n * m,
           NEW j, NEW r, j.dp[r[1]] = n, r[2] \in 0 .. n - 1
    PROVE  Slice(j, r, Drawn(r, from)) = Run(from, m, r[2])
<1>1. Drawn(r, from) = Run(from, n * m, 0)
  <2>1. 0 * (n * m) = 0 /\ n * m \in Nat
    OBVIOUS
  <2>2. [i \in 1 .. n * m |-> from + i - 1] = [i \in 1 .. n * m |-> from + 0 * (n * m) + i - 1]
    <3>1. ASSUME NEW i \in 1 .. n * m PROVE from + i - 1 = from + 0 * (n * m) + i - 1
      BY <2>1
    <3> QED BY <3>1
  <2> QED BY <2>2 DEF Drawn, Run
<1>2. ASSUME NEW e \in 0 .. n - 1
      PROVE  Part(Run(from, n * m, 0), n, e) = Run(from, m, e)
  <2>1. 0 * n + e = e /\ 0 \in Nat
    OBVIOUS
  <2>2. Part(Run(from, n * m, 0), n, e) = Run(from, m, 0 * n + e)
    BY PartOfRun
  <2> QED BY <2>1, <2>2
<1> QED BY <1>1, <1>2 DEF Slice

-----------------------------------------------------------------------------
(* The bridge. *)

LEMMA Sizes ==
    ASSUME NEW j \in Layouts
    PROVE  /\ MicroBatch \in Nat \ {0} /\ Microbatches \in Nat \ {0}
           /\ \A m \in {"language", "encoder"} :
                 /\ j.dp[m] \in Nat \ {0} /\ j.pp[m] \in Nat \ {0}
                 /\ MicroBatch \div j.dp[m] \in Nat \ {0}
                 /\ MicroBatch = j.dp[m] * (MicroBatch \div j.dp[m])
<1>1. MicroBatch \in Nat \ {0} /\ Microbatches \in Nat \ {0}
  BY MimoConstants
<1>2. ASSUME NEW m \in {"language", "encoder"}
      PROVE  j.dp[m] \in Nat \ {0} /\ j.pp[m] \in Nat \ {0} /\ MicroBatch % j.dp[m] = 0
  <2>1. j.dp \in [{"language", "encoder"} -> Nat \ {0}] /\ j.pp \in [{"language", "encoder"} -> Nat \ {0}]
    BY MimoConstants
  <2>2. MicroBatch % j.dp[m] = 0
    BY MimoConstants
  <2> QED BY <2>1, <2>2
<1> QED BY <1>1, <1>2, Divided

\* When there is a larger size, it is a multiple of the other.
LEMMA Multiple ==
    ASSUME NEW a \in Nat \ {0}, NEW b \in Nat \ {0}, a >= b, a % b = 0 \/ b % a = 0
    PROVE  a \div b \in Nat \ {0} /\ a = b * (a \div b)
<1>1. CASE a % b = 0
  BY <1>1, Divided
<1>2. CASE b % a = 0
  <2> DEFINE c == b \div a
  <2>1. c \in Nat \ {0} /\ b = a * c
    BY <1>2, Divided
  <2> HIDE DEF c
  <2>2. a * c >= a
    BY <2>1
  <2>3. a = b
    BY <2>1, <2>2
  <2>4. b * 1 = b
    OBVIOUS
  <2>5. b \div b = 1
    BY <2>4, ExactQuotient
  <2> QED BY <2>3, <2>4, <2>5
<1> QED BY <1>1, <1>2

\* A replica of the language model is sent what the encoder made of the replica's own
\* slice, when the replicas of the encoder send what they made of theirs.
THEOREM BridgeKeepsSlices ==
    ASSUME NEW j \in Layouts, NEW from \in Nat, NEW k \in 0 .. j.dp["language"] - 1, NEW out,
           \A e \in Feeding(j, k) : out[e] = Run(from, MicroBatch \div j.dp["encoder"], e)
    PROVE  Bridged(j, out, k) = Run(from, MicroBatch \div j.dp["language"], k)
<1> DEFINE a == j.dp["encoder"]
           b == j.dp["language"]
           m == MicroBatch \div a
           p == MicroBatch \div b
           f == Fan(j)
<1>1. /\ a \in Nat \ {0} /\ m \in Nat \ {0} /\ MicroBatch = a * m
      /\ b \in Nat \ {0} /\ p \in Nat \ {0} /\ MicroBatch = b * p
  BY Sizes
<1>2. a % b = 0 \/ b % a = 0
  BY MimoConstants
<1>3. k \in 0 .. b - 1
  OBVIOUS
<1>4. CASE a >= b
  <2>1. f = a \div b
    BY <1>4 DEF Fan
  <2>2. f \in Nat \ {0} /\ a = b * f
    BY <1>1, <1>2, <1>4, <2>1, Multiple
  <2>3. Feeding(j, k) = {k * f + i : i \in 0 .. f - 1}
    BY <1>4 DEF Feeding
  <2>4. Bridged(j, out, k) = Cat([i \in 0 .. f - 1 |-> out[k * f + i]], f)
    BY <1>4 DEF Bridged
  <2>5. \A i \in 0 .. f - 1 : out[k * f + i] = Run(from, m, k * f + i)
    BY <2>3
  <2> HIDE DEF a, b, m, p, f
  <2>6. f * m \in Nat /\ MicroBatch = b * (f * m)
    BY <1>1, <2>2
  <2>7. p = f * m
    BY <1>1, <2>6, ExactQuotient DEF p
  <2>8. Cat([i \in 0 .. f - 1 |-> out[k * f + i]], f) = Run(from, f * m, k)
    <3> DEFINE part == [i \in 0 .. f - 1 |-> out[k * f + i]]
    <3>1. \A i \in 0 .. f - 1 : part[i] = Run(from, m, k * f + i)
      BY <2>5
    <3>2. k \in Nat
      BY <1>1, <1>3
    <3>3. f \in Nat \ {0} /\ m \in Nat \ {0}
      BY <1>1, <2>2
    <3> HIDE DEF part
    <3>4. Cat(part, f) = Run(from, f * m, k)
      BY <3>1, <3>2, <3>3, CatOfRuns
    <3> QED BY <3>4 DEF part
  <2> QED BY <2>4, <2>7, <2>8 DEF p, b
<1>5. CASE ~(a >= b)
  <2>1. f = b \div a
    BY <1>5 DEF Fan
  <2>2. b >= a
    BY <1>1, <1>5
  <2>3. f \in Nat \ {0} /\ b = a * f
    BY <1>1, <1>2, <2>1, <2>2, Multiple
  <2>4. Bridged(j, out, k) = Part(out[k \div f], f, k % f) /\ k \div f \in Feeding(j, k)
    BY <1>5 DEF Bridged, Feeding
  <2>5. out[k \div f] = Run(from, m, k \div f)
    BY <2>4
  <2> HIDE DEF a, b, m, p, f
  <2>6. f * p \in Nat /\ MicroBatch = a * (f * p)
    BY <1>1, <2>3
  <2>7. m = f * p
    BY <1>1, <2>6, ExactQuotient DEF m
  <2>8. Part(Run(from, f * p, k \div f), f, k % f) = Run(from, p, k)
    <3>1. f \in Nat \ {0} /\ p \in Nat \ {0} /\ k \in Nat
      BY <1>1, <1>3, <2>3
    <3> QED BY <3>1, PartAt
  <2> QED BY <2>4, <2>5, <2>7, <2>8 DEF p, b
<1> QED BY <1>4, <1>5

LEMMA FeedingRange ==
    ASSUME NEW j \in Layouts, NEW k \in 0 .. j.dp["language"] - 1
    PROVE  Feeding(j, k) \subseteq 0 .. j.dp["encoder"] - 1
<1> DEFINE a == j.dp["encoder"]
           b == j.dp["language"]
           f == Fan(j)
<1>1. a \in Nat \ {0} /\ b \in Nat \ {0} /\ (a % b = 0 \/ b % a = 0) /\ k \in 0 .. b - 1
  BY Sizes, MimoConstants
<1>2. CASE a >= b
  <2>1. f = a \div b /\ Feeding(j, k) = {k * f + i : i \in 0 .. f - 1}
    BY <1>2 DEF Fan, Feeding
  <2> HIDE DEF a, b, f
  <2>2. f \in Nat \ {0} /\ a = b * f
    BY <1>1, <1>2, <2>1, Multiple
  <2>3. (k + 1) * f <= b * f /\ (k + 1) * f = k * f + f /\ k * f \in Nat
    BY <1>1, <2>2
  <2>4. \A i \in 0 .. f - 1 : k * f + i \in 0 .. a - 1
    BY <2>2, <2>3
  <2> QED BY <2>1, <2>4 DEF a
<1>3. CASE ~(a >= b)
  <2>1. f = b \div a /\ Feeding(j, k) = {k \div f}
    BY <1>3 DEF Fan, Feeding
  <2> HIDE DEF a, b, f
  <2>2. b >= a
    BY <1>1, <1>3
  <2>3. f \in Nat \ {0} /\ b = a * f
    BY <1>1, <2>1, <2>2, Multiple
  <2> DEFINE i == k + 1
  <2>4. i \in 1 .. a * f /\ i - 1 = k
    BY <1>1, <2>3
  <2> HIDE DEF i
  <2>5. (i - 1) \div f \in 0 .. a - 1
    BY <1>1, <2>3, <2>4, BlockAndPlace
  <2> QED BY <2>1, <2>4, <2>5 DEF a
<1> QED BY <1>2, <1>3

-----------------------------------------------------------------------------
(* The invariant. *)

Places == {"run", "tokens", "ready", "logging", "loss", "count", "save", "done"}

\* The samples of r's replica in microbatch n of step s.
Share(s, n, r) == Run(s * (Microbatches * MicroBatch) + (n - 1) * MicroBatch,
                      MicroBatch \div job.dp[r[1]], r[2])

MimoType ==
    /\ job \in Layouts
    /\ pc \in [Ranks(job) -> Places]
    /\ step \in [Ranks(job) -> Nat]
    /\ consumed \in [Ranks(job) -> Nat]
    /\ read \in [Ranks(job) -> Nat]
    /\ work \in [Ranks(job) -> Seq([hidden : Seq(Nat), samples : Seq(Nat)])]
    /\ DOMAIN grad = Ranks(job)
    /\ \A r \in Ranks(job) : \E S : grad[r] \in Seq(S)
    /\ saved \in [step : Nat, consumed : Nat]

\* Consumed samples are those of the steps counted, in train states and in checkpoints.
Counted ==
    /\ saved.consumed = saved.step * (Microbatches * MicroBatch)
    /\ \A r \in Ranks(job) : consumed[r] = step[r] * (Microbatches * MicroBatch)

\* A loader is at the microbatch its rank computes next.
Loaded == \A r \in Ranks(job) : NeedsData(r) =>
              read[r] = consumed[r] + Len(work[r]) * MicroBatch

\* Every microbatch computed is of the rank's own share.
Worked ==
    \A r \in Ranks(job) : \A n \in 1 .. Len(work[r]) :
        /\ work[r][n].hidden = Share(step[r], n, r)
        /\ work[r][n].samples = Share(step[r], n, r)

\* A rank leaves the schedule with all microbatches.
Whole ==
    \A r \in Ranks(job) :
        /\ Len(grad[r]) <= Len(work[r])
        /\ Len(work[r]) <= Microbatches
        /\ pc[r] \in {"save", "done"} => work[r] = <<>>
        /\ pc[r] \notin {"run", "save", "done"} => Len(work[r]) = Microbatches

MimoInv == MimoType /\ Counted /\ Loaded /\ Worked /\ Whole

LEMMA RankParts ==
    ASSUME NEW j \in Layouts, NEW r \in Ranks(j)
    PROVE  /\ r[1] \in {"language", "encoder"}
           /\ r[2] \in 0 .. j.dp[r[1]] - 1
           /\ r[3] \in 0 .. j.pp[r[1]] - 1
           /\ r = <<r[1], r[2], r[3]>>
<1>1. r \in Members(j, "language") \/ r \in Members(j, "encoder")
  BY DEF Ranks
<1> QED BY <1>1 DEF Members

LEMMA RankOf ==
    ASSUME NEW j \in Layouts, NEW m \in {"language", "encoder"},
           NEW d \in 0 .. j.dp[m] - 1, NEW p \in 0 .. j.pp[m] - 1
    PROVE  <<m, d, p>> \in Ranks(j)
BY DEF Ranks, Members

\* Train states and loaders as a checkpoint makes them.
LEMMA NewInv ==
    ASSUME job' \in Layouts, NEW c \in [step : Nat, consumed : Nat],
           c.consumed = c.step * (Microbatches * MicroBatch),
           saved' = c, NewProcesses(job', c)
    PROVE  MimoInv'
<1>1. MimoType'
  <2>1. \A r \in Ranks(job') : grad'[r] \in Seq({})
    BY DEF NewProcesses
  <2> QED BY <2>1 DEF MimoType, NewProcesses, Start, Places
<1>2. MicroBatch \in Nat /\ Microbatches \in Nat
  BY MimoConstants
<1>3. Counted'
  BY DEF Counted, NewProcesses
<1>4. Loaded'
  BY <1>2 DEF Loaded, NewProcesses
<1>5. Worked'
  BY DEF Worked, NewProcesses
<1>6. Whole'
  BY <1>2 DEF Whole, NewProcesses, Start
<1> QED BY <1>1, <1>3, <1>4, <1>5, <1>6 DEF MimoInv

\* Steps that leave the microbatches alone.
LEMMA PlacesOnly ==
    ASSUME MimoInv, UNCHANGED <<job, state, batch, saved>>, pc' \in [Ranks(job) -> Places],
           \A r \in Ranks(job) :
               /\ pc'[r] \in {"save", "done"} => pc[r] \in {"save", "done"}
               /\ pc'[r] \notin {"run", "save", "done"} =>
                     pc[r] \notin {"run", "save", "done"} \/ Len(grad[r]) = Microbatches
    PROVE  MimoInv'
<1>1. MimoType'
  BY DEF MimoInv, MimoType, state, batch
<1>2. Counted' /\ Loaded' /\ Worked'
  BY DEF MimoInv, Counted, Loaded, Worked, Share, state, batch
<1>3. Whole'
  <2>1. \A r \in Ranks(job) : Len(grad[r]) \in Nat /\ Len(work[r]) \in Nat
    BY DEF MimoInv, MimoType
  <2>2. Microbatches \in Nat
    BY MimoConstants
  <2>3. Whole /\ grad' = grad /\ work' = work /\ job' = job
    BY DEF MimoInv, batch
  <2> QED BY <2>1, <2>2, <2>3 DEF Whole
<1> QED BY <1>1, <1>2, <1>3 DEF MimoInv

LEMMA InitInv == Init => MimoInv
<1> SUFFICES ASSUME Init PROVE MimoInv
  OBVIOUS
<1>1. MicroBatch \in Nat /\ Microbatches \in Nat
  BY MimoConstants
<1>2. MimoType
  <2>1. \A r \in Ranks(job) : grad[r] \in Seq({})
    BY DEF Init
  <2> QED BY <2>1 DEF MimoType, Init, Places
<1>3. Counted
  <2>1. 0 = 0 * (Microbatches * MicroBatch)
    BY <1>1
  <2> QED BY <2>1 DEF Counted, Init
<1>4. Loaded /\ Worked /\ Whole
  BY <1>1 DEF Loaded, Worked, Whole, Init
<1> QED BY <1>2, <1>3, <1>4 DEF MimoInv

\* What r is given for its next microbatch is of its own share.
LEMMA InputIsOwn ==
    ASSUME MimoInv, NEW r \in Ranks(job), Forward(r)
    PROVE  LET n     == Len(work[r]) + 1
               own   == Slice(job, r, Drawn(r, read[r]))
               input == IF Producers(job, r) = {} THEN own ELSE Arriving(r, n)
           IN  /\ NeedsData(r) => own = Share(step[r], n, r)
               /\ input = Share(step[r], n, r)
               /\ Share(step[r], n, r) \in Seq(Nat)
<1> DEFINE n     == Len(work[r]) + 1
           own   == Slice(job, r, Drawn(r, read[r]))
           input == IF Producers(job, r) = {} THEN own ELSE Arriving(r, n)
           d     == job.dp[r[1]]
           from  == step[r] * (Microbatches * MicroBatch) + (n - 1) * MicroBatch
<1>1. job \in Layouts
  BY DEF MimoInv, MimoType
<1>2. /\ r[1] \in {"language", "encoder"} /\ r[2] \in 0 .. d - 1
      /\ r[3] \in 0 .. job.pp[r[1]] - 1 /\ r = <<r[1], r[2], r[3]>>
  BY <1>1, RankParts
<1>3. /\ MicroBatch \in Nat \ {0} /\ Microbatches \in Nat \ {0} /\ d \in Nat \ {0}
      /\ MicroBatch \div d \in Nat \ {0} /\ MicroBatch = d * (MicroBatch \div d)
  BY <1>1, <1>2, Sizes
<1>4. step[r] \in Nat /\ Len(work[r]) \in Nat /\ n - 1 = Len(work[r])
  BY DEF MimoInv, MimoType
<1>5. from \in Nat
  <2>1. Microbatches * MicroBatch \in Nat /\ (n - 1) * MicroBatch \in Nat
    BY <1>3, <1>4
  <2>2. step[r] * (Microbatches * MicroBatch) \in Nat
    BY <1>4, <2>1
  <2> QED BY <2>1, <2>2
<1>6. Share(step[r], n, r) = Run(from, MicroBatch \div d, r[2])
  BY DEF Share
<1>7. Share(step[r], n, r) \in Seq(Nat)
  <2> DEFINE m == MicroBatch \div d
             k == r[2]
  <2>1. from \in Nat /\ m \in Nat \ {0} /\ k \in Nat
    BY <1>2, <1>3, <1>5
  <2> HIDE DEF from, m, k
  <2>2. Run(from, m, k) \in Seq(Nat)
    BY <2>1, RunType
  <2> QED BY <1>6, <2>2 DEF m, k
<1>8. NeedsData(r) => own = Share(step[r], n, r)
  <2>1. SUFFICES ASSUME NeedsData(r) PROVE own = Share(step[r], n, r)
    OBVIOUS
  <2>2. read[r] = from
    BY <1>4, <2>1 DEF MimoInv, Counted, Loaded
  <2> DEFINE m == MicroBatch \div d
  <2>3. /\ from \in Nat /\ d \in Nat \ {0} /\ m \in Nat \ {0} /\ MicroBatch = d * m
        /\ job.dp[r[1]] = d /\ r[2] \in 0 .. d - 1
    BY <1>2, <1>3, <1>5
  <2> HIDE DEF from, m, d
  <2>4. Slice(job, r, Drawn(r, from)) = Run(from, m, r[2])
    BY <2>3, SliceAt
  <2> QED BY <1>6, <2>2, <2>4 DEF m
<1>9. input = Share(step[r], n, r)
  <2>1. CASE Producers(job, r) = {}
    <3>1. r[3] \in Nat /\ ~(r[3] > 0)
      <4>1. job.pp[r[1]] \in Nat \ {0}
        BY <1>1, <1>2, Sizes
      <4>2. r[3] \in Nat
        BY <1>2, <4>1
      <4>3. r[3] > 0 => Producers(job, r) = {<<r[1], r[2], r[3] - 1>>}
        BY DEF Producers
      <4> QED BY <2>1, <4>2, <4>3
    <3>2. NeedsData(r)
      BY <1>2, <3>1 DEF NeedsData
    <3> QED BY <1>8, <2>1, <3>2
  <2>2. CASE Producers(job, r) # {} /\ r[3] > 0
    <3> DEFINE q == <<r[1], r[2], r[3] - 1>>
    <3>1. q \in Producers(job, r) /\ q[1] = r[1] /\ q[2] = r[2] /\ q[3] = r[3] - 1
      BY <2>2 DEF Producers
    <3>2. r[3] - 1 \in 0 .. job.pp[r[1]] - 1
      BY <1>1, <1>2, <2>2, Sizes
    <3>3. q \in Ranks(job)
      BY <1>1, <1>2, <3>2, RankOf
    <3>4. step[q] = step[r] /\ Len(work[q]) >= n /\ Len(work[q]) \in Nat
      BY <3>1, <3>3 DEF Forward, MimoInv, MimoType
    <3>5. work[q][n].hidden = Share(step[r], n, q)
      <4>1. n \in 1 .. Len(work[q])
        BY <1>4, <3>4
      <4> HIDE DEF n
      <4> QED BY <3>3, <3>4, <4>1 DEF MimoInv, Worked
    <3>6. Share(step[r], n, q) = Share(step[r], n, r)
      BY <3>1 DEF Share
    <3>7. input = work[q][n].hidden
      BY <1>2, <2>2 DEF Arriving
    <3> QED BY <3>5, <3>6, <3>7
  <2>3. CASE Producers(job, r) # {} /\ ~(r[3] > 0)
    <3> DEFINE q(e) == <<"encoder", e, job.pp["encoder"] - 1>>
               out == [e \in 0 .. job.dp["encoder"] - 1 |->
                          IF Len(work[q(e)]) >= n THEN work[q(e)][n].hidden ELSE <<>>]
    <3>1. r[3] = 0
      BY <1>1, <1>2, <2>3, Sizes
    <3>2. r[1] = "language" /\ Producers(job, r) = {q(e) : e \in Feeding(job, r[2])}
      BY <1>2, <2>3, <3>1 DEF Producers
    <3>3. input = Bridged(job, out, r[2])
      BY <2>3, <3>1, <3>2 DEF Arriving
    <3>4. ASSUME NEW e \in Feeding(job, r[2])
          PROVE  out[e] = Run(from, MicroBatch \div job.dp["encoder"], e)
      <4>1. e \in 0 .. job.dp["encoder"] - 1
        BY <1>1, <1>2, <3>2, FeedingRange
      <4>2. job.pp["encoder"] - 1 \in 0 .. job.pp["encoder"] - 1
        <5>1. job.pp["encoder"] \in Nat \ {0}
          BY <1>1, Sizes
        <5> QED BY <5>1
      <4>3. q(e) \in Ranks(job)
        BY <1>1, <4>1, <4>2, RankOf
      <4>4. q(e) \in Producers(job, r)
        BY <3>2
      <4>5. step[q(e)] = step[r] /\ Len(work[q(e)]) >= n /\ Len(work[q(e)]) \in Nat
        BY <4>3, <4>4 DEF Forward, MimoInv, MimoType
      <4>6. out[e] = work[q(e)][n].hidden
        BY <4>1, <4>5
      <4>7. work[q(e)][n].hidden = Share(step[r], n, q(e))
        <5>1. n \in 1 .. Len(work[q(e)])
          BY <1>4, <4>5
        <5> HIDE DEF n, q
        <5> QED BY <4>3, <4>5, <5>1 DEF MimoInv, Worked
      <4>8. Share(step[r], n, q(e)) = Run(from, MicroBatch \div job.dp["encoder"], e)
        BY DEF Share
      <4> QED BY <4>6, <4>7, <4>8
    <3>5. r[2] \in 0 .. job.dp["language"] - 1
      BY <1>2, <3>2
    <3> HIDE DEF out, from
    <3>6. Bridged(job, out, r[2]) = Run(from, MicroBatch \div job.dp["language"], r[2])
      BY <1>1, <1>5, <3>4, <3>5, BridgeKeepsSlices
    <3> QED BY <1>6, <3>2, <3>3, <3>6
  <2> QED BY <2>1, <2>2, <2>3
<1> QED BY <1>7, <1>8, <1>9

\* Another gradient.
LEMMA OneMore ==
    ASSUME NEW S, NEW s \in Seq(S), NEW e
    PROVE  Append(s, e) \in Seq(S \cup {e}) /\ Len(Append(s, e)) = Len(s) + 1
<1>1. s \in Seq(S \cup {e})
  OBVIOUS
<1> QED BY <1>1

LEMMA ForwardInv ==
    ASSUME MimoInv, NEW r \in Ranks(job), Forward(r)
    PROVE  MimoInv'
<1> DEFINE n     == Len(work[r]) + 1
           own   == Slice(job, r, Drawn(r, read[r]))
           input == IF Producers(job, r) = {} THEN own ELSE Arriving(r, n)
           made  == [hidden |-> input, samples |-> IF NeedsData(r) THEN own ELSE input]
           share == Share(step[r], n, r)
<1>1. made = [hidden |-> share, samples |-> share] /\ share \in Seq(Nat)
  BY InputIsOwn
<1>2. /\ pc[r] = "run" /\ n <= Microbatches
      /\ work' = [work EXCEPT ![r] = Append(@, made)]
      /\ read' = [read EXCEPT ![r] = IF NeedsData(r) THEN @ + MicroBatch ELSE @]
      /\ UNCHANGED <<job, pc, state, grad, saved>>
  BY DEF Forward
<1> HIDE DEF made, share
<1>3. /\ work[r] \in Seq([hidden : Seq(Nat), samples : Seq(Nat)])
      /\ made \in [hidden : Seq(Nat), samples : Seq(Nat)]
      /\ read[r] \in Nat /\ Len(work[r]) \in Nat /\ DOMAIN work = Ranks(job) /\ DOMAIN read = Ranks(job)
  BY <1>1 DEF MimoInv, MimoType
<1>4. MicroBatch \in Nat /\ Microbatches \in Nat
  BY MimoConstants
<1>5. /\ work'[r] = Append(work[r], made)
      /\ Len(work'[r]) = n
      /\ work'[r][n] = made
      /\ \A i \in 1 .. n - 1 : work'[r][i] = work[r][i]
      /\ work'[r] \in Seq([hidden : Seq(Nat), samples : Seq(Nat)])
      /\ \A q \in Ranks(job) \ {r} : work'[q] = work[q] /\ read'[q] = read[q]
  BY <1>2, <1>3
<1>6. MimoType'
  <2>1. work' \in [Ranks(job) -> Seq([hidden : Seq(Nat), samples : Seq(Nat)])]
    BY <1>2, <1>3, <1>5 DEF MimoInv, MimoType
  <2>2. read' \in [Ranks(job) -> Nat]
    BY <1>2, <1>3, <1>4 DEF MimoInv, MimoType
  <2> QED BY <1>2, <2>1, <2>2 DEF MimoInv, MimoType, state
<1>7. Counted'
  BY <1>2 DEF MimoInv, Counted, state
<1>8. Loaded'
  <2>1. SUFFICES ASSUME NEW q \in Ranks(job), NeedsData(q)
                 PROVE  read'[q] = consumed[q] + Len(work'[q]) * MicroBatch
    BY <1>2 DEF Loaded, state
  <2>2. CASE q = r
    <3>1. read'[r] = read[r] + MicroBatch
      BY <1>2, <1>3, <2>1, <2>2
    <3>2. read[r] = consumed[r] + Len(work[r]) * MicroBatch /\ consumed[r] \in Nat
      BY <2>1, <2>2 DEF MimoInv, Loaded, MimoType
    <3>3. n * MicroBatch = Len(work[r]) * MicroBatch + MicroBatch /\ Len(work[r]) * MicroBatch \in Nat
      BY <1>3, <1>4
    <3>4. Len(work'[r]) * MicroBatch = Len(work[r]) * MicroBatch + MicroBatch
      BY <1>5, <3>3
    <3>5. ASSUME NEW before \in Nat, NEW after \in Nat, after = before + MicroBatch,
                 read[r] = consumed[r] + before
          PROVE  read'[r] = consumed[r] + after
      BY <1>4, <3>1, <3>2, <3>5
    <3>6. read'[r] = consumed[r] + Len(work'[r]) * MicroBatch
      BY <1>4, <3>2, <3>3, <3>4, <3>5
    <3> QED BY <2>2, <3>6
  <2>3. CASE q # r
    BY <1>5, <2>1, <2>3 DEF MimoInv, Loaded
  <2> QED BY <2>2, <2>3
<1>9. Worked'
  <2>1. SUFFICES ASSUME NEW q \in Ranks(job), NEW i \in 1 .. Len(work'[q])
                 PROVE  /\ work'[q][i].hidden = Share(step[q], i, q)
                        /\ work'[q][i].samples = Share(step[q], i, q)
    BY <1>2 DEF Worked, Share, state
  <2>2. CASE q = r /\ i = n
    BY <1>1, <1>5, <2>2 DEF share
  <2>3. CASE q = r /\ i # n
    <3>1. i \in 1 .. Len(work[r]) /\ i \in 1 .. n - 1
      BY <1>3, <1>5, <2>3
    <3>2. work'[r][i] = work[r][i]
      BY <1>5, <3>1
    <3> QED BY <2>3, <3>1, <3>2 DEF MimoInv, Worked
  <2>4. CASE q # r
    BY <1>5, <2>4 DEF MimoInv, Worked
  <2> QED BY <2>2, <2>3, <2>4
<1>10. Whole'
  <2>1. SUFFICES ASSUME NEW q \in Ranks(job)
                 PROVE  /\ Len(grad[q]) <= Len(work'[q])
                        /\ Len(work'[q]) <= Microbatches
                        /\ pc[q] \in {"save", "done"} => work'[q] = <<>>
                        /\ pc[q] \notin {"run", "save", "done"} => Len(work'[q]) = Microbatches
    BY <1>2 DEF Whole
  <2>2. Len(grad[q]) \in Nat /\ Len(grad[q]) <= Len(work[q])
    BY DEF MimoInv, MimoType, Whole
  <2>3. CASE q = r
    BY <1>2, <1>3, <1>5, <2>2, <2>3
  <2>4. CASE q # r
    BY <1>5, <2>4 DEF MimoInv, Whole
  <2> QED BY <2>3, <2>4
<1> QED BY <1>6, <1>7, <1>8, <1>9, <1>10 DEF MimoInv

LEMMA BackwardInv ==
    ASSUME MimoInv, NEW r \in Ranks(job), Backward(r)
    PROVE  MimoInv'
<1>1. PICK e : grad' = [grad EXCEPT ![r] = Append(@, e)]
  BY DEF Backward
<1>2. Len(grad[r]) + 1 <= Len(work[r]) /\ UNCHANGED <<job, pc, state, read, work, saved>>
  BY DEF Backward
<1>3. PICK S : grad[r] \in Seq(S)
  BY DEF MimoInv, MimoType
<1>4. /\ DOMAIN grad' = Ranks(job)
      /\ grad'[r] = Append(grad[r], e)
      /\ \A q \in Ranks(job) \ {r} : grad'[q] = grad[q]
  BY <1>1 DEF MimoInv, MimoType
<1>5. grad'[r] \in Seq(S \cup {e}) /\ Len(grad'[r]) = Len(grad[r]) + 1
  BY <1>3, <1>4, OneMore
<1>6. MimoType'
  <2>1. ASSUME NEW q \in Ranks(job) PROVE \E T : grad'[q] \in Seq(T)
    <3>1. CASE q = r
      BY <1>5, <3>1
    <3>2. CASE q # r
      BY <1>4, <3>2 DEF MimoInv, MimoType
    <3> QED BY <3>1, <3>2
  <2> QED BY <1>2, <1>4, <2>1 DEF MimoInv, MimoType, state
<1>7. Counted' /\ Loaded' /\ Worked'
  BY <1>2 DEF MimoInv, Counted, Loaded, Worked, Share, state
<1>8. Whole'
  BY <1>2, <1>4, <1>5 DEF MimoInv, Whole
<1> QED BY <1>6, <1>7, <1>8 DEF MimoInv

LEMMA CountInv ==
    ASSUME MimoInv, NEW r \in Ranks(job), CountStep(r)
    PROVE  MimoInv'
<1> DEFINE b == Microbatches * MicroBatch
<1>1. /\ pc[r] = "count"
      /\ step' = [step EXCEPT ![r] = @ + 1]
      /\ consumed' = [consumed EXCEPT ![r] = @ + b]
      /\ pc' = [pc EXCEPT ![r] = IF step'[r] % SaveInterval = 0 THEN "save" ELSE Start(step'[r])]
      /\ work' = [work EXCEPT ![r] = <<>>] /\ grad' = [grad EXCEPT ![r] = <<>>]
      /\ UNCHANGED <<job, read, saved>>
  BY DEF CountStep, StepSamples
<1>2. MicroBatch \in Nat /\ Microbatches \in Nat /\ b \in Nat
  BY MimoConstants
<1> HIDE DEF b
<1>3. /\ step[r] \in Nat /\ consumed[r] \in Nat /\ read[r] \in Nat
      /\ pc \in [Ranks(job) -> Places] /\ step \in [Ranks(job) -> Nat]
      /\ consumed \in [Ranks(job) -> Nat] /\ DOMAIN work = Ranks(job) /\ DOMAIN grad = Ranks(job)
  BY DEF MimoInv, MimoType
<1>4. /\ step'[r] = step[r] + 1 /\ consumed'[r] = consumed[r] + b
      /\ work'[r] = <<>> /\ grad'[r] = <<>>
      /\ pc'[r] \in {"run", "save", "done"}
  BY <1>1, <1>3 DEF Start
<1>5. \A q \in Ranks(job) \ {r} :
          /\ pc'[q] = pc[q] /\ step'[q] = step[q] /\ consumed'[q] = consumed[q]
          /\ work'[q] = work[q] /\ grad'[q] = grad[q]
  BY <1>1, <1>3
<1>6. MimoType'
  <2>1. /\ pc' \in [Ranks(job) -> Places]
        /\ step' \in [Ranks(job) -> Nat] /\ consumed' \in [Ranks(job) -> Nat]
    BY <1>1, <1>2, <1>3, <1>4 DEF Places
  <2>2. work' \in [Ranks(job) -> Seq([hidden : Seq(Nat), samples : Seq(Nat)])]
    BY <1>1 DEF MimoInv, MimoType
  <2>3. ASSUME NEW q \in Ranks(job) PROVE \E T : grad'[q] \in Seq(T)
    <3>1. CASE q = r
      <4>1. <<>> \in Seq({}) /\ grad'[q] = <<>>
        BY <1>4, <3>1
      <4>2. grad'[q] \in Seq({})
        BY <4>1
      <4> QED BY <4>2
    <3>2. CASE q # r
      BY <1>5, <3>2 DEF MimoInv, MimoType
    <3> QED BY <3>1, <3>2
  <2> QED BY <1>1, <2>1, <2>2, <2>3 DEF MimoInv, MimoType
<1>7. Counted'
  <2>1. SUFFICES ASSUME NEW q \in Ranks(job) PROVE consumed'[q] = step'[q] * b
    BY <1>1 DEF MimoInv, Counted, b
  <2>2. consumed[q] = step[q] * b
    BY DEF MimoInv, Counted, b
  <2>3. CASE q = r
    <3>1. (step[r] + 1) * b = step[r] * b + b
      BY <1>2, <1>3
    <3> QED BY <1>4, <2>2, <2>3, <3>1
  <2>4. CASE q # r
    BY <1>5, <2>2, <2>4
  <2> QED BY <2>3, <2>4
<1>8. Loaded'
  <2>1. SUFFICES ASSUME NEW q \in Ranks(job), NeedsData(q)
                 PROVE  read[q] = consumed'[q] + Len(work'[q]) * MicroBatch
    BY <1>1 DEF Loaded
  <2>2. read[q] = consumed[q] + Len(work[q]) * MicroBatch
    BY <2>1 DEF MimoInv, Loaded
  <2>3. CASE q = r
    <3>1. Len(work[r]) = Microbatches
      BY <1>1 DEF MimoInv, Whole
    <3>2. read[r] = consumed[r] + b
      BY <2>2, <2>3, <3>1 DEF b
    <3>3. Len(work'[r]) * MicroBatch = 0
      BY <1>2, <1>4
    <3> QED BY <1>2, <1>3, <1>4, <2>3, <3>2, <3>3
  <2>4. CASE q # r
    BY <1>5, <2>2, <2>4
  <2> QED BY <2>3, <2>4
<1>9. Worked'
  <2>1. SUFFICES ASSUME NEW q \in Ranks(job), NEW i \in 1 .. Len(work'[q])
                 PROVE  /\ work'[q][i].hidden = Share(step'[q], i, q)
                        /\ work'[q][i].samples = Share(step'[q], i, q)
    BY <1>1 DEF Worked, Share
  <2>2. q # r
    BY <1>4
  <2> QED BY <1>5, <2>2 DEF MimoInv, Worked
<1>10. Whole'
  BY <1>1, <1>2, <1>4, <1>5 DEF MimoInv, Whole
<1> QED BY <1>6, <1>7, <1>8, <1>9, <1>10 DEF MimoInv

\* The rank whose train state is saved.
LEMMA FirstInJob ==
    ASSUME job \in Layouts
    PROVE  FirstRank(job) \in Ranks(job)
<1> DEFINE m == FirstModule(job)
<1>1. m \in {"language", "encoder"}
  BY DEF FirstModule
<1> HIDE DEF m
<1>2. 0 \in 0 .. job.dp[m] - 1 /\ 0 \in 0 .. job.pp[m] - 1
  <2>1. job.dp[m] \in Nat \ {0} /\ job.pp[m] \in Nat \ {0}
    BY <1>1, Sizes
  <2> QED BY <2>1
<1>3. <<m, 0, 0>> \in Ranks(job)
  BY <1>1, <1>2, RankOf
<1> QED BY <1>3 DEF FirstRank, m

LEMMA SaveInv ==
    ASSUME MimoInv, SaveCheckpoint
    PROVE  MimoInv'
<1>1. /\ saved' = [step |-> step[FirstRank(job)], consumed |-> consumed[FirstRank(job)]]
      /\ pc' = [r \in Ranks(job) |-> Start(step[r])]
      /\ \A r \in Ranks(job) : pc[r] = "save"
      /\ UNCHANGED <<job, state, batch>>
  BY DEF SaveCheckpoint
<1>2. FirstRank(job) \in Ranks(job)
  BY FirstInJob DEF MimoInv, MimoType
<1>3. MimoType'
  <2>1. saved' \in [step : Nat, consumed : Nat]
    BY <1>1, <1>2 DEF MimoInv, MimoType
  <2>2. pc' \in [Ranks(job) -> Places]
    BY <1>1 DEF Start, Places
  <2> QED BY <1>1, <2>1, <2>2 DEF MimoInv, MimoType, state, batch
<1>4. Counted'
  BY <1>1, <1>2 DEF MimoInv, Counted, state
<1>5. Loaded' /\ Worked'
  BY <1>1 DEF MimoInv, Loaded, Worked, Share, state, batch
<1>6. Whole'
  <2>1. \A r \in Ranks(job) : pc'[r] \in {"run", "done"} /\ work[r] = <<>>
    BY <1>1 DEF Start, MimoInv, Whole
  <2> QED BY <1>1, <2>1 DEF MimoInv, Whole, batch
<1> QED BY <1>3, <1>4, <1>5, <1>6 DEF MimoInv

LEMMA CollectivesInv ==
    ASSUME MimoInv,
           (\E r \in Ranks(job) : FinalizeGrads(r)) \/ BroadcastTokens \/ OptimizerStep
           \/ AgreeOnSource \/ BroadcastLoss
    PROVE  MimoInv'
<1>1. CASE \E r \in Ranks(job) : FinalizeGrads(r)
  <2>1. PICK r \in Ranks(job) : FinalizeGrads(r)
    BY <1>1
  <2> DEFINE whole == job.perToken /\ r[1] = "language"
             g == {q \in Members(job, r[1]) : whole \/ q[3] = r[3]}
  <2>2. /\ \A q \in g : pc[q] = "run" /\ Len(grad[q]) = Microbatches
        /\ pc' = [q \in Ranks(job) |->
               IF q \in g THEN (IF job.perToken THEN "tokens" ELSE "ready") ELSE pc[q]]
        /\ UNCHANGED <<job, state, batch, saved>>
    BY <2>1 DEF FinalizeGrads
  <2> HIDE DEF g
  <2>3. pc' \in [Ranks(job) -> Places]
    BY <2>2 DEF Places, MimoInv, MimoType
  <2> QED BY <2>2, <2>3, PlacesOnly
<1>2. CASE BroadcastTokens
  <2>1. /\ \A r \in Ranks(job) : pc[r] = "tokens"
        /\ pc' = [r \in Ranks(job) |-> "ready"]
        /\ UNCHANGED <<job, state, batch, saved>>
    BY <1>2 DEF BroadcastTokens
  <2> QED BY <2>1, PlacesOnly DEF Places
<1>3. CASE OptimizerStep
  <2>1. /\ \A r \in Ranks(job) : pc[r] = "ready"
        /\ pc' = [r \in Ranks(job) |-> "logging"]
        /\ UNCHANGED <<job, state, batch, saved>>
    BY <1>3 DEF OptimizerStep
  <2> QED BY <2>1, PlacesOnly DEF Places
<1>4. CASE AgreeOnSource
  <2>1. /\ \A r \in Ranks(job) : pc[r] = "logging"
        /\ pc' = [r \in Ranks(job) |-> IF EntersBroadcast(job, r) THEN "loss" ELSE "count"]
        /\ UNCHANGED <<job, state, batch, saved>>
    BY <1>4 DEF AgreeOnSource
  <2>2. \A r \in Ranks(job) : pc'[r] \in {"loss", "count"}
    BY <2>1
  <2>3. pc' \in [Ranks(job) -> Places]
    BY <2>1 DEF Places
  <2> QED BY <2>1, <2>2, <2>3, PlacesOnly
<1>5. CASE BroadcastLoss
  <2>1. /\ \A r \in Ranks(job) : pc[r] = "loss"
        /\ pc' = [r \in Ranks(job) |-> "count"]
        /\ UNCHANGED <<job, state, batch, saved>>
    BY <1>5 DEF BroadcastLoss
  <2> QED BY <2>1, PlacesOnly DEF Places
<1> QED BY <1>1, <1>2, <1>3, <1>4, <1>5

LEMMA NextInv ==
    ASSUME MimoInv, [Next]_vars
    PROVE  MimoInv'
<1>1. ASSUME NEW r \in Ranks(job), Forward(r) \/ Backward(r) \/ CountStep(r) PROVE MimoInv'
  BY <1>1, ForwardInv, BackwardInv, CountInv
<1>2. CASE (\E r \in Ranks(job) : FinalizeGrads(r)) \/ BroadcastTokens \/ OptimizerStep
           \/ AgreeOnSource \/ BroadcastLoss
  BY <1>2, CollectivesInv
<1>3. CASE SaveCheckpoint
  BY <1>3, SaveInv
<1>4. CASE Crash
  <2>1. job' = job /\ saved' = saved /\ NewProcesses(job, saved)
    BY <1>4 DEF Crash
  <2>2. /\ job \in Layouts /\ saved \in [step : Nat, consumed : Nat]
        /\ saved.consumed = saved.step * (Microbatches * MicroBatch)
    BY DEF MimoInv, MimoType, Counted
  <2>3. job' \in Layouts /\ NewProcesses(job', saved)
    BY <2>1, <2>2
  <2> QED BY <2>1, <2>2, <2>3, NewInv
<1>5. CASE UNCHANGED vars
  <2>1. UNCHANGED <<job, state, batch, saved>> /\ pc' = pc
    BY <1>5 DEF vars, state, batch
  <2>2. pc' \in [Ranks(job) -> Places]
    BY <2>1 DEF MimoInv, MimoType
  <2> QED BY <2>1, <2>2, PlacesOnly
<1> QED BY <1>1, <1>2, <1>3, <1>4, <1>5 DEF Next, Train

\* Through the bridge and the pipeline a rank is sent the samples that it cut from its own
\* loader's microbatch, whatever the sizes of the two modules (dp_utils.py:191).
THEOREM EmbeddingsMeet == Spec => []EmbeddingsMeetTokens
<1>1. MimoInv => EmbeddingsMeetTokens
  <2> SUFFICES ASSUME MimoInv, NEW r \in Ranks(job), NEW n \in DOMAIN work[r]
               PROVE  work[r][n].hidden = work[r][n].samples
    BY DEF EmbeddingsMeetTokens
  <2>1. n \in 1 .. Len(work[r])
    BY DEF MimoInv, MimoType
  <2> QED BY <2>1 DEF MimoInv, Worked
<1> QED BY InitInv, NextInv, <1>1, PTL DEF Spec

-----------------------------------------------------------------------------
(* Each step trains both modules on its own samples. *)

\* The samples of a step.
StepRange(s) == s * Microbatches * MicroBatch .. (s + 1) * Microbatches * MicroBatch - 1

LEMMA SamplesOfRun ==
    ASSUME NEW from \in Nat, NEW m \in Nat \ {0}, NEW k \in Nat
    PROVE  SamplesOf(Run(from, m, k)) = from + k * m .. from + k * m + m - 1
<1> DEFINE a == k * m
<1>1. a \in Nat
  OBVIOUS
<1>2. SamplesOf(Run(from, m, k)) = {from + a + i - 1 : i \in 1 .. m}
  BY DEF SamplesOf, Run
<1> HIDE DEF a
<1>3. ASSUME NEW x \in from + a .. from + a + m - 1
      PROVE  x \in {from + a + i - 1 : i \in 1 .. m}
  <2>1. x - from - a + 1 \in 1 .. m /\ x = from + a + (x - from - a + 1) - 1
    BY <1>1
  <2> QED BY <2>1
<1>4. \A i \in 1 .. m : from + a + i - 1 \in from + a .. from + a + m - 1
  BY <1>1
<1>5. {from + a + i - 1 : i \in 1 .. m} = from + a .. from + a + m - 1
  BY <1>3, <1>4
<1> QED BY <1>2, <1>5 DEF a

\* A share by its first sample and its size.
FromOf(s, n) == s * (Microbatches * MicroBatch) + (n - 1) * MicroBatch
Width(m) == MicroBatch \div job.dp[m]
Cut(s, n, m, d) == FromOf(s, n) + d * Width(m) .. FromOf(s, n) + d * Width(m) + Width(m) - 1

LEMMA ShareRange ==
    ASSUME job \in Layouts, NEW m, m \in {"language", "encoder"}, NEW p, NEW s, s \in Nat,
           NEW d, d \in 0 .. job.dp[m] - 1, NEW n, n \in 1 .. Microbatches
    PROVE  /\ FromOf(s, n) \in Nat
           /\ SamplesOf(Share(s, n, <<m, d, p>>)) = Cut(s, n, m, d)
<1> DEFINE b == MicroBatch
           a == Microbatches
           base == s * (a * b)
<1>1. /\ job.dp[m] \in Nat \ {0} /\ Width(m) \in Nat \ {0} /\ b \in Nat \ {0} /\ a \in Nat \ {0}
  BY Sizes DEF Width
<1>2. Share(s, n, <<m, d, p>>) = Run(FromOf(s, n), Width(m), d)
  BY DEF Share, FromOf, Width
<1>3. a * b \in Nat /\ (n - 1) * b \in Nat
  BY <1>1
<1>4. base \in Nat
  BY <1>3
<1>5. FromOf(s, n) = base + (n - 1) * b
  BY DEF FromOf
<1> HIDE DEF base
<1>6. FromOf(s, n) \in Nat /\ d \in Nat
  BY <1>1, <1>3, <1>4, <1>5
<1>7. SamplesOf(Run(FromOf(s, n), Width(m), d)) = Cut(s, n, m, d)
  BY <1>1, <1>6, SamplesOfRun DEF Cut
<1> QED BY <1>2, <1>6, <1>7

\* The shares of all replicas, of all microbatches, are the samples of the step.
LEMMA SharesOfStep ==
    ASSUME job \in Layouts, NEW m \in {"language", "encoder"}, NEW p, NEW s \in Nat
    PROVE  \A x : x \in StepRange(s)
                  <=> \E d \in 0 .. job.dp[m] - 1 : \E n \in 1 .. Microbatches :
                          x \in SamplesOf(Share(s, n, <<m, d, p>>))
<1> DEFINE dp == job.dp[m]
           w == MicroBatch \div dp
           b == MicroBatch
           a == Microbatches
           base == s * (a * b)
           slice(d, n) == SamplesOf(Share(s, n, <<m, d, p>>))
<1>1. /\ dp \in Nat \ {0} /\ w \in Nat \ {0} /\ b \in Nat \ {0} /\ a \in Nat \ {0}
      /\ b = dp * w
  BY Sizes
<1>2. ASSUME NEW d \in 0 .. dp - 1, NEW n \in 1 .. a
      PROVE  slice(d, n) = base + (n - 1) * b + d * w .. base + (n - 1) * b + d * w + w - 1
  <2>1. slice(d, n) = Cut(s, n, m, d)
    BY ShareRange
  <2>2. FromOf(s, n) = base + (n - 1) * b /\ Width(m) = w
    BY DEF FromOf, Width
  <2> HIDE DEF slice, base, w
  <2> QED BY <2>1, <2>2 DEF Cut
<1> HIDE DEF w, dp, base, slice
<1>3. base \in Nat /\ a * b \in Nat
  BY <1>1 DEF base
<1>4. StepRange(s) = base .. base + a * b - 1
  <2>1. s * a * b = s * (a * b) /\ (s + 1) * a * b = s * (a * b) + a * b
    BY <1>1
  <2>2. s * a * b = base /\ (s + 1) * a * b = base + a * b
    BY <2>1 DEF base
  <2>3. StepRange(s) = s * a * b .. (s + 1) * a * b - 1
    BY DEF StepRange
  <2> DEFINE first == s * a * b
             end == (s + 1) * a * b
             size == a * b
  <2>4. /\ first = base /\ end = base + size /\ StepRange(s) = first .. end - 1
        /\ base \in Nat /\ size \in Nat
    BY <1>3, <2>2, <2>3
  <2> HIDE DEF first, end, size, base
  <2>5. StepRange(s) = base .. base + size - 1
    BY <2>4
  <2> QED BY <2>5 DEF size
<1>5. ASSUME NEW d \in 0 .. dp - 1, NEW n \in 1 .. a
      PROVE  slice(d, n) \subseteq base .. base + a * b - 1
  <2>1. /\ n * b <= a * b /\ n * b = (n - 1) * b + b /\ (n - 1) * b \in Nat
    BY <1>1
  <2>2. (d + 1) * w <= dp * w /\ (d + 1) * w = d * w + w /\ d * w \in Nat
    BY <1>1
  <2> DEFINE u == (n - 1) * b
             v == d * w
             ab == a * b
  <2>3. u \in Nat /\ v \in Nat /\ ab \in Nat /\ u + b <= ab /\ v + w <= b
    BY <1>1, <1>3, <2>1, <2>2
  <2>4. slice(d, n) = base + u + v .. base + u + v + w - 1
    BY <1>2
  <2> HIDE DEF u, v, ab
  <2>5. base + u + v .. base + u + v + w - 1 \subseteq base .. base + ab - 1
    BY <1>1, <1>3, <2>3
  <2> QED BY <2>4, <2>5 DEF ab
<1>6. ASSUME NEW x \in base .. base + a * b - 1
      PROVE  \E d \in 0 .. dp - 1, n \in 1 .. a : x \in slice(d, n)
  <2> DEFINE i == x - base + 1
             n == (i - 1) \div b
             j == ((i - 1) % b) + 1
             d == (j - 1) \div w
             c == (j - 1) % w
  <2>1. i \in 1 .. a * b /\ x = base + (i - 1)
    BY <1>3
  <2> HIDE DEF i
  <2>2. n \in 0 .. a - 1 /\ (i - 1) % b \in 0 .. b - 1 /\ n * b + ((i - 1) % b) = i - 1
    BY <1>1, <2>1, BlockAndPlace
  <2>3. j \in 1 .. b /\ n * b + (j - 1) = i - 1
    BY <1>1, <2>2
  <2> HIDE DEF n, j
  <2>4. j \in 1 .. dp * w
    BY <1>1, <2>3
  <2>5. d \in 0 .. dp - 1 /\ c \in 0 .. w - 1 /\ d * w + c = j - 1
    BY <1>1, <2>4, BlockAndPlace
  <2> HIDE DEF d, c
  <2>6. n + 1 \in 1 .. a /\ (n + 1) - 1 = n
    BY <1>1, <2>2
  <2>7. slice(d, n + 1) = base + n * b + d * w .. base + n * b + d * w + w - 1
    BY <1>2, <2>5, <2>6
  <2>8. n * b \in Nat /\ d * w \in Nat
    BY <1>1, <2>2, <2>5
  <2>9. x = base + n * b + d * w + c
    BY <1>1, <1>3, <2>1, <2>3, <2>5, <2>8
  <2>10. x \in base + n * b + d * w .. base + n * b + d * w + w - 1
    BY <1>1, <1>3, <2>5, <2>8, <2>9
  <2> QED BY <2>5, <2>6, <2>7, <2>10
<1>7. \A x : x \in base .. base + a * b - 1
             <=> \E d \in 0 .. dp - 1 : \E n \in 1 .. a : x \in slice(d, n)
  BY <1>5, <1>6
<1> QED BY <1>4, <1>7 DEF slice, dp

\* The steps a rank has made or is about to count.
Round(r) == IF pc[r] \in {"logging", "loss", "count"} THEN step[r] + 1 ELSE step[r]

\* Ranks count on their own, yet none is a whole step ahead.
InStep == \A r, q \in Ranks(job) : Round(r) = Round(q)

\* A gradient is of the samples of the rank's share.
Graded == \A r \in Ranks(job) : \A n \in 1 .. Len(grad[r]) :
              DOMAIN grad[r][n] = SamplesOf(Share(step[r], n, r))

\* The gradients an optimizer is given are of the whole step.
Finalized == \A r \in Ranks(job) :
                 pc[r] \in {"tokens", "ready"} => DOMAIN final[r] = StepRange(step[r])

StepsInv == MimoInv /\ InStep /\ Graded /\ Finalized /\ StepsFollowSchedule

LEMMA InitSteps == Init => StepsInv
<1> SUFFICES ASSUME Init PROVE StepsInv
  OBVIOUS
<1>1. MimoInv
  BY InitInv
<1>2. InStep /\ Finalized
  BY DEF Init, InStep, Round, Finalized
<1>3. Graded
  BY DEF Init, Graded
<1>4. StepsFollowSchedule
  BY DEF Init, StepsFollowSchedule
<1> QED BY <1>1, <1>2, <1>3, <1>4 DEF StepsInv

LEMMA BackwardGraded ==
    ASSUME StepsInv, NEW r \in Ranks(job), Backward(r)
    PROVE  Graded'
<1> DEFINE n == Len(grad[r]) + 1
           mine == work[r][n]
           e == [x \in SamplesOf(mine.hidden) |->
                    IF ComputesLoss(job, r) THEN LossWeight(job, mine.samples)
                    ELSE WeightIn({grad[q][n] : q \in Consumers(job, r)}, x)]
<1>1. grad' = [grad EXCEPT ![r] = Append(@, e)] /\ DOMAIN e = SamplesOf(mine.hidden)
  BY DEF Backward
<1>2. n <= Len(work[r]) /\ UNCHANGED <<job, step>>
  BY DEF Backward, state
<1> HIDE DEF e
<1>3. PICK S : grad[r] \in Seq(S)
  BY DEF StepsInv, MimoInv, MimoType
<1>4. /\ grad'[r] = Append(grad[r], e)
      /\ \A q \in Ranks(job) \ {r} : grad'[q] = grad[q]
  BY <1>1 DEF StepsInv, MimoInv, MimoType
<1>5. /\ Len(grad[r]) \in Nat /\ Len(grad'[r]) = n /\ grad'[r][n] = e
      /\ \A i \in 1 .. n - 1 : grad'[r][i] = grad[r][i]
  <2>1. grad[r] \in Seq(S \cup {e})
    BY <1>3
  <2> QED BY <1>4, <2>1
<1>6. mine.hidden = Share(step[r], n, r)
  <2>1. n \in 1 .. Len(work[r])
    BY <1>2, <1>5 DEF StepsInv, MimoInv, MimoType
  <2> HIDE DEF n
  <2> QED BY <2>1 DEF StepsInv, MimoInv, Worked
<1> HIDE DEF n, mine
<1>7. SUFFICES ASSUME NEW q \in Ranks(job), NEW i \in 1 .. Len(grad'[q])
               PROVE  DOMAIN grad'[q][i] = SamplesOf(Share(step[q], i, q))
  BY <1>2 DEF Graded, Share
<1>8. CASE q = r /\ i = n
  BY <1>1, <1>5, <1>6, <1>8
<1>9. CASE q = r /\ i # n
  <2>1. i \in 1 .. n - 1 /\ i \in 1 .. Len(grad[r])
    BY <1>5, <1>9 DEF n
  <2> QED BY <1>5, <1>9, <2>1 DEF StepsInv, Graded
<1>10. CASE q # r
  BY <1>4, <1>10 DEF StepsInv, Graded
<1> QED BY <1>8, <1>9, <1>10

\* All replicas of a stage together have the gradients of the whole step.
LEMMA MergedIsStep ==
    ASSUME StepsInv, NEW r \in Ranks(job),
           \A d \in 0 .. job.dp[r[1]] - 1 :
               /\ step[<<r[1], d, r[3]>>] = step[r]
               /\ Len(grad[<<r[1], d, r[3]>>]) = Microbatches
    PROVE  DOMAIN Merged(r) = StepRange(step[r])
<1> DEFINE m == r[1]
           p == r[3]
           D == 0 .. job.dp[m] - 1
           s == step[r]
           g(d, n) == grad[<<m, d, p>>][n]
           fs == UNION {{g(d, n) : n \in 1 .. Microbatches} : d \in D}
<1>1. job \in Layouts /\ s \in Nat
  BY DEF StepsInv, MimoInv, MimoType
<1>2. m \in {"language", "encoder"} /\ p \in 0 .. job.pp[m] - 1
  BY <1>1, RankParts
<1>3. DOMAIN Merged(r) = UNION {DOMAIN f : f \in fs}
  BY DEF Merged
<1>4. ASSUME NEW d \in D, NEW n \in 1 .. Microbatches
      PROVE  DOMAIN g(d, n) = SamplesOf(Share(s, n, <<m, d, p>>))
  <2>1. <<m, d, p>> \in Ranks(job)
    BY <1>1, <1>2, RankOf
  <2>2. step[<<m, d, p>>] = s /\ n \in 1 .. Len(grad[<<m, d, p>>])
    BY <1>4
  <2> QED BY <2>1, <2>2 DEF StepsInv, Graded
<1> DEFINE N == 1 .. Microbatches
<1> HIDE DEF g, m, p, s, D, N
<1>5. ASSUME NEW f
      PROVE  f \in UNION {{g(d, n) : n \in N} : d \in D} <=> \E d \in D : \E n \in N : f = g(d, n)
  <2> DEFINE of(d) == {g(d, n) : n \in N}
  <2>1. \A d \in D : f \in of(d) <=> \E n \in N : f = g(d, n)
    BY Zenon
  <2> HIDE DEF of
  <2>2. f \in UNION {of(d) : d \in D} <=> \E d \in D : f \in of(d)
    <3>1. ASSUME f \in UNION {of(d) : d \in D} PROVE \E d \in D : f \in of(d)
      BY <3>1, Zenon
    <3>2. ASSUME NEW d \in D, f \in of(d) PROVE f \in UNION {of(c) : c \in D}
      BY <3>2, Zenon
    <3> QED BY <3>1, <3>2
  <2> QED BY <2>1, <2>2 DEF of
<1>6. \A f : f \in fs <=> \E d \in D : \E n \in N : f = g(d, n)
  BY <1>5 DEF N
<1> HIDE DEF fs
<1>7. ASSUME NEW x
      PROVE  x \in UNION {DOMAIN f : f \in fs}
             <=> \E d \in D : \E n \in N : x \in SamplesOf(Share(s, n, <<m, d, p>>))
  <2>1. x \in UNION {DOMAIN f : f \in fs} <=> \E f \in fs : x \in DOMAIN f
    BY Zenon
  <2>2. (\E f \in fs : x \in DOMAIN f) <=> \E d \in D : \E n \in N : x \in DOMAIN g(d, n)
    BY <1>6, Zenon
  <2>3. \A d \in D : \A n \in N : DOMAIN g(d, n) = SamplesOf(Share(s, n, <<m, d, p>>))
    BY <1>4 DEF N
  <2> QED BY <2>1, <2>2, <2>3
<1>8. ASSUME NEW x
      PROVE  x \in UNION {DOMAIN f : f \in fs} <=> x \in StepRange(s)
  BY <1>1, <1>2, <1>7, SharesOfStep DEF D, N
<1>9. UNION {DOMAIN f : f \in fs} = StepRange(s)
  BY <1>8
<1> QED BY <1>3, <1>9 DEF s

LEMMA FinalizeSteps ==
    ASSUME StepsInv, NEW r \in Ranks(job), FinalizeGrads(r)
    PROVE  InStep' /\ Finalized'
<1> DEFINE total == GlobalTokens(job, numTokens)
           whole == job.perToken /\ r[1] = "language"
           g == {q \in Members(job, r[1]) : whole \/ q[3] = r[3]}
<1>1. /\ \A q \in g : pc[q] = "run" /\ Len(grad[q]) = Microbatches
      /\ final' = [q \in Ranks(job) |->
             IF q \in g THEN [x \in DOMAIN Merged(q) |->
                                 Times(Merged(q)[x], Factor(job, q[1], total))]
             ELSE final[q]]
      /\ pc' = [q \in Ranks(job) |->
             IF q \in g THEN (IF job.perToken THEN "tokens" ELSE "ready") ELSE pc[q]]
      /\ UNCHANGED <<job, step>>
  BY DEF FinalizeGrads, state
<1>2. job \in Layouts
  BY DEF StepsInv, MimoInv, MimoType
<1>3. ASSUME NEW q \in g
      PROVE  q \in Ranks(job) /\ \A d \in 0 .. job.dp[q[1]] - 1 : <<q[1], d, q[3]>> \in g
  <2>1. q \in Ranks(job)
    BY <1>2, RankParts DEF Ranks
  <2>2. q[1] = r[1] /\ q[3] \in 0 .. job.pp[r[1]] - 1
    BY DEF Members
  <2>3. \A d \in 0 .. job.dp[r[1]] - 1 : <<q[1], d, q[3]>> \in Members(job, r[1])
    BY <2>2 DEF Members
  <2>4. \A d \in 0 .. job.dp[r[1]] - 1 : <<q[1], d, q[3]>>[3] = q[3]
    OBVIOUS
  <2> QED BY <2>1, <2>2, <2>3, <2>4
<1> HIDE DEF g, total
<1>4. ASSUME NEW q \in Ranks(job) PROVE Round(q)' = Round(q)
  <2>1. CASE q \in g
    BY <1>1, <2>1 DEF Round
  <2>2. CASE q \notin g
    BY <1>1, <2>2 DEF Round
  <2> QED BY <2>1, <2>2
<1>5. InStep'
  BY <1>1, <1>4 DEF StepsInv, InStep
<1>6. Finalized'
  <2>1. SUFFICES ASSUME NEW q \in Ranks(job), pc'[q] \in {"tokens", "ready"}
                 PROVE  DOMAIN final'[q] = StepRange(step[q])
    BY <1>1 DEF Finalized
  <2>2. CASE q \in g
    <3>1. DOMAIN final'[q] = DOMAIN Merged(q)
      BY <1>1, <2>2
    <3>2. ASSUME NEW d \in 0 .. job.dp[q[1]] - 1
          PROVE  /\ step[<<q[1], d, q[3]>>] = step[q]
                 /\ Len(grad[<<q[1], d, q[3]>>]) = Microbatches
      <4> DEFINE o == <<q[1], d, q[3]>>
      <4>1. o \in g /\ o \in Ranks(job)
        BY <1>3, <2>2
      <4>2. pc[o] = "run" /\ pc[q] = "run" /\ Len(grad[o]) = Microbatches
        BY <1>1, <2>2, <4>1
      <4>3. Round(o) = step[o] /\ Round(q) = step[q]
        BY <4>2 DEF Round
      <4> HIDE DEF o
      <4>4. step[o] = step[q]
        BY <4>1, <4>3 DEF StepsInv, InStep
      <4> QED BY <4>2, <4>4 DEF o
    <3> QED BY <3>1, <3>2, MergedIsStep
  <2>3. CASE q \notin g
    BY <1>1, <2>1, <2>3 DEF StepsInv, Finalized
  <2> QED BY <2>2, <2>3
<1> QED BY <1>5, <1>6

LEMMA OptimizerSteps ==
    ASSUME StepsInv, OptimizerStep
    PROVE  InStep' /\ StepsFollowSchedule'
<1> DEFINE s == step[FirstRank(job)]
<1>1. /\ \A r \in Ranks(job) : pc[r] = "ready"
      /\ trained' = [trained EXCEPT ![s] =
             [m \in Modules |-> UNION {DOMAIN final[r] : r \in Members(job, m)}]]
      /\ pc' = [r \in Ranks(job) |-> "logging"]
      /\ UNCHANGED <<job, step>>
  BY DEF OptimizerStep, state
<1>2. job \in Layouts /\ FirstRank(job) \in Ranks(job)
  BY FirstInJob DEF StepsInv, MimoInv, MimoType
<1>3. \A r \in Ranks(job) : step[r] = s
  BY <1>1, <1>2 DEF StepsInv, InStep, Round
<1>4. InStep'
  BY <1>1, <1>3 DEF InStep, Round
<1> HIDE DEF s
<1>5. \A r \in Ranks(job) : DOMAIN final[r] = StepRange(s)
  BY <1>1, <1>3 DEF StepsInv, Finalized
<1>6. ASSUME NEW m \in Modules
      PROVE  UNION {DOMAIN final[r] : r \in Members(job, m)} = StepRange(s)
  <2>1. <<m, 0, 0>> \in Members(job, m)
    <3>1. job.dp[m] \in Nat \ {0} /\ job.pp[m] \in Nat \ {0}
      BY <1>2, Sizes DEF Modules
    <3>2. 0 \in 0 .. job.dp[m] - 1 /\ 0 \in 0 .. job.pp[m] - 1
      BY <3>1
    <3> QED BY <3>2 DEF Members
  <2>2. Members(job, m) \subseteq Ranks(job)
    BY DEF Ranks, Modules
  <2>3. \A r \in Members(job, m) : DOMAIN final[r] = StepRange(s)
    BY <1>5, <2>2
  <2> QED BY <2>1, <2>3
<1>7. StepsFollowSchedule'
  <2>1. SUFFICES ASSUME NEW x \in DOMAIN trained', trained'[x] # NotTrained, NEW m \in Modules
                 PROVE  trained'[x][m] = StepRange(x)
    BY DEF StepsFollowSchedule, StepRange
  <2>2. x \in DOMAIN trained
    BY <1>1, <2>1
  <2>3. CASE x = s
    <3>1. trained'[x] = [i \in Modules |-> UNION {DOMAIN final[r] : r \in Members(job, i)}]
      BY <1>1, <2>2, <2>3
    <3> QED BY <1>6, <2>3, <3>1
  <2>4. CASE x # s
    <3>1. trained'[x] = trained[x]
      BY <1>1, <2>2, <2>4
    <3> QED BY <2>1, <2>2, <3>1 DEF StepsInv, StepsFollowSchedule, StepRange
  <2> QED BY <2>3, <2>4
<1> QED BY <1>4, <1>7

LEMMA NextSteps ==
    ASSUME StepsInv, [Next]_vars
    PROVE  StepsInv'
<1>1. MimoInv'
  BY NextInv DEF StepsInv
<1> SUFFICES InStep' /\ Graded' /\ Finalized' /\ StepsFollowSchedule'
  BY <1>1 DEF StepsInv
<1>2. ASSUME UNCHANGED <<job, pc, step, final, trained>>
      PROVE  InStep' /\ Finalized' /\ StepsFollowSchedule'
  BY <1>2 DEF StepsInv, InStep, Round, Finalized, StepsFollowSchedule
<1>3. ASSUME UNCHANGED <<job, step, grad>>
      PROVE  Graded'
  BY <1>3 DEF StepsInv, Graded, Share
<1>4. ASSUME trained' = trained PROVE StepsFollowSchedule'
  BY <1>4 DEF StepsInv, StepsFollowSchedule
<1>5. ASSUME NEW r \in Ranks(job), Forward(r) \/ Backward(r)
      PROVE  InStep' /\ Graded' /\ Finalized' /\ StepsFollowSchedule'
  <2>1. UNCHANGED <<job, pc, step, final, trained>>
    BY <1>5 DEF Forward, Backward, state
  <2>2. CASE Forward(r)
    <3>1. grad' = grad
      BY <2>2 DEF Forward
    <3> QED BY <1>2, <1>3, <2>1, <3>1
  <2>3. CASE Backward(r)
    BY <1>2, <2>1, <2>3, BackwardGraded
  <2> QED BY <1>5, <2>2, <2>3
<1>6. ASSUME NEW r \in Ranks(job), FinalizeGrads(r)
      PROVE  InStep' /\ Graded' /\ Finalized' /\ StepsFollowSchedule'
  <2>1. UNCHANGED <<job, step, grad, trained>>
    BY <1>6 DEF FinalizeGrads, state, batch
  <2> QED BY <1>3, <1>4, <1>6, <2>1, FinalizeSteps
<1>7. CASE BroadcastTokens
  <2> DEFINE total == numTokens[SourceRank(job)]
  <2>1. /\ \A r \in Ranks(job) : pc[r] = "tokens"
        /\ final' = [r \in Ranks(job) |->
               IF r[1] = "encoder" /\ total > 0
               THEN [x \in DOMAIN final[r] |-> Times(final[r][x], <<1, total>>)] ELSE final[r]]
        /\ pc' = [r \in Ranks(job) |-> "ready"]
        /\ UNCHANGED <<job, step, grad, trained>>
    BY <1>7 DEF BroadcastTokens, state, batch
  <2> HIDE DEF total
  <2>2. InStep'
    BY <2>1 DEF StepsInv, InStep, Round
  <2>3. \A r \in Ranks(job) : DOMAIN final'[r] = DOMAIN final[r]
    BY <2>1
  <2>4. Finalized'
    BY <2>1, <2>3 DEF StepsInv, Finalized
  <2> QED BY <1>3, <1>4, <2>1, <2>2, <2>4
<1>8. CASE OptimizerStep
  <2>1. UNCHANGED <<job, step, grad>> /\ pc' = [r \in Ranks(job) |-> "logging"]
    BY <1>8 DEF OptimizerStep, state, batch
  <2>2. Finalized'
    BY <2>1 DEF Finalized
  <2> QED BY <1>3, <1>8, <2>1, <2>2, OptimizerSteps
<1>9. CASE AgreeOnSource \/ BroadcastLoss
  <2>1. /\ \A r \in Ranks(job) : pc[r] \in {"logging", "loss"} /\ pc'[r] \in {"loss", "count"}
        /\ UNCHANGED <<job, step, grad, trained>>
    BY <1>9 DEF AgreeOnSource, BroadcastLoss, state, batch
  <2>2. InStep' /\ Finalized'
    BY <2>1 DEF StepsInv, InStep, Round, Finalized
  <2> QED BY <1>3, <1>4, <2>1, <2>2
<1>10. ASSUME NEW r \in Ranks(job), CountStep(r)
       PROVE  InStep' /\ Graded' /\ Finalized' /\ StepsFollowSchedule'
  <2>1. /\ pc[r] = "count" /\ step' = [step EXCEPT ![r] = @ + 1]
        /\ pc' = [pc EXCEPT ![r] = IF step'[r] % SaveInterval = 0 THEN "save" ELSE Start(step'[r])]
        /\ grad' = [grad EXCEPT ![r] = <<>>] /\ final' = [final EXCEPT ![r] = <<>>]
        /\ UNCHANGED <<job, trained>>
    BY <1>10 DEF CountStep
  <2>2. r \in DOMAIN step /\ r \in DOMAIN pc /\ r \in DOMAIN grad
    BY DEF StepsInv, MimoInv, MimoType
  <2>3. step'[r] = step[r] + 1 /\ pc'[r] \in {"run", "save", "done"} /\ grad'[r] = <<>>
    BY <2>1, <2>2 DEF Start
  <2>4. \A q \in Ranks(job) \ {r} :
            step'[q] = step[q] /\ pc'[q] = pc[q] /\ grad'[q] = grad[q] /\ final'[q] = final[q]
    <3>1. ASSUME NEW q \in Ranks(job) \ {r}
          PROVE  step'[q] = step[q] /\ pc'[q] = pc[q] /\ grad'[q] = grad[q] /\ final'[q] = final[q]
      BY <2>1 DEF StepsInv, MimoInv, MimoType
    <3> QED BY <3>1
  <2>5. \A q \in Ranks(job) : Round(q)' = Round(q)
    BY <2>1, <2>3, <2>4 DEF Round
  <2>6. InStep'
    BY <2>1, <2>5 DEF StepsInv, InStep
  <2>7. Finalized'
    BY <2>1, <2>3, <2>4 DEF StepsInv, Finalized
  <2>8. Graded'
    BY <2>1, <2>3, <2>4 DEF StepsInv, Graded, Share
  <2> QED BY <1>4, <2>1, <2>6, <2>7, <2>8
<1>11. CASE SaveCheckpoint
  <2>1. /\ \A r \in Ranks(job) : pc[r] = "save" /\ pc'[r] \in {"run", "done"}
        /\ UNCHANGED <<job, step, grad, trained>>
    BY <1>11 DEF SaveCheckpoint, Start, state, batch
  <2>2. InStep' /\ Finalized'
    BY <2>1 DEF StepsInv, InStep, Round, Finalized
  <2> QED BY <1>3, <1>4, <2>1, <2>2
<1>12. CASE Crash
  <2>1. /\ \A r \in Ranks(job) :
               /\ pc'[r] \in {"run", "done"} /\ step'[r] = saved.step /\ grad'[r] = <<>>
        /\ UNCHANGED <<job, trained>>
    BY <1>12 DEF Crash, NewProcesses, Start
  <2>2. InStep' /\ Finalized' /\ Graded'
    BY <2>1 DEF InStep, Round, Finalized, Graded
  <2> QED BY <1>4, <2>1, <2>2
<1>13. CASE UNCHANGED vars
  <2>1. UNCHANGED <<job, pc, step, final, trained, grad>>
    BY <1>13 DEF vars
  <2> QED BY <1>2, <1>3, <2>1
<1> QED BY <1>5, <1>6, <1>7, <1>8, <1>9, <1>10, <1>11, <1>12, <1>13 DEF Next, Train

\* Each step trains both modules on exactly the samples of its place in a run that never
\* stopped, through any crashes, although ranks count on their own and only the first
\* rank's counts are saved (train_megatron_mimo.py:324).
THEOREM StepsTrainOwnSamples == Spec => []StepsFollowSchedule
<1>1. StepsInv => StepsFollowSchedule
  BY DEF StepsInv
<1> QED BY InitSteps, NextSteps, <1>1, PTL DEF Spec

-----------------------------------------------------------------------------
(* Sums over finite sets: the fold does not depend on what it chooses.      *)

Chosen(S) == CHOOSE x \in S : TRUE

\* g sums F over the subsets of S, as the fold does.
Sums(g, F, S) ==
    g = [T \in SUBSET S |-> IF T = {} THEN 0 ELSE F[Chosen(T)] + g[T \ {Chosen(T)}]]

Total(F, S) == (CHOOSE g : Sums(g, F, S))[S]

LEMMA LeastSubset ==
    ASSUME NEW S, IsFiniteSet(S), NEW P, P \subseteq SUBSET S, P # {}
    PROVE  \E T \in P : \A V \in SUBSET T : V # T => V \notin P
<1>1. P \subseteq FiniteSubsetsOf(S)
  BY FS_FiniteSubsetsOfFinite
<1>2. PICK T \in P : \A V \in P : ~(<<V, T>> \in StrictSubsetOrdering(S))
  BY <1>1, FS_StrictSubsetOrderingWellFounded, WFMin
<1>3. ASSUME NEW V \in SUBSET T, V # T, V \in P PROVE FALSE
  <2>1. V \in SUBSET S /\ T \in SUBSET S /\ V \subseteq T
    BY <1>3
  <2>2. <<V, T>> \in StrictSubsetOrdering(S)
    BY <1>3, <2>1 DEF StrictSubsetOrdering
  <2> QED BY <1>2, <1>3, <2>2
<1> QED BY <1>2, <1>3

LEMMA ChosenIn ==
    ASSUME NEW S, S # {}
    PROVE  Chosen(S) \in S /\ S \ {Chosen(S)} \in SUBSET S /\ S \ {Chosen(S)} # S
BY DEF Chosen

\* Where two functions agree, so do their sums.
LEMMA SumsAgree ==
    ASSUME NEW F, NEW G, NEW g, NEW h, NEW S, NEW T, NEW U, IsFiniteSet(U),
           U \subseteq S, U \subseteq T, Sums(g, F, S), Sums(h, G, T),
           \A x \in U : F[x] = G[x]
    PROVE  g[U] = h[U]
<1> DEFINE P == {V \in SUBSET U : g[V] # h[V]}
<1> SUFFICES ASSUME P # {} PROVE FALSE
  OBVIOUS
<1>1. P \subseteq SUBSET U
  OBVIOUS
<1>2. PICK V \in P : \A W \in SUBSET V : W # V => W \notin P
  <2> HIDE DEF P
  <2> QED BY <1>1, LeastSubset
<1> DEFINE c == Chosen(V)
<1>3. V \in SUBSET S /\ V \in SUBSET T /\ V \in SUBSET U
  BY <1>1, <1>2
<1>4. /\ g[V] = IF V = {} THEN 0 ELSE F[c] + g[V \ {c}]
      /\ h[V] = IF V = {} THEN 0 ELSE G[c] + h[V \ {c}]
  BY <1>3 DEF Sums
<1>5. V # {}
  BY <1>2, <1>4
<1>6. c \in V /\ V \ {c} \in SUBSET V /\ V \ {c} # V
  BY <1>5, ChosenIn
<1> HIDE DEF c
<1>7. g[V \ {c}] = h[V \ {c}]
  <2>1. V \ {c} \in SUBSET U
    BY <1>3, <1>6
  <2> QED BY <1>2, <1>6, <2>1
<1>8. F[c] = G[c]
  BY <1>3, <1>6
<1> QED BY <1>2, <1>4, <1>7, <1>8

LEMMA SumsExist ==
    ASSUME NEW F, NEW S, IsFiniteSet(S)
    PROVE  \E g : Sums(g, F, S)
<1> DEFINE P == {T \in SUBSET S : ~\E g : Sums(g, F, T)}
<1> SUFFICES ASSUME P # {} PROVE FALSE
  OBVIOUS
<1>1. P \subseteq SUBSET S
  OBVIOUS
<1>2. PICK T \in P : \A W \in SUBSET T : W # T => W \notin P
  <2> HIDE DEF P
  <2> QED BY <1>1, LeastSubset
<1>3. T \in SUBSET S /\ ~\E g : Sums(g, F, T)
  BY <1>2
<1> DEFINE of(W)   == CHOOSE g : Sums(g, F, W)
           less(V) == V \ {Chosen(V)}
           at(V)   == IF V = {} THEN 0 ELSE F[Chosen(V)] + of(less(V))[less(V)]
           g       == [V \in SUBSET T |-> at(V)]
<1>4. ASSUME NEW W \in SUBSET T, W # T
      PROVE  Sums(of(W), F, W)
  <2>1. W \in SUBSET S
    BY <1>3
  <2>2. \E f : Sums(f, F, W)
    BY <1>2, <1>4, <2>1
  <2> QED BY <2>2
<1> HIDE DEF of
<1>5. ASSUME NEW V \in SUBSET T, V # T
      PROVE  of(V)[V] = at(V)
  <2>1. Sums(of(V), F, V) /\ V \in SUBSET V
    BY <1>4, <1>5
  <2>2. of(V)[V] = IF V = {} THEN 0 ELSE F[Chosen(V)] + of(V)[less(V)]
    BY <2>1 DEF Sums
  <2>3. CASE V = {}
    BY <2>2, <2>3
  <2>4. CASE V # {}
    <3>1. less(V) \in SUBSET V /\ less(V) # V
      BY <2>4, ChosenIn
    <3> DEFINE W == less(V)
    <3> HIDE DEF W
    <3>2. W \in SUBSET T /\ W # T /\ W \subseteq V /\ W \subseteq S
      BY <1>3, <1>5, <3>1 DEF W
    <3>3. Sums(of(W), F, W)
      BY <1>4, <3>2
    <3>4. IsFiniteSet(W)
      BY <3>2, FS_Subset
    <3>5. of(V)[W] = of(W)[W]
      BY <2>1, <3>2, <3>3, <3>4, SumsAgree
    <3> QED BY <2>2, <2>4, <3>5 DEF W
  <2> QED BY <2>3, <2>4
<1>6. ASSUME NEW V \in SUBSET T, V # {}
      PROVE  g[less(V)] = of(less(V))[less(V)]
  <2>1. less(V) \in SUBSET T /\ less(V) # T
    <3>1. less(V) \in SUBSET V /\ less(V) # V
      BY <1>6, ChosenIn
    <3> QED BY <3>1
  <2> DEFINE W == less(V)
  <2> HIDE DEF W
  <2>2. of(W)[W] = at(W)
    BY <2>1, <1>5 DEF W
  <2>3. g[W] = at(W)
    BY <2>1 DEF W
  <2> QED BY <2>2, <2>3 DEF W
<1>7. \A V \in SUBSET T : at(V) = IF V = {} THEN 0 ELSE F[Chosen(V)] + g[less(V)]
  BY <1>6
<1>8. g = [V \in SUBSET T |-> at(V)]
  OBVIOUS
<1> HIDE DEF g, at
<1>9. Sums(g, F, T)
  BY <1>7, <1>8 DEF Sums
<1> QED BY <1>3, <1>9

LEMMA TotalOf ==
    ASSUME NEW F, NEW S, IsFiniteSet(S), NEW G, NEW g, NEW T, Sums(g, G, T), S \subseteq T,
           \A x \in S : F[x] = G[x]
    PROVE  Total(F, S) = g[S]
<1>1. Sums(CHOOSE h : Sums(h, F, S), F, S)
  BY SumsExist
<1> QED BY <1>1, SumsAgree DEF Total

LEMMA TotalStep ==
    ASSUME NEW F, NEW S, IsFiniteSet(S)
    PROVE  /\ S = {} => Total(F, S) = 0
           /\ S # {} => Total(F, S) = F[Chosen(S)] + Total(F, S \ {Chosen(S)})
<1>1. PICK g : Sums(g, F, S)
  BY SumsExist
<1>2. \A T \in SUBSET S : Total(F, T) = g[T]
  <2> TAKE T \in SUBSET S
  <2>1. IsFiniteSet(T)
    BY FS_Subset
  <2> QED BY <1>1, <2>1, TotalOf
<1>3. S \in SUBSET S /\ g[S] = IF S = {} THEN 0 ELSE F[Chosen(S)] + g[S \ {Chosen(S)}]
  BY <1>1 DEF Sums
<1>4. S # {} => S \ {Chosen(S)} \in SUBSET S
  BY ChosenIn
<1> QED BY <1>2, <1>3, <1>4

LEMMA TotalType ==
    ASSUME NEW F, NEW S, IsFiniteSet(S), \A x \in S : F[x] \in Nat
    PROVE  Total(F, S) \in Nat
<1> DEFINE P == {T \in SUBSET S : Total(F, T) \notin Nat}
<1> SUFFICES ASSUME P # {} PROVE FALSE
  OBVIOUS
<1>1. P \subseteq SUBSET S
  OBVIOUS
<1>2. PICK T \in P : \A W \in SUBSET T : W # T => W \notin P
  <2> HIDE DEF P
  <2> QED BY <1>1, LeastSubset
<1>3. T \in SUBSET S /\ Total(F, T) \notin Nat /\ IsFiniteSet(T)
  BY <1>2, FS_Subset
<1>4. T # {}
  <2>1. T = {} => Total(F, T) = 0
    BY <1>3, TotalStep
  <2> QED BY <1>3, <2>1
<1> DEFINE c == Chosen(T)
<1>5. c \in T /\ T \ {c} \in SUBSET T /\ T \ {c} # T
  BY <1>4, ChosenIn
<1>6. Total(F, T) = F[c] + Total(F, T \ {c})
  BY <1>3, <1>4, TotalStep
<1> HIDE DEF c
<1>7. Total(F, T \ {c}) \in Nat
  <2>1. T \ {c} \in SUBSET S
    BY <1>3, <1>5
  <2> QED BY <1>2, <1>5, <2>1
<1> QED BY <1>3, <1>5, <1>6, <1>7

\* Any element may be the first.
LEMMA TotalLess ==
    ASSUME NEW F, NEW S, IsFiniteSet(S), \A x \in S : F[x] \in Nat, NEW a \in S
    PROVE  Total(F, S) = F[a] + Total(F, S \ {a})
<1> DEFINE P == {T \in SUBSET S : \E x \in T : Total(F, T) # F[x] + Total(F, T \ {x})}
<1> SUFFICES ASSUME P # {} PROVE FALSE
  OBVIOUS
<1>1. P \subseteq SUBSET S
  OBVIOUS
<1>2. PICK T \in P : \A W \in SUBSET T : W # T => W \notin P
  <2> HIDE DEF P
  <2> QED BY <1>1, LeastSubset
<1>3. T \in SUBSET S /\ IsFiniteSet(T)
  BY <1>2, FS_Subset
<1>4. PICK x \in T : Total(F, T) # F[x] + Total(F, T \ {x})
  BY <1>2
<1> DEFINE c == Chosen(T)
<1>5. c \in T /\ Total(F, T) = F[c] + Total(F, T \ {c})
  BY <1>3, <1>4, TotalStep, ChosenIn
<1> HIDE DEF c
<1>6. x # c
  BY <1>4, <1>5
<1>7. ASSUME NEW W \in SUBSET T, W # T, NEW y \in W
      PROVE  Total(F, W) = F[y] + Total(F, W \ {y})
  <2>1. W \in SUBSET S /\ W \notin P
    BY <1>2, <1>3, <1>7
  <2> QED BY <1>7, <2>1
<1>8. Total(F, T \ {c}) = F[x] + Total(F, (T \ {c}) \ {x})
  <2>1. T \ {c} \in SUBSET T /\ T \ {c} # T /\ x \in T \ {c}
    BY <1>5, <1>6
  <2> HIDE DEF P
  <2> QED BY <1>7, <2>1
<1>9. Total(F, T \ {x}) = F[c] + Total(F, (T \ {x}) \ {c})
  <2>1. T \ {x} \in SUBSET T /\ T \ {x} # T /\ c \in T \ {x}
    BY <1>4, <1>5, <1>6
  <2> HIDE DEF P
  <2> QED BY <1>7, <2>1
<1>10. (T \ {c}) \ {x} = (T \ {x}) \ {c}
  OBVIOUS
<1> DEFINE R == (T \ {c}) \ {x}
<1>11. Total(F, R) \in Nat
  <2>1. IsFiniteSet(R) /\ \A y \in R : F[y] \in Nat
    BY <1>3, FS_Subset
  <2> QED BY <2>1, TotalType
<1>12. F[x] \in Nat /\ F[c] \in Nat
  BY <1>3, <1>5
<1> DEFINE r == Total(F, R)
<1>13. Total(F, T) = F[c] + (F[x] + r) /\ F[x] + Total(F, T \ {x}) = F[x] + (F[c] + r) /\ r \in Nat
  BY <1>5, <1>8, <1>9, <1>10, <1>11
<1> HIDE DEF r, R, P
<1>14. F[c] + (F[x] + r) = F[x] + (F[c] + r)
  BY <1>12, <1>13
<1> QED BY <1>4, <1>13, <1>14

\* Disjoint sets add up.
LEMMA TotalUnion ==
    ASSUME NEW F, NEW A, NEW B, IsFiniteSet(A), IsFiniteSet(B), A \cap B = {},
           \A x \in A \cup B : F[x] \in Nat
    PROVE  Total(F, A \cup B) = Total(F, A) + Total(F, B)
<1> DEFINE P == {T \in SUBSET A : Total(F, T \cup B) # Total(F, T) + Total(F, B)}
<1> SUFFICES ASSUME P # {} PROVE FALSE
  OBVIOUS
<1>1. P \subseteq SUBSET A
  OBVIOUS
<1>2. PICK T \in P : \A W \in SUBSET T : W # T => W \notin P
  <2> HIDE DEF P
  <2> QED BY <1>1, LeastSubset
<1>3. T \in SUBSET A /\ IsFiniteSet(T) /\ Total(F, T \cup B) # Total(F, T) + Total(F, B)
  BY <1>2, FS_Subset
<1>4. Total(F, B) \in Nat
  BY TotalType
<1>5. T # {}
  <2> SUFFICES ASSUME T = {} PROVE FALSE
    OBVIOUS
  <2>1. T \cup B = B /\ Total(F, T) = 0
    BY <1>3, TotalStep
  <2> QED BY <1>3, <1>4, <2>1
<1>6. PICK x : x \in T
  BY <1>5
<1> DEFINE W == T \ {x}
<1>7. W \in SUBSET T /\ W # T /\ W \in SUBSET A /\ IsFiniteSet(W)
  BY <1>3, <1>6, FS_Subset
<1>8. Total(F, T) = F[x] + Total(F, W)
  <2>1. \A y \in T : F[y] \in Nat
    BY <1>3
  <2> QED BY <1>3, <1>6, <2>1, TotalLess
<1>9. Total(F, T \cup B) = F[x] + Total(F, W \cup B)
  <2>1. IsFiniteSet(T \cup B) /\ x \in T \cup B /\ \A y \in T \cup B : F[y] \in Nat
    BY <1>3, <1>6, FS_Union
  <2>2. (T \cup B) \ {x} = W \cup B
    BY <1>3, <1>6
  <2> QED BY <2>1, <2>2, TotalLess
<1>10. Total(F, W \cup B) = Total(F, W) + Total(F, B)
  BY <1>2, <1>7
<1>11. F[x] \in Nat /\ Total(F, W) \in Nat
  <2>1. \A y \in W : F[y] \in Nat
    BY <1>7
  <2> HIDE DEF W
  <2> QED BY <1>3, <1>6, <1>7, <2>1, TotalType
<1> HIDE DEF W, P
<1> QED BY <1>3, <1>4, <1>8, <1>9, <1>10, <1>11

\* The sums of the sets of a family add up to the sum over all of them.
LEMMA TotalFamily ==
    ASSUME NEW F, NEW D, IsFiniteSet(D), NEW A, NEW G,
           \A d \in D : IsFiniteSet(A[d]) /\ G[d] = Total(F, A[d]),
           \A d \in D : \A x \in A[d] : F[x] \in Nat,
           \A d, e \in D : d # e => A[d] \cap A[e] = {},
           NEW U, \A x : x \in U <=> \E d \in D : x \in A[d]
    PROVE  Total(G, D) = Total(F, U)
<1> DEFINE all(T) == UNION {A[d] : d \in T}
           P == {T \in SUBSET D : ~(IsFiniteSet(all(T)) /\ Total(G, T) = Total(F, all(T)))}
<1>0. ASSUME NEW T, NEW x PROVE x \in all(T) <=> \E d \in T : x \in A[d]
  <2>1. ASSUME x \in all(T) PROVE \E d \in T : x \in A[d]
    BY <2>1, Zenon
  <2>2. ASSUME NEW d \in T, x \in A[d] PROVE x \in all(T)
    BY <2>2, Zenon
  <2> QED BY <2>1, <2>2
<1> SUFFICES ASSUME P # {} PROVE FALSE
  <2> HIDE DEF all
  <2>1. U = all(D)
    <3>1. \A x : x \in all(D) <=> \E d \in D : x \in A[d]
      BY <1>0
    <3>2. \A x : x \in U <=> x \in all(D)
      BY <3>1
    <3> HIDE DEF P
    <3> QED BY ONLY <3>2
  <2>2. D \in SUBSET D /\ D \notin P
    OBVIOUS
  <2> QED BY <2>1, <2>2
<1>1. P \subseteq SUBSET D
  OBVIOUS
<1>2. PICK T \in P : \A W \in SUBSET T : W # T => W \notin P
  <2> HIDE DEF P
  <2> QED BY <1>1, LeastSubset
<1>3. T \in SUBSET D /\ IsFiniteSet(T)
      /\ ~(IsFiniteSet(all(T)) /\ Total(G, T) = Total(F, all(T)))
  BY <1>2, FS_Subset
<1>4. T # {}
  <2> SUFFICES ASSUME T = {} PROVE FALSE
    OBVIOUS
  <2>1. all(T) = {} /\ IsFiniteSet(all(T))
    <3> HIDE DEF all
    <3>1. all(T) = {}
      BY <1>0
    <3> QED BY <3>1, FS_EmptySet
  <2> HIDE DEF all
  <2> QED BY <1>3, <2>1, TotalStep
<1> DEFINE c == Chosen(T)
           W == T \ {c}
<1>5. c \in T /\ W \in SUBSET T /\ W # T
  BY <1>4, ChosenIn
<1>6. Total(G, T) = G[c] + Total(G, W)
  BY <1>3, <1>4, TotalStep
<1> HIDE DEF c
<1>7. IsFiniteSet(all(W)) /\ Total(G, W) = Total(F, all(W))
  <2>1. W \in SUBSET D
    BY <1>3, <1>5
  <2> HIDE DEF W
  <2> QED BY <1>2, <1>5, <2>1
<1>8. all(T) = A[c] \cup all(W)
  BY <1>5
<1>9. A[c] \cap all(W) = {}
  <2>1. ASSUME NEW d \in W PROVE A[c] \cap A[d] = {}
    BY <1>3, <1>5
  <2> QED BY <2>1
<1>10. \A x \in A[c] \cup all(W) : F[x] \in Nat
  BY <1>3, <1>5
<1>11. IsFiniteSet(A[c]) /\ G[c] = Total(F, A[c])
  BY <1>3, <1>5
<1> HIDE DEF all, W
<1> DEFINE one  == A[c]
           rest == all(W)
<1> HIDE DEF one, rest
<1>12. Total(F, one \cup rest) = Total(F, one) + Total(F, rest)
  <2>1. IsFiniteSet(one) /\ IsFiniteSet(rest) /\ one \cap rest = {}
    BY <1>7, <1>9, <1>11 DEF one, rest
  <2>2. \A x \in one \cup rest : F[x] \in Nat
    BY <1>10 DEF one, rest
  <2> QED BY <2>1, <2>2, TotalUnion
<1>13. IsFiniteSet(one \cup rest)
  BY <1>7, <1>11, FS_Union DEF one, rest
<1> QED BY <1>3, <1>6, <1>7, <1>8, <1>11, <1>12, <1>13 DEF one, rest

LEMMA TokensAreTotal ==
    ASSUME NEW S, IsFiniteSet(S), NEW F, \A x \in S : F[x] = LossTokens(x)
    PROVE  MapThenSumSet(LossTokens, S) = Total(F, S)
<1> DEFINE Rec(g) == g = [T \in SUBSET S |-> IF T = {} THEN 0
                              ELSE LossTokens(Chosen(T)) + g[T \ {Chosen(T)}]]
<1>1. PICK g : Sums(g, F, S)
  BY SumsExist
<1>2. \A T \in SUBSET S : T # {} => F[Chosen(T)] = LossTokens(Chosen(T))
  BY ChosenIn
<1>3. Rec(g)
  BY <1>1, <1>2 DEF Sums
<1> DEFINE h == CHOOSE f : Rec(f)
<1>4. Rec(h)
  BY <1>3
<1>5. MapThenSumSet(LossTokens, S) = h[S]
  BY DEF MapThenSumSet, MapThenFoldSet, Chosen
<1> HIDE DEF h
<1>6. Sums(h, F, S)
  BY <1>2, <1>4 DEF Sums
<1> QED BY <1>5, <1>6, TotalOf

-----------------------------------------------------------------------------
(* Whose loss a sample is in.                                               *)

\* A sample of a step is in one microbatch, and there of one replica of a module.
LEMMA SharesApart ==
    ASSUME job \in Layouts, NEW m, m \in {"language", "encoder"}, NEW p, NEW q,
           NEW s, s \in Nat, NEW d, d \in 0 .. job.dp[m] - 1, NEW e, e \in 0 .. job.dp[m] - 1,
           NEW n, n \in 1 .. Microbatches, NEW k, k \in 1 .. Microbatches, NEW x,
           x \in SamplesOf(Share(s, n, <<m, d, p>>)), x \in SamplesOf(Share(s, k, <<m, e, q>>))
    PROVE  d = e /\ n = k
<1> DEFINE dp == job.dp[m]
           w == Width(m)
           b == MicroBatch
           base == s * (Microbatches * b)
<1>1. /\ dp \in Nat \ {0} /\ w \in Nat \ {0} /\ b \in Nat \ {0} /\ b = dp * w
      /\ Microbatches \in Nat /\ d \in 0 .. dp - 1 /\ e \in 0 .. dp - 1
  BY Sizes DEF Width
<1>2. base \in Nat
  <2>1. Microbatches * b \in Nat
    BY <1>1
  <2> QED BY <2>1
<1>3. /\ x \in base + (n - 1) * b + d * w .. base + (n - 1) * b + d * w + w - 1
      /\ x \in base + (k - 1) * b + e * w .. base + (k - 1) * b + e * w + w - 1
  <2>1. /\ SamplesOf(Share(s, n, <<m, d, p>>)) = Cut(s, n, m, d)
        /\ SamplesOf(Share(s, k, <<m, e, q>>)) = Cut(s, k, m, e)
    <3>1. SamplesOf(Share(s, n, <<m, d, p>>)) = Cut(s, n, m, d)
      BY ShareRange
    <3>2. SamplesOf(Share(s, k, <<m, e, q>>)) = Cut(s, k, m, e)
      BY ShareRange
    <3> QED BY <3>1, <3>2
  <2>2. FromOf(s, n) = base + (n - 1) * b /\ FromOf(s, k) = base + (k - 1) * b
    BY DEF FromOf
  <2> QED BY <2>1, <2>2 DEF Cut
<1> HIDE DEF dp, w, base
<1>4. ASSUME NEW i \in 1 .. Microbatches, NEW c \in 0 .. dp - 1,
             x \in base + (i - 1) * b + c * w .. base + (i - 1) * b + c * w + w - 1
      PROVE  (x - base) \div b = i - 1 /\ ((x - base) % b) \div w = c
  <2> DEFINE z == x - (base + (i - 1) * b + c * w)
             y == w * c + z
  <2>1. (i - 1) * b \in Nat /\ c * w \in Nat /\ c \in Nat /\ i - 1 \in Nat
    BY <1>1
  <2> DEFINE u == (i - 1) * b
             v == c * w
  <2>2. u \in Nat /\ v \in Nat /\ x \in base + u + v .. base + u + v + w - 1
    BY <1>4, <2>1
  <2>3. v = w * c /\ u = b * (i - 1)
    BY <1>1, <2>1
  <2>4. z \in 0 .. w - 1 /\ x - base = u + (v + z)
    <3> HIDE DEF u, v
    <3>1. z = x - (base + u + v)
      BY DEF u, v
    <3> HIDE DEF z
    <3> QED BY <1>1, <1>2, <2>2, <3>1
  <2> HIDE DEF z, u, v
  <2>5. x - base = b * (i - 1) + y /\ y \in Nat
    BY <1>1, <2>1, <2>2, <2>3, <2>4
  <2>6. y < b
    <3> DEFINE h == dp - 1 - c
    <3>1. h \in Nat /\ dp = c + h + 1
      BY <1>1
    <3> HIDE DEF h
    <3>2. dp * w = c * w + h * w + w /\ c * w \in Nat /\ h * w \in Nat /\ w * c = c * w
      BY <1>1, <2>1, <3>1
    <3> QED BY <1>1, <2>4, <3>2
  <2>7. y \div w = c
    BY <1>1, <2>1, <2>4, Quotient
  <2> HIDE DEF y
  <2>8. y \in 0 .. b - 1
    BY <1>1, <2>5, <2>6
  <2>9. (b * (i - 1) + y) \div b = i - 1 /\ (b * (i - 1) + y) % b = y
    BY <1>1, <2>1, <2>8, Quotient
  <2> QED BY <2>5, <2>7, <2>9
<1>5. n - 1 = k - 1 /\ d = e
  BY <1>1, <1>3, <1>4
<1> QED BY <1>5

\* Where a rank does not compute the loss itself, another one that it sends its output
\* has the sample next.
LEMMA SampleGoesOn ==
    ASSUME job \in Layouts, NEW r \in Ranks(job), ~ComputesLoss(job, r), NEW s \in Nat,
           NEW n \in 1 .. Microbatches, NEW x \in SamplesOf(Share(s, n, r))
    PROVE  \E q \in Consumers(job, r) : x \in SamplesOf(Share(s, n, q))
<1> DEFINE mod == r[1]
           d == r[2]
           p == r[3]
<1>1. /\ mod \in {"language", "encoder"} /\ d \in 0 .. job.dp[mod] - 1
      /\ p \in 0 .. job.pp[mod] - 1 /\ r = <<mod, d, p>> /\ job.pp[mod] \in Nat
  BY RankParts, Sizes
<1>2. CASE ~LastStage(job, r)
  <2> DEFINE q == <<mod, d, p + 1>>
  <2>1. p + 1 \in 0 .. job.pp[mod] - 1
    BY <1>1, <1>2 DEF LastStage
  <2>2. q \in Ranks(job)
    BY <1>1, <2>1, RankOf
  <2>3. Producers(job, q) = {r}
    <3>1. q[3] = p + 1 /\ p + 1 > 0 /\ (p + 1) - 1 = p
      BY <1>1
    <3>2. Producers(job, q) = {<<mod, d, (p + 1) - 1>>}
      BY <3>1 DEF Producers
    <3> QED BY <1>1, <3>1, <3>2
  <2>4. q \in Consumers(job, r)
    BY <2>2, <2>3 DEF Consumers
  <2>5. Share(s, n, q) = Share(s, n, r)
    BY <1>1 DEF Share
  <2> QED BY <2>4, <2>5
<1>3. CASE LastStage(job, r)
  <2>1. mod = "encoder" /\ p = job.pp["encoder"] - 1
    BY <1>1, <1>3 DEF LastStage, ComputesLoss
  <2> DEFINE a == job.dp["encoder"]
             b == job.dp["language"]
             m == Width("encoder")
             w == Width("language")
             f == Fan(job)
             from == FromOf(s, n)
  <2>2. /\ a \in Nat \ {0} /\ m \in Nat \ {0} /\ MicroBatch = a * m
        /\ b \in Nat \ {0} /\ w \in Nat \ {0} /\ MicroBatch = b * w
        /\ a % b = 0 \/ b % a = 0
        /\ job.pp["language"] \in Nat \ {0}
        /\ m = MicroBatch \div a /\ w = MicroBatch \div b
    BY Sizes, MimoConstants DEF Width
  <2>3. d \in 0 .. a - 1
    BY <1>1, <2>1
  <2>4. x \in from + d * m .. from + d * m + m - 1 /\ from \in Nat
    <3>1. x \in SamplesOf(Share(s, n, <<"encoder", d, p>>)) /\ d \in 0 .. job.dp["encoder"] - 1
      BY <1>1, <2>1
    <3>2. FromOf(s, n) \in Nat /\ SamplesOf(Share(s, n, <<"encoder", d, p>>)) = Cut(s, n, "encoder", d)
      <4> HIDE DEF d, p
      <4> QED BY <3>1, ShareRange
    <3> QED BY <3>1, <3>2 DEF Cut
  <2>5. ASSUME NEW k \in 0 .. b - 1, d \in Feeding(job, k),
               x \in from + k * w .. from + k * w + w - 1
        PROVE  \E q \in Consumers(job, r) : x \in SamplesOf(Share(s, n, q))
    <3> DEFINE q == <<"language", k, 0>>
    <3>1. q \in Ranks(job)
      <4>1. 0 \in 0 .. job.pp["language"] - 1
        BY <2>2
      <4> QED BY <4>1, <2>5, RankOf
    <3>2. r \in Producers(job, q)
      <4>1. Producers(job, q) = {<<"encoder", e, job.pp["encoder"] - 1>> : e \in Feeding(job, k)}
        BY DEF Producers
      <4> QED BY <1>1, <2>1, <2>5, <4>1
    <3>3. x \in SamplesOf(Share(s, n, q))
      <4>1. SamplesOf(Share(s, n, <<"language", k, 0>>)) = Cut(s, n, "language", k)
        BY <2>5, ShareRange
      <4> QED BY <2>5, <4>1 DEF Cut
    <3> QED BY <3>1, <3>2, <3>3 DEF Consumers
  <2>6. CASE a >= b
    <3> DEFINE k == d \div f
               i == d % f
    <3>1. f = a \div b
      BY <2>6 DEF Fan
    <3>3. \A h : Feeding(job, h) = {h * f + c : c \in 0 .. f - 1}
      BY <2>6 DEF Feeding
    <3> HIDE DEF a, b, m, w, f, from, d
    <3>2. f \in Nat \ {0} /\ a = b * f
      BY <2>2, <2>6, <3>1, Multiple
    <3> DEFINE j == d + 1
    <3>4. j \in 1 .. b * f /\ j - 1 = d
      BY <2>2, <2>3, <3>2
    <3> HIDE DEF j
    <3>5. k \in 0 .. b - 1 /\ i \in 0 .. f - 1 /\ k * f + i = d
      BY <2>2, <3>2, <3>4, BlockAndPlace
    <3> HIDE DEF k, i
    <3>6. w = f * m
      <4>1. f * m \in Nat /\ MicroBatch = b * (f * m)
        BY <2>2, <3>2
      <4> QED BY <2>2, <4>1, ExactQuotient
    <3>7. x \in from + k * w .. from + k * w + w - 1
      <4> DEFINE g == f - 1 - i
      <4>1. g \in Nat /\ f = i + g + 1 /\ i \in Nat /\ k \in Nat
        BY <3>2, <3>5
      <4> HIDE DEF g
      <4>2. d * m = k * (f * m) + i * m
        <5>1. d * m = (k * f + i) * m
          BY <3>5
        <5> QED BY <5>1, <2>2, <3>2, <4>1
      <4>3. f * m = i * m + g * m + m /\ i * m \in Nat /\ g * m \in Nat /\ f * m \in Nat
        BY <2>2, <4>1
      <4>4. k * (f * m) \in Nat
        BY <4>1, <4>3
      <4> DEFINE u == k * (f * m)
                 v == i * m
                 z == g * m
                 y == f * m
      <4>5. /\ d * m = u + v /\ y = v + z + m /\ u \in Nat /\ v \in Nat /\ z \in Nat
            /\ k * w = u /\ w = y
        BY <3>6, <4>2, <4>3, <4>4
      <4>6. x \in from + u + v .. from + u + v + m - 1
        <5> DEFINE e == d * m
        <5>1. x \in from + e .. from + e + m - 1 /\ e = u + v
          BY <2>4, <4>5
        <5> HIDE DEF e, u, v
        <5> QED BY <2>2, <2>4, <4>5, <5>1
      <4>7. x \in from + u .. from + u + y - 1
        <5> HIDE DEF u, v, z, y
        <5> QED BY <2>2, <2>4, <4>5, <4>6
      <4> QED BY <4>5, <4>7
    <3>8. d \in Feeding(job, k)
      BY <3>3, <3>5
    <3> QED BY <2>5, <3>5, <3>7, <3>8 DEF a, b, m, w, f, from, d
  <2>7. CASE ~(a >= b)
    <3> DEFINE o == x - (from + d * m)
               c == o \div w
               k == d * f + c
    <3>1. f = b \div a /\ b >= a
      BY <2>2, <2>7 DEF Fan
    <3>3. \A h : Feeding(job, h) = {h \div f}
      BY <2>7 DEF Feeding
    <3> HIDE DEF a, b, m, w, f, from, d
    <3>2. f \in Nat \ {0} /\ b = a * f
      BY <2>2, <3>1, Multiple
    <3>4. m = f * w
      <4>1. f * w \in Nat /\ MicroBatch = a * (f * w)
        BY <2>2, <3>2
      <4> QED BY <2>2, <4>1, ExactQuotient
    <3>5. o \in 0 .. m - 1 /\ x = from + d * m + o /\ d * m \in Nat
      <4>1. d * m \in Nat
        BY <2>2, <2>3
      <4> DEFINE u == d * m
      <4>2. u \in Nat /\ x \in from + u .. from + u + m - 1 /\ o = x - (from + u)
        BY <2>4, <4>1
      <4> HIDE DEF u, o
      <4>3. o \in 0 .. m - 1 /\ x = from + u + o
        BY <2>2, <2>4, <4>2
      <4> QED BY <4>1, <4>3 DEF u
    <3> HIDE DEF o
    <3> DEFINE j == o + 1
    <3>6. j \in 1 .. f * w /\ j - 1 = o
      <4> DEFINE e == f * w
      <4>1. o \in 0 .. m - 1 /\ m = e
        BY <3>4, <3>5
      <4> HIDE DEF e
      <4>2. m \in Nat
        BY <2>2
      <4>3. o \in Nat /\ o + 1 \in 1 .. m /\ o + 1 - 1 = o
        BY <4>1, <4>2
      <4>4. j \in 1 .. e /\ j - 1 = o
        BY <4>1, <4>3
      <4> QED BY <4>4 DEF e
    <3> HIDE DEF j
    <3>7. c \in 0 .. f - 1 /\ o % w \in 0 .. w - 1 /\ c * w + (o % w) = o
      BY <2>2, <3>2, <3>6, BlockAndPlace
    <3> DEFINE i == o % w
    <3> HIDE DEF c, i
    <3>8. k \in 0 .. b - 1 /\ k \div f = d
      <4> DEFINE g == a - 1 - d
      <4>1. g \in Nat /\ a = d + g + 1 /\ d \in Nat /\ c \in Nat
        BY <2>2, <2>3, <3>7
      <4> HIDE DEF g
      <4>2. a * f = d * f + g * f + f /\ d * f \in Nat /\ g * f \in Nat /\ f * d = d * f
        BY <3>2, <4>1
      <4>3. (f * d + c) \div f = d
        BY <3>2, <3>7, <4>1, Quotient
      <4>4. k = f * d + c
        BY <4>2
      <4> DEFINE u == d * f
                 v == g * f
      <4>5. u \in Nat /\ v \in Nat /\ b = u + v + f /\ k = u + c
        BY <3>2, <4>2
      <4> HIDE DEF u, v, k
      <4>6. k \in 0 .. b - 1
        BY <3>2, <3>7, <4>5
      <4> QED BY <4>3, <4>4, <4>6
    <3>9. x \in from + k * w .. from + k * w + w - 1
      <4>1. k * w = d * (f * w) + c * w /\ c * w \in Nat
        <5>1. d \in Nat /\ c \in Nat
          BY <2>2, <2>3, <3>7
        <5> QED BY <5>1, <2>2, <3>2
      <4> DEFINE u == d * m
                 v == c * w
      <4>2. k * w = u + v /\ u \in Nat /\ v \in Nat /\ v + i = o /\ x = from + u + o /\ i \in 0 .. w - 1
        BY <3>4, <3>5, <3>7, <4>1 DEF i
      <4> HIDE DEF u, v, k, i
      <4> QED BY <2>2, <2>4, <4>2
    <3>10. d \in Feeding(job, k)
      BY <3>3, <3>8
    <3> HIDE DEF k
    <3> QED BY <2>5, <3>8, <3>9, <3>10 DEF a, b, m, w, f, from, d
  <2> QED BY <2>6, <2>7
<1> QED BY <1>2, <1>3

-----------------------------------------------------------------------------
(* Gradients of one loss.                                                   *)

\* The weight of sample x of step s in the loss of its microbatch and replica.
WeightOf(s, x) ==
    CHOOSE v : \E d \in 0 .. job.dp["language"] - 1 : \E n \in 1 .. Microbatches :
        /\ x \in SamplesOf(Share(s, n, <<"language", d, 0>>))
        /\ v = LossWeight(job, Share(s, n, <<"language", d, 0>>))

TokenCounts == [x \in 0 .. TrainIters * Microbatches * MicroBatch - 1 |-> LossTokens(x)]
StepTokens(s) == Total(TokenCounts, StepRange(s))

\* The samples of the microbatches that r has computed.
Seen(r) == UNION {SamplesOf(Share(step[r], n, r)) : n \in 1 .. Len(work[r])}

\* One part of the tokens of step s.
OnePart(s) == IF StepTokens(s) > 0 THEN <<1, StepTokens(s)>> ELSE <<1, 1>>

\* What sample x of step s weighs in the gradients that the optimizer of module m is given.
Given(s, m, x) ==
    IF job.perToken THEN OnePart(s)
    ELSE Times(WeightOf(s, x), Times(<<1, job.dp[m]>>, <<job.dp[m], job.dp["language"]>>))

LEMMA WeightIs ==
    ASSUME job \in Layouts, NEW s \in Nat, NEW d \in 0 .. job.dp["language"] - 1,
           NEW n \in 1 .. Microbatches, NEW p, NEW x \in SamplesOf(Share(s, n, <<"language", d, p>>))
    PROVE  WeightOf(s, x) = LossWeight(job, Share(s, n, <<"language", d, p>>))
<1> DEFINE of(e, k) == Share(s, k, <<"language", e, 0>>)
           D == 0 .. job.dp["language"] - 1
           N == 1 .. Microbatches
           w(e, k) == LossWeight(job, of(e, k))
<1>1. Share(s, n, <<"language", d, p>>) = of(d, n)
  BY DEF Share
<1>2. x \in SamplesOf(of(d, n))
  BY <1>1
<1>3. ASSUME NEW e \in D, NEW k \in N, x \in SamplesOf(of(e, k))
      PROVE  e = d /\ k = n
  BY <1>2, <1>3, SharesApart
<1>4. WeightOf(s, x) = CHOOSE v : \E e \in D : \E k \in N : x \in SamplesOf(of(e, k)) /\ v = w(e, k)
  BY DEF WeightOf
<1> HIDE DEF of, w
<1>5. \A v : (\E e \in D : \E k \in N : x \in SamplesOf(of(e, k)) /\ v = w(e, k)) <=> v = w(d, n)
  BY <1>2, <1>3
<1> HIDE DEF D, N
<1>6. WeightOf(s, x) = w(d, n)
  BY <1>4, <1>5
<1> QED BY <1>1, <1>6 DEF w

\* The samples of a step before the last are counted, and there are finitely many.
LEMMA TokensOfStep ==
    ASSUME NEW s \in Nat, s < TrainIters, NEW S, S \subseteq StepRange(s)
    PROVE  /\ IsFiniteSet(S)
           /\ \A x \in S : TokenCounts[x] = LossTokens(x) /\ TokenCounts[x] \in Nat
           /\ MapThenSumSet(LossTokens, S) = Total(TokenCounts, S)
           /\ Total(TokenCounts, S) \in Nat
<1> DEFINE first == s * Microbatches * MicroBatch
           end == (s + 1) * Microbatches * MicroBatch
           all == TrainIters * Microbatches * MicroBatch
<1>1. {MicroBatch, Microbatches, TrainIters} \subseteq Nat
  BY MimoConstants
<1>2. first \in Nat /\ end \in Nat /\ all \in Nat /\ end <= all
  <2> DEFINE h == TrainIters - (s + 1)
             b == Microbatches * MicroBatch
  <2>1. h \in Nat /\ TrainIters = s + 1 + h /\ b \in Nat
    BY <1>1
  <2>2. first = s * b /\ end = (s + 1) * b /\ all = TrainIters * b
    BY <1>1
  <2> HIDE DEF h, b, first, end, all
  <2>3. TrainIters * b = (s + 1) * b + h * b /\ s * b \in Nat /\ (s + 1) * b \in Nat /\ h * b \in Nat
    BY <2>1
  <2> QED BY <2>2, <2>3
<1>3. StepRange(s) = first .. end - 1 /\ TokenCounts = [x \in 0 .. all - 1 |-> LossTokens(x)]
  BY DEF StepRange, TokenCounts
<1>4. \A x \in 0 .. all - 1 : LossTokens(x) \in Nat
  BY MimoConstants
<1> HIDE DEF first, end, all
<1>5. IsFiniteSet(S)
  <2>1. IsFiniteSet(first .. end - 1)
    BY <1>2, FS_Interval
  <2> QED BY <1>3, <2>1, FS_Subset
<1>6. \A x \in S : x \in 0 .. all - 1
  BY <1>2, <1>3
<1>7. \A x \in S : TokenCounts[x] = LossTokens(x) /\ TokenCounts[x] \in Nat
  BY <1>3, <1>4, <1>6
<1> QED BY <1>5, <1>7, TokensAreTotal, TotalType

LEMMA ShareInStep ==
    ASSUME job \in Layouts, NEW s \in Nat, NEW n \in 1 .. Microbatches, NEW r \in Ranks(job)
    PROVE  SamplesOf(Share(s, n, r)) \subseteq StepRange(s)
<1>1. /\ r[1] \in {"language", "encoder"} /\ r[2] \in 0 .. job.dp[r[1]] - 1
      /\ r = <<r[1], r[2], r[3]>>
  BY RankParts
<1> DEFINE m == r[1]
           d == r[2]
           p == r[3]
<1> HIDE DEF m, d, p
<1>2. SamplesOf(Share(s, n, <<m, d, p>>)) \subseteq StepRange(s)
  BY <1>1, SharesOfStep DEF m, d
<1> QED BY <1>1, <1>2 DEF m, d, p

\* What a sample weighs is a fraction.
LEMMA WeightForm ==
    ASSUME job \in Layouts, NEW s \in Nat, s < TrainIters, NEW x \in StepRange(s)
    PROVE  IF job.perToken THEN WeightOf(s, x) = <<1, 1>>
           ELSE \E k \in Nat : WeightOf(s, x) = <<1, k>>
<1> DEFINE D == 0 .. job.dp["language"] - 1
           N == 1 .. Microbatches
<1>1. \E d \in D : \E n \in N : x \in SamplesOf(Share(s, n, <<"language", d, 0>>))
  BY SharesOfStep
<1>2. PICK d \in D : \E n \in N : x \in SamplesOf(Share(s, n, <<"language", d, 0>>))
  BY <1>1
<1>3. PICK n \in N : x \in SamplesOf(Share(s, n, <<"language", d, 0>>))
  BY <1>2
<1> DEFINE own == Share(s, n, <<"language", d, 0>>)
           t == TokensOf(own)
<1>4. WeightOf(s, x) = LossWeight(job, own)
  BY <1>3, WeightIs
<1>5. t \in Nat
  <2>1. SamplesOf(own) \subseteq StepRange(s)
    BY SharesOfStep
  <2> QED BY <2>1, TokensOfStep DEF TokensOf
<1>6. LossWeight(job, own) =
          IF job.perToken THEN <<1, 1>> ELSE <<1, (IF t > 0 THEN t ELSE 1) * Microbatches>>
  BY DEF LossWeight
<1> HIDE DEF t, own
<1> DEFINE k == (IF t > 0 THEN t ELSE 1) * Microbatches
<1>7. k \in Nat
  <2>1. Microbatches \in Nat
    BY MimoConstants
  <2> QED BY <1>5, <2>1
<1> HIDE DEF k
<1> QED BY <1>4, <1>6, <1>7 DEF k

\* A rank in a step is not past the last one.
Going == \A r \in Ranks(job) : pc[r] \notin {"save", "done"} => step[r] < TrainIters

\* A sample weighs in a gradient what it weighs in the loss.
Weighted == \A r \in Ranks(job) : \A n \in 1 .. Len(grad[r]) :
                \A x \in SamplesOf(Share(step[r], n, r)) : grad[r][n][x] = WeightOf(step[r], x)

\* A rank that computes a loss has counted the tokens of its microbatches.
Summed == \A r \in Ranks(job) :
              pc[r] \in {"run", "save"} /\ ComputesLoss(job, r)
                  => numTokens[r] = Total(TokenCounts, Seen(r))

\* What a sample weighs once gradients are finalized, and before the encoder learns
\* the tokens of the step.
Scaled ==
    \A r \in Ranks(job) :
        /\ pc[r] = "tokens" =>
              /\ job.perToken
              /\ r[1] = "language" => numTokens[r] = StepTokens(step[r])
              /\ \A x \in StepRange(step[r]) :
                    final[r][x] = IF r[1] = "language" THEN OnePart(step[r]) ELSE <<1, 1>>
        /\ pc[r] = "ready" =>
              \A x \in StepRange(step[r]) : final[r][x] = Given(step[r], r[1], x)

GradInv ==
    /\ StepsInv
    /\ DOMAIN final = Ranks(job) /\ DOMAIN numTokens = Ranks(job)
    /\ Going /\ Weighted /\ Summed /\ Scaled

LEMMA InitGrads == Init => GradInv
<1> SUFFICES ASSUME Init PROVE GradInv
  OBVIOUS
<1>1. StepsInv
  BY InitSteps
<1>2. DOMAIN final = Ranks(job) /\ DOMAIN numTokens = Ranks(job) /\ Scaled /\ Weighted
  BY DEF Init, Scaled, Weighted
<1>3. Going
  BY MimoConstants DEF Init, Going
<1>4. Summed
  <2> SUFFICES ASSUME NEW r \in Ranks(job) PROVE numTokens[r] = Total(TokenCounts, Seen(r))
    BY DEF Summed
  <2>1. Seen(r) = {} /\ numTokens[r] = 0
    BY DEF Init, Seen
  <2> QED BY <2>1, TotalStep, FS_EmptySet
<1> QED BY <1>1, <1>2, <1>3, <1>4 DEF GradInv

\* A sample that a rank has seen is in one of its microbatches.
LEMMA SeenApart ==
    ASSUME job \in Layouts, NEW r \in Ranks(job), step[r] \in Nat, NEW n \in 1 .. Microbatches,
           NEW k \in 1 .. Microbatches, n # k
    PROVE  SamplesOf(Share(step[r], n, r)) \cap SamplesOf(Share(step[r], k, r)) = {}
<1>1. /\ r[1] \in {"language", "encoder"} /\ r[2] \in 0 .. job.dp[r[1]] - 1
      /\ r = <<r[1], r[2], r[3]>>
  BY RankParts
<1> DEFINE m == r[1]
           d == r[2]
           p == r[3]
           s == step[r]
<1> HIDE DEF m, d, p, s
<1>2. ASSUME NEW x, x \in SamplesOf(Share(s, n, <<m, d, p>>)), x \in SamplesOf(Share(s, k, <<m, d, p>>))
      PROVE  FALSE
  <2>1. m \in {"language", "encoder"} /\ d \in 0 .. job.dp[m] - 1 /\ s \in Nat
    BY <1>1 DEF m, d, s
  <2>2. n = k
    BY <1>2, <2>1, SharesApart
  <2> QED BY <2>2
<1>3. r = <<m, d, p>>
  BY <1>1 DEF m, d, p
<1> QED BY <1>2, <1>3 DEF s

LEMMA ForwardSummed ==
    ASSUME GradInv, NEW r \in Ranks(job), Forward(r)
    PROVE  Summed'
<1> DEFINE n     == Len(work[r]) + 1
           own   == Slice(job, r, Drawn(r, read[r]))
           share == SamplesOf(Share(step[r], n, r))
<1>1. /\ job \in Layouts /\ step[r] \in Nat /\ Len(work[r]) \in Nat
      /\ work[r] \in Seq([hidden : Seq(Nat), samples : Seq(Nat)])
      /\ DOMAIN work = Ranks(job) /\ DOMAIN numTokens = Ranks(job) /\ MimoInv
  BY DEF GradInv, StepsInv, MimoInv, MimoType
<1>2. /\ pc[r] = "run" /\ n <= Microbatches
      /\ numTokens' = [numTokens EXCEPT ![r] =
             IF ComputesLoss(job, r) THEN @ + TokensOf(own) ELSE @]
      /\ UNCHANGED <<job, pc, step>>
  BY DEF Forward, state
<1>3. Len(work'[r]) = n /\ \A q \in Ranks(job) \ {r} : work'[q] = work[q]
  <2>1. PICK e : work' = [work EXCEPT ![r] = Append(@, e)]
    BY DEF Forward
  <2>2. work'[r] = Append(work[r], e)
    BY <1>1, <2>1
  <2>3. Len(work'[r]) = n
    BY <1>1, <2>2, OneMore
  <2> QED BY <1>1, <2>1, <2>3
<1>4. SUFFICES ASSUME NEW q \in Ranks(job), pc[q] \in {"run", "save"}, ComputesLoss(job, q)
               PROVE  numTokens'[q] = Total(TokenCounts, Seen(q)')
  <2>1. TokenCounts' = TokenCounts
    BY DEF TokenCounts
  <2> QED BY <1>2, <2>1 DEF Summed, ComputesLoss, LastStage
<1>5. numTokens[q] = Total(TokenCounts, Seen(q))
  BY <1>4 DEF GradInv, Summed
<1>6. CASE q # r
  <2>1. Seen(q)' = Seen(q)
    BY <1>2, <1>3, <1>6 DEF Seen, Share
  <2> QED BY <1>1, <1>2, <1>5, <1>6, <2>1
<1>7. CASE q = r
  <2>1. NeedsData(r)
    BY <1>4, <1>7 DEF ComputesLoss, NeedsData
  <2>2. own = Share(step[r], n, r)
    BY <1>1, <2>1, InputIsOwn
  <2>3. n \in 1 .. Microbatches /\ 1 .. n = (1 .. Len(work[r])) \cup {n} /\ Microbatches \in Nat
    BY <1>1, <1>2, MimoConstants
  <2>4. Seen(r)' = Seen(r) \cup share
    <3>1. Seen(r)' = UNION {SamplesOf(Share(step[r], k, r)) : k \in 1 .. n}
      BY <1>2, <1>3 DEF Seen, Share
    <3> DEFINE of(k) == SamplesOf(Share(step[r], k, r))
               L == 1 .. Len(work[r])
    <3>2. Seen(r)' = UNION {of(k) : k \in L \cup {n}} /\ Seen(r) = UNION {of(k) : k \in L}
      BY <2>3, <3>1 DEF Seen
    <3> HIDE DEF of, L, n
    <3>3. UNION {of(k) : k \in L \cup {n}} = (UNION {of(k) : k \in L}) \cup of(n)
      OBVIOUS
    <3> QED BY <3>2, <3>3 DEF of
  <2>5. Seen(r) \cap share = {}
    <3>1. ASSUME NEW k \in 1 .. Len(work[r]) PROVE SamplesOf(Share(step[r], k, r)) \cap share = {}
      <4>1. k \in 1 .. Microbatches /\ k # n
        BY <1>1, <2>3
      <4> HIDE DEF n
      <4> QED BY <1>1, <2>3, <4>1, SeenApart
    <3> QED BY <3>1 DEF Seen
  <2>6. Seen(r) \subseteq StepRange(step[r]) /\ share \subseteq StepRange(step[r])
    <3>1. ASSUME NEW k \in 1 .. n PROVE SamplesOf(Share(step[r], k, r)) \subseteq StepRange(step[r])
      <4>1. k \in 1 .. Microbatches
        BY <2>3
      <4> QED BY <1>1, <4>1, ShareInStep
    <3>2. n \in 1 .. n /\ \A k \in 1 .. Len(work[r]) : k \in 1 .. n
      BY <1>1
    <3> HIDE DEF n
    <3> QED BY <3>1, <3>2 DEF Seen
  <2>7. step[r] < TrainIters
    BY <1>2 DEF GradInv, Going
  <2> HIDE DEF share, n, own
  <2>8. /\ IsFiniteSet(Seen(r)) /\ IsFiniteSet(share)
        /\ \A x \in Seen(r) \cup share : TokenCounts[x] \in Nat
        /\ MapThenSumSet(LossTokens, share) = Total(TokenCounts, share)
    <3>1. /\ IsFiniteSet(Seen(r)) /\ \A x \in Seen(r) : TokenCounts[x] \in Nat
      BY <1>1, <2>6, <2>7, TokensOfStep
    <3>2. /\ IsFiniteSet(share) /\ \A x \in share : TokenCounts[x] \in Nat
          /\ MapThenSumSet(LossTokens, share) = Total(TokenCounts, share)
      BY <1>1, <2>6, <2>7, TokensOfStep
    <3> QED BY <3>1, <3>2
  <2>9. Total(TokenCounts, Seen(r) \cup share) = Total(TokenCounts, Seen(r)) + Total(TokenCounts, share)
    BY <2>5, <2>8, TotalUnion
  <2>10. numTokens'[r] = numTokens[r] + TokensOf(own)
    BY <1>1, <1>2, <1>4, <1>7
  <2>11. TokensOf(own) = Total(TokenCounts, share)
    BY <2>2, <2>8 DEF TokensOf, share
  <2> QED BY <1>5, <1>7, <2>4, <2>9, <2>10, <2>11
<1> QED BY <1>6, <1>7

\* The backward step hands on what samples weigh in the loss.
LEMMA BackwardWeighted ==
    ASSUME GradInv, NEW r \in Ranks(job), Backward(r)
    PROVE  Weighted'
<1> DEFINE n == Len(grad[r]) + 1
           mine == work[r][n]
           received == {grad[q][n] : q \in Consumers(job, r)}
           e == [x \in SamplesOf(mine.hidden) |->
                    IF ComputesLoss(job, r) THEN LossWeight(job, mine.samples)
                    ELSE WeightIn(received, x)]
           share == Share(step[r], n, r)
<1>1. /\ grad' = [grad EXCEPT ![r] = Append(@, e)]
      /\ DOMAIN e = SamplesOf(mine.hidden)
      /\ \A x \in SamplesOf(mine.hidden) :
            e[x] = IF ComputesLoss(job, r) THEN LossWeight(job, mine.samples)
                   ELSE WeightIn(received, x)
  BY DEF Backward
<1>2. /\ n <= Len(work[r]) /\ UNCHANGED <<job, step>>
      /\ \A q \in Consumers(job, r) : step[q] = step[r] /\ Len(grad[q]) >= n
  BY DEF Backward, state
<1> HIDE DEF e
<1>3. job \in Layouts /\ step[r] \in Nat /\ \A q \in Ranks(job) : \E S : grad[q] \in Seq(S)
  BY DEF GradInv, StepsInv, MimoInv, MimoType
<1>4. PICK S : grad[r] \in Seq(S)
  BY <1>3
<1>5. /\ grad'[r] = Append(grad[r], e)
      /\ \A q \in Ranks(job) \ {r} : grad'[q] = grad[q]
  BY <1>1 DEF GradInv, StepsInv, MimoInv, MimoType
<1>6. /\ Len(grad[r]) \in Nat /\ Len(grad'[r]) = n /\ grad'[r][n] = e
      /\ \A i \in 1 .. n - 1 : grad'[r][i] = grad[r][i]
  <2>1. grad[r] \in Seq(S \cup {e})
    BY <1>4
  <2> QED BY <1>5, <2>1
<1>7. mine.hidden = share /\ mine.samples = share /\ n \in 1 .. Microbatches
  <2>1. n \in 1 .. Len(work[r]) /\ Len(work[r]) <= Microbatches /\ Microbatches \in Nat
    BY <1>2, <1>6, MimoConstants DEF GradInv, StepsInv, MimoInv, MimoType, Whole
  <2>2. n \in 1 .. Microbatches
    BY <2>1
  <2> HIDE DEF n
  <2> QED BY <2>1, <2>2 DEF GradInv, StepsInv, MimoInv, Worked
<1>8. ASSUME NEW x \in SamplesOf(share) PROVE e[x] = WeightOf(step[r], x)
  <2> HIDE DEF n, mine, received
  <2>1. CASE ComputesLoss(job, r)
    <3>1. e[x] = LossWeight(job, share)
      BY <1>1, <1>7, <1>8, <2>1
    <3>2. /\ r[1] = "language" /\ r[2] \in 0 .. job.dp["language"] - 1
          /\ r = <<r[1], r[2], r[3]>>
      BY <1>3, <2>1, RankParts DEF ComputesLoss
    <3> DEFINE d == r[2]
               p == r[3]
    <3>3. r = <<"language", d, p>> /\ d \in 0 .. job.dp["language"] - 1
      BY <3>2
    <3> HIDE DEF d, p
    <3>4. x \in SamplesOf(Share(step[r], n, <<"language", d, p>>))
      BY <1>8, <3>3
    <3>5. WeightOf(step[r], x) = LossWeight(job, Share(step[r], n, <<"language", d, p>>))
      BY <1>3, <1>7, <3>3, <3>4, WeightIs
    <3> QED BY <3>1, <3>3, <3>5
  <2>2. CASE ~ComputesLoss(job, r)
    <3>1. PICK q \in Consumers(job, r) : x \in SamplesOf(Share(step[r], n, q))
      BY <1>3, <1>7, <1>8, <2>2, SampleGoesOn
    <3>2. ASSUME NEW c \in Consumers(job, r)
          PROVE  /\ DOMAIN grad[c][n] = SamplesOf(Share(step[r], n, c))
                 /\ x \in DOMAIN grad[c][n] => grad[c][n][x] = WeightOf(step[r], x)
      <4>1. c \in Ranks(job) /\ step[c] = step[r] /\ Len(grad[c]) >= n
        BY <1>2 DEF Consumers
      <4>2. n \in 1 .. Len(grad[c])
        <5>1. Len(grad[c]) \in Nat
          BY <1>3, <4>1
        <5> QED BY <1>7, <4>1, <5>1
      <4>3. DOMAIN grad[c][n] = SamplesOf(Share(step[r], n, c))
        BY <4>1, <4>2 DEF GradInv, StepsInv, Graded
      <4>4. \A y \in SamplesOf(Share(step[r], n, c)) : grad[c][n][y] = WeightOf(step[r], y)
        BY <4>1, <4>2 DEF GradInv, Weighted
      <4> QED BY <4>3, <4>4
    <3>3. grad[q][n] \in received /\ x \in DOMAIN grad[q][n]
      BY <3>1, <3>2 DEF received
    <3> DEFINE f == CHOOSE g \in received : x \in DOMAIN g
    <3>4. f \in received /\ x \in DOMAIN f
      BY <3>3
    <3> HIDE DEF f
    <3>5. PICK c \in Consumers(job, r) : f = grad[c][n]
      BY <3>4 DEF received
    <3>6. f[x] = WeightOf(step[r], x)
      BY <3>2, <3>4, <3>5
    <3>7. WeightIn(received, x) = f[x]
      BY DEF WeightIn, f
    <3> QED BY <1>1, <1>7, <1>8, <2>2, <3>6, <3>7
  <2> QED BY <2>1, <2>2
<1> HIDE DEF n, mine, received
<1>9. SUFFICES ASSUME NEW q \in Ranks(job), NEW i \in 1 .. Len(grad'[q]),
                      NEW x \in SamplesOf(Share(step[q], i, q))
               PROVE  grad'[q][i][x] = WeightOf(step[q], x)
  <2>1. \A s, x : WeightOf(s, x)' = WeightOf(s, x)
    BY <1>2 DEF WeightOf, Share, LossWeight
  <2>2. \A s, i, q : Share(s, i, q)' = Share(s, i, q)
    BY <1>2 DEF Share
  <2> QED BY <1>2, <2>1, <2>2 DEF Weighted
<1>10. CASE q = r /\ i = n
  BY <1>6, <1>8, <1>9, <1>10
<1>11. CASE q = r /\ i # n
  <2>1. i \in 1 .. n - 1 /\ i \in 1 .. Len(grad[r])
    BY <1>6, <1>11 DEF n
  <2> QED BY <1>6, <1>9, <1>11, <2>1 DEF GradInv, Weighted
<1>12. CASE q # r
  BY <1>5, <1>9, <1>12 DEF GradInv, Weighted
<1> QED BY <1>10, <1>11, <1>12

\* The sum over the language model's replicas is that of a function.
LEMMA GlobalTokensAre ==
    ASSUME NEW D, D = 0 .. job.dp["language"] - 1, IsFiniteSet(D), NEW F,
           \A d \in D : F[d] = numTokens[<<"language", d, job.pp["language"] - 1>>]
    PROVE  GlobalTokens(job, numTokens) = Total(F, D)
<1> DEFINE of(d) == numTokens[<<"language", d, job.pp["language"] - 1>>]
           Rec(g) == g = [T \in SUBSET D |-> IF T = {} THEN 0
                              ELSE of(Chosen(T)) + g[T \ {Chosen(T)}]]
<1>1. PICK g : Sums(g, F, D)
  BY SumsExist
<1>2. \A T \in SUBSET D : T # {} => F[Chosen(T)] = of(Chosen(T))
  BY ChosenIn
<1>3. Rec(g)
  <2> HIDE DEF of
  <2> QED BY <1>1, <1>2 DEF Sums
<1> DEFINE h == CHOOSE f : Rec(f)
<1>4. Rec(h)
  BY <1>3
<1>5. GlobalTokens(job, numTokens) = h[D]
  BY DEF GlobalTokens, MapThenSumSet, MapThenFoldSet, Chosen
<1> HIDE DEF h
<1>6. Sums(h, F, D)
  <2> HIDE DEF of
  <2> QED BY <1>2, <1>4 DEF Sums
<1> QED BY <1>5, <1>6, TotalOf

\* When the language model's replicas are through, their counts add up to the tokens of
\* the step.
LEMMA TokensTogether ==
    ASSUME GradInv, NEW s \in Nat,
           \A q \in Members(job, "language") :
               pc[q] = "run" /\ Len(grad[q]) = Microbatches /\ step[q] = s
    PROVE  GlobalTokens(job, numTokens) = StepTokens(s)
<1> DEFINE D == 0 .. job.dp["language"] - 1
           p == job.pp["language"] - 1
           N == 1 .. Microbatches
           of(d, n) == SamplesOf(Share(s, n, <<"language", d, p>>))
           F == [d \in D |-> numTokens[<<"language", d, p>>]]
           A == [d \in D |-> UNION {of(d, n) : n \in N}]
<1>1. job \in Layouts /\ job.dp["language"] \in Nat \ {0} /\ p \in 0 .. p
  <2>1. job \in Layouts
    BY DEF GradInv, StepsInv, MimoInv, MimoType
  <2>2. job.dp["language"] \in Nat \ {0} /\ job.pp["language"] \in Nat \ {0}
    BY <2>1, Sizes
  <2> QED BY <2>1, <2>2
<1>2. IsFiniteSet(D)
  BY <1>1, FS_Interval
<1>3. ASSUME NEW d \in D
      PROVE  /\ <<"language", d, p>> \in Members(job, "language")
             /\ <<"language", d, p>> \in Ranks(job)
  BY <1>1, <1>3 DEF Members, Ranks
<1>4. s < TrainIters
  <2>1. 0 \in D
    BY <1>1
  <2>2. <<"language", 0, p>> \in Ranks(job) /\ pc[<<"language", 0, p>>] = "run" /\ step[<<"language", 0, p>>] = s
    BY <1>3, <2>1
  <2> QED BY <2>2 DEF GradInv, Going
<1>5. ASSUME NEW d \in D PROVE F[d] = Total(TokenCounts, A[d])
  <2> DEFINE r == <<"language", d, p>>
  <2>1. /\ r \in Ranks(job) /\ pc[r] = "run" /\ step[r] = s /\ Len(grad[r]) = Microbatches
    BY <1>3
  <2>2. ComputesLoss(job, r)
    BY DEF ComputesLoss, LastStage
  <2>3. F[d] = numTokens[r] /\ A[d] = UNION {SamplesOf(Share(s, n, r)) : n \in 1 .. Microbatches}
    OBVIOUS
  <2> HIDE DEF r, F, A
  <2>4. numTokens[r] = Total(TokenCounts, Seen(r))
    BY <2>1, <2>2 DEF GradInv, Summed
  <2>5. Len(work[r]) = Microbatches
    <3>1. Microbatches <= Len(work[r]) /\ Len(work[r]) <= Microbatches
      BY <2>1 DEF GradInv, StepsInv, MimoInv, Whole
    <3>2. Len(work[r]) \in Nat /\ Microbatches \in Nat
      BY <2>1, MimoConstants DEF GradInv, StepsInv, MimoInv, MimoType
    <3> QED BY <3>1, <3>2
  <2>6. Seen(r) = A[d]
    BY <2>1, <2>3, <2>5 DEF Seen
  <2> QED BY <2>3, <2>4, <2>6
<1> HIDE DEF F
<1>6. \A x : x \in StepRange(s) <=> \E d \in D : \E n \in N : x \in of(d, n)
  BY <1>1, SharesOfStep
<1>7. ASSUME NEW d \in D, NEW e \in D, NEW n \in N, NEW k \in N, NEW x, x \in of(d, n), x \in of(e, k)
      PROVE  d = e
  BY <1>1, <1>7, SharesApart
<1> HIDE DEF of, N
<1>8. \A d \in D : \A x : x \in A[d] <=> \E n \in N : x \in of(d, n)
  <2> TAKE d \in D
  <2>1. A[d] = UNION {of(d, n) : n \in N}
    OBVIOUS
  <2> QED BY <2>1, Zenon
<1> HIDE DEF A, D
<1>9. \A x : x \in StepRange(s) <=> \E d \in D : x \in A[d]
  BY <1>6, <1>8
<1>10. ASSUME NEW d \in D
       PROVE  IsFiniteSet(A[d]) /\ \A x \in A[d] : TokenCounts[x] \in Nat
  <2>1. A[d] \subseteq StepRange(s)
    BY <1>9
  <2> QED BY <1>4, <2>1, TokensOfStep
<1>11. \A d, e \in D : d # e => A[d] \cap A[e] = {}
  BY <1>7, <1>8
<1>12. Total(F, D) = Total(TokenCounts, StepRange(s))
  BY <1>2, <1>5, <1>9, <1>10, <1>11, TotalFamily
<1>13. GlobalTokens(job, numTokens) = Total(F, D)
  <2>1. D = 0 .. job.dp["language"] - 1 /\ \A d \in D : F[d] = numTokens[<<"language", d, job.pp["language"] - 1>>]
    BY DEF D, F
  <2> QED BY <1>2, <2>1, GlobalTokensAre
<1> QED BY <1>12, <1>13 DEF StepTokens

\* What the replicas of a stage have between them.
LEMMA MergedWeights ==
    ASSUME GradInv, NEW r \in Ranks(job), NEW s, s = step[r],
           \A d \in 0 .. job.dp[r[1]] - 1 :
               /\ step[<<r[1], d, r[3]>>] = s
               /\ Len(grad[<<r[1], d, r[3]>>]) = Microbatches
    PROVE  /\ DOMAIN Merged(r) = StepRange(s)
           /\ \A x \in StepRange(s) : Merged(r)[x] = WeightOf(s, x)
<1> DEFINE m == r[1]
           p == r[3]
           D == 0 .. job.dp[m] - 1
           N == 1 .. Microbatches
           fs == UNION {{grad[<<m, d, p>>][n] : n \in N} : d \in D}
<1>1. job \in Layouts /\ s \in Nat
  BY DEF GradInv, StepsInv, MimoInv, MimoType
<1>2. m \in {"language", "encoder"} /\ p \in 0 .. job.pp[m] - 1
  BY <1>1, RankParts
<1>3. DOMAIN Merged(r) = StepRange(s)
  BY MergedIsStep DEF GradInv
<1>4. ASSUME NEW d \in D, NEW n \in N, NEW x \in DOMAIN grad[<<m, d, p>>][n]
      PROVE  grad[<<m, d, p>>][n][x] = WeightOf(s, x)
  <2>1. <<m, d, p>> \in Ranks(job)
    BY <1>1, <1>2, RankOf
  <2>2. step[<<m, d, p>>] = s /\ n \in 1 .. Len(grad[<<m, d, p>>])
    BY <1>4
  <2>3. x \in SamplesOf(Share(s, n, <<m, d, p>>))
    BY <1>4, <2>1, <2>2 DEF GradInv, StepsInv, Graded
  <2> QED BY <2>1, <2>2, <2>3 DEF GradInv, Weighted
<1>5. Merged(r) = [x \in UNION {DOMAIN f : f \in fs} |-> WeightIn(fs, x)]
  BY DEF Merged
<1> HIDE DEF m, p, D, N
<1>6. \A f \in fs : \E d \in D : \E n \in N : f = grad[<<m, d, p>>][n]
  <2> TAKE f \in fs
  <2>1. PICK S : S \in {{grad[<<m, d, p>>][n] : n \in N} : d \in D} /\ f \in S
    OBVIOUS
  <2>2. PICK d \in D : S = {grad[<<m, d, p>>][n] : n \in N}
    BY <2>1
  <2> QED BY <2>1, <2>2
<1> HIDE DEF fs
<1>7. ASSUME NEW x \in StepRange(s) PROVE Merged(r)[x] = WeightOf(s, x)
  <2>1. x \in UNION {DOMAIN f : f \in fs}
    BY <1>3, <1>5, <1>7
  <2>2. Merged(r)[x] = WeightIn(fs, x) /\ \E f \in fs : x \in DOMAIN f
    BY <1>5, <2>1
  <2> DEFINE f == CHOOSE g \in fs : x \in DOMAIN g
  <2>3. f \in fs /\ x \in DOMAIN f /\ WeightIn(fs, x) = f[x]
    BY <2>2 DEF WeightIn
  <2> HIDE DEF f
  <2>4. PICK d \in D : \E n \in N : f = grad[<<m, d, p>>][n]
    BY <1>6, <2>3
  <2>5. PICK n \in N : f = grad[<<m, d, p>>][n]
    BY <2>4
  <2>6. f[x] = WeightOf(s, x)
    BY <1>4, <2>3, <2>5
  <2> QED BY <2>2, <2>3, <2>6
<1> QED BY <1>3, <1>7

\* What depends on nothing but the job.
LEMMA SameJob ==
    ASSUME job' = job
    PROVE  /\ \A s, n, q : Share(s, n, q)' = Share(s, n, q)
           /\ \A s, x : WeightOf(s, x)' = WeightOf(s, x)
           /\ \A s : StepTokens(s)' = StepTokens(s) /\ StepRange(s)' = StepRange(s)
           /\ \A s : OnePart(s)' = OnePart(s)
           /\ \A s, m, x : Given(s, m, x)' = Given(s, m, x)
           /\ TokenCounts' = TokenCounts
<1>1. \A s, n, q : Share(s, n, q)' = Share(s, n, q)
  BY DEF Share
<1>2. TokenCounts' = TokenCounts /\ \A s : StepRange(s)' = StepRange(s)
  BY DEF TokenCounts, StepRange
<1>3. \A s : StepTokens(s)' = StepTokens(s)
  BY <1>2 DEF StepTokens
<1>4. \A s, x : WeightOf(s, x)' = WeightOf(s, x)
  BY <1>1 DEF WeightOf, LossWeight
<1>5. \A s : OnePart(s)' = OnePart(s)
  BY <1>3 DEF OnePart
<1> QED BY <1>1, <1>2, <1>3, <1>4, <1>5 DEF Given

LEMMA FinalizeScaled ==
    ASSUME GradInv, NEW r \in Ranks(job), FinalizeGrads(r)
    PROVE  Summed' /\ Scaled'
<1> DEFINE total == GlobalTokens(job, numTokens)
           whole == job.perToken /\ r[1] = "language"
           g == {q \in Members(job, r[1]) : whole \/ q[3] = r[3]}
<1>1. /\ \A q \in g : pc[q] = "run" /\ Len(grad[q]) = Microbatches
      /\ final' = [q \in Ranks(job) |->
             IF q \in g THEN [x \in DOMAIN Merged(q) |->
                                 Times(Merged(q)[x], Factor(job, q[1], total))]
             ELSE final[q]]
      /\ numTokens' = [q \in Ranks(job) |-> IF q \in g /\ whole THEN total ELSE numTokens[q]]
      /\ pc' = [q \in Ranks(job) |->
             IF q \in g THEN (IF job.perToken THEN "tokens" ELSE "ready") ELSE pc[q]]
      /\ UNCHANGED <<job, step, work>>
  BY DEF FinalizeGrads, state, batch
<1>2. job \in Layouts /\ step \in [Ranks(job) -> Nat] /\ r[1] \in {"language", "encoder"}
  <2>1. job \in Layouts /\ step \in [Ranks(job) -> Nat]
    BY DEF GradInv, StepsInv, MimoInv, MimoType
  <2> QED BY <2>1, RankParts
<1>3. ASSUME NEW q \in g
      PROVE  /\ q \in Ranks(job) /\ q[1] = r[1]
             /\ \A d \in 0 .. job.dp[q[1]] - 1 : <<q[1], d, q[3]>> \in g
  <2>1. q \in Ranks(job)
    BY <1>2, RankParts DEF Ranks
  <2>2. q[1] = r[1] /\ q[3] \in 0 .. job.pp[r[1]] - 1
    BY DEF Members
  <2>3. \A d \in 0 .. job.dp[r[1]] - 1 : <<q[1], d, q[3]>> \in Members(job, r[1])
    BY <2>2 DEF Members
  <2>4. \A d \in 0 .. job.dp[r[1]] - 1 : <<q[1], d, q[3]>>[3] = q[3]
    OBVIOUS
  <2> QED BY <2>1, <2>2, <2>3, <2>4
<1>4. whole => g = Members(job, "language")
  OBVIOUS
<1>5. /\ \A q \in Ranks(job) : Seen(q)' = Seen(q)
      /\ \A s : StepTokens(s)' = StepTokens(s) /\ StepRange(s)' = StepRange(s)
      /\ \A s : OnePart(s)' = OnePart(s)
      /\ \A s, m, x : Given(s, m, x)' = Given(s, m, x)
      /\ TokenCounts' = TokenCounts
  BY <1>1, SameJob DEF Seen
<1>6. ASSUME NEW q \in g, NEW o \in g PROVE step[q] = step[o]
  <2>1. pc[q] = "run" /\ pc[o] = "run" /\ q \in Ranks(job) /\ o \in Ranks(job)
    BY <1>1, <1>3
  <2>2. Round(q) = Round(o)
    BY <2>1 DEF GradInv, StepsInv, InStep
  <2> QED BY <2>1, <2>2 DEF Round
<1> HIDE DEF g
<1>7. Summed'
  <2>1. SUFFICES ASSUME NEW q \in Ranks(job), pc'[q] \in {"run", "save"}, ComputesLoss(job, q)
                 PROVE  numTokens'[q] = Total(TokenCounts, Seen(q))
    BY <1>1, <1>5 DEF Summed
  <2>2. q \notin g /\ pc[q] \in {"run", "save"}
    BY <1>1, <2>1
  <2> QED BY <1>1, <2>1, <2>2 DEF GradInv, Summed
<1>8. ASSUME NEW q \in g
      PROVE  /\ step[q] < TrainIters
             /\ \A x \in StepRange(step[q]) :
                   final'[q][x] = Times(WeightOf(step[q], x), Factor(job, r[1], total))
             /\ whole => total = StepTokens(step[q]) /\ numTokens'[q] = total
             /\ StepTokens(step[q]) \in Nat
  <2>1. pc[q] = "run" /\ q \in Ranks(job) /\ q[1] = r[1] /\ step[q] \in Nat
    BY <1>1, <1>2, <1>3
  <2>2. step[q] < TrainIters
    BY <2>1 DEF GradInv, Going
  <2>3. \A d \in 0 .. job.dp[q[1]] - 1 :
            /\ step[<<q[1], d, q[3]>>] = step[q]
            /\ Len(grad[<<q[1], d, q[3]>>]) = Microbatches
    <3> TAKE d \in 0 .. job.dp[q[1]] - 1
    <3> DEFINE o == <<q[1], d, q[3]>>
    <3>1. o \in g
      BY <1>3
    <3> HIDE DEF o
    <3>2. step[o] = step[q] /\ Len(grad[o]) = Microbatches
      BY <1>1, <1>6, <3>1
    <3> QED BY <3>2 DEF o
  <2>4. /\ DOMAIN Merged(q) = StepRange(step[q])
        /\ \A x \in StepRange(step[q]) : Merged(q)[x] = WeightOf(step[q], x)
    BY <2>1, <2>3, MergedWeights
  <2>5. ASSUME whole PROVE total = StepTokens(step[q]) /\ numTokens'[q] = total
    <3>1. \A o \in Members(job, "language") :
              pc[o] = "run" /\ Len(grad[o]) = Microbatches /\ step[o] = step[q]
      BY <1>1, <1>4, <1>6, <2>5
    <3>2. total = StepTokens(step[q])
      BY <2>1, <3>1, TokensTogether
    <3> HIDE DEF total, whole
    <3> QED BY <1>1, <2>1, <2>5, <3>2
  <2> HIDE DEF total
  <2>6. ASSUME NEW x \in StepRange(step[q])
        PROVE  final'[q][x] = Times(WeightOf(step[q], x), Factor(job, r[1], total))
    BY <1>1, <2>1, <2>4, <2>6
  <2>7. StepTokens(step[q]) \in Nat
    BY <2>1, <2>2, TokensOfStep DEF StepTokens
  <2> QED BY <2>2, <2>5, <2>6, <2>7
<1> HIDE DEF total
<1>9. ASSUME NEW q \in g
      PROVE  /\ pc'[q] = "tokens" =>
                   /\ job.perToken
                   /\ q[1] = "language" => numTokens'[q] = StepTokens(step[q])
                   /\ \A x \in StepRange(step[q]) :
                         final'[q][x] = IF q[1] = "language" THEN OnePart(step[q]) ELSE <<1, 1>>
             /\ pc'[q] = "ready" =>
                   \A x \in StepRange(step[q]) : final'[q][x] = Given(step[q], q[1], x)
  <2>1. /\ q \in Ranks(job) /\ q[1] = r[1] /\ step[q] \in Nat /\ step[q] < TrainIters
        /\ StepTokens(step[q]) \in Nat /\ job.perToken \in BOOLEAN
    BY <1>2, <1>3, <1>8, MimoConstants
  <2>2. CASE job.perToken
    <3>1. pc'[q] = "tokens"
      BY <1>1, <2>1, <2>2
    <3>2. q[1] = "language" => numTokens'[q] = StepTokens(step[q]) /\ total = StepTokens(step[q])
      BY <1>8, <2>1, <2>2
    <3>3. ASSUME NEW x \in StepRange(step[q])
          PROVE  final'[q][x] = IF q[1] = "language" THEN OnePart(step[q]) ELSE <<1, 1>>
      <4>1. WeightOf(step[q], x) = <<1, 1>>
        BY <1>2, <2>1, <2>2, WeightForm
      <4>2. final'[q][x] = Times(<<1, 1>>, Factor(job, q[1], total))
        BY <1>8, <2>1, <4>1
      <4>3. \A k \in Nat : Times(<<1, 1>>, <<1, k>>) = <<1, k>>
        BY DEF Times
      <4>4. q[1] = "language" => Factor(job, q[1], total) = OnePart(step[q])
        BY <2>2, <3>2 DEF Factor, OnePart
      <4>5. q[1] # "language" => Factor(job, q[1], total) = <<1, 1>>
        BY <2>2 DEF Factor
      <4>6. \E k \in Nat : OnePart(step[q]) = <<1, k>>
        BY <2>1 DEF OnePart
      <4> QED BY <4>2, <4>3, <4>4, <4>5, <4>6
    <3> QED BY <2>2, <3>1, <3>2, <3>3
  <2>3. CASE ~job.perToken
    <3>1. pc'[q] = "ready"
      BY <1>1, <2>1, <2>3
    <3>2. Factor(job, q[1], total) = Times(<<1, job.dp[q[1]]>>, <<job.dp[q[1]], job.dp["language"]>>)
      BY <2>3 DEF Factor
    <3>3. ASSUME NEW x \in StepRange(step[q])
          PROVE  final'[q][x] = Given(step[q], q[1], x)
      BY <1>8, <2>1, <2>3, <3>2 DEF Given
    <3> QED BY <3>1, <3>3
  <2> QED BY <2>1, <2>2, <2>3
<1>10. Scaled'
  <2>1. SUFFICES ASSUME NEW q \in Ranks(job)
                 PROVE  /\ pc'[q] = "tokens" =>
                              /\ job.perToken
                              /\ q[1] = "language" => numTokens'[q] = StepTokens(step[q])
                              /\ \A x \in StepRange(step[q]) :
                                    final'[q][x] = IF q[1] = "language" THEN OnePart(step[q])
                                                   ELSE <<1, 1>>
                        /\ pc'[q] = "ready" =>
                              \A x \in StepRange(step[q]) : final'[q][x] = Given(step[q], q[1], x)
    BY <1>1, <1>5 DEF Scaled
  <2>2. CASE q \in g
    BY <1>9, <2>2
  <2>3. CASE q \notin g
    <3>1. pc'[q] = pc[q] /\ numTokens'[q] = numTokens[q] /\ final'[q] = final[q]
      BY <1>1, <2>3
    <3> QED BY <3>1 DEF GradInv, Scaled
  <2> QED BY <2>2, <2>3
<1> QED BY <1>7, <1>10

\* With the tokens of the step, which the language model has counted, the encoder's
\* gradients become those of the same loss.
LEMMA BroadcastScaled ==
    ASSUME GradInv, BroadcastTokens
    PROVE  Scaled'
<1> DEFINE source == SourceRank(job)
           total == numTokens[source]
           s == step[source]
<1>1. /\ \A r \in Ranks(job) : pc[r] = "tokens"
      /\ final' = [r \in Ranks(job) |->
             IF r[1] = "encoder" /\ total > 0
             THEN [x \in DOMAIN final[r] |-> Times(final[r][x], <<1, total>>)] ELSE final[r]]
      /\ pc' = [r \in Ranks(job) |-> "ready"]
      /\ UNCHANGED <<job, step>>
  BY DEF BroadcastTokens, state
<1>2. job \in Layouts /\ step \in [Ranks(job) -> Nat]
  BY DEF GradInv, StepsInv, MimoInv, MimoType
<1>3. source \in Ranks(job) /\ source[1] = "language"
  <2>1. job.dp["language"] \in Nat \ {0} /\ job.pp["language"] \in Nat \ {0}
    BY <1>2, Sizes
  <2>2. job.dp["language"] - 1 \in 0 .. job.dp["language"] - 1
        /\ job.pp["language"] - 1 \in 0 .. job.pp["language"] - 1
    BY <2>1
  <2> QED BY <1>2, <2>2, RankOf DEF SourceRank
<1> HIDE DEF source
<1>4. job.perToken /\ total = StepTokens(s)
  BY <1>1, <1>3 DEF GradInv, Scaled
<1>5. s \in Nat /\ s < TrainIters
  BY <1>1, <1>2, <1>3 DEF GradInv, Going
<1>6. total \in Nat
  BY <1>4, <1>5, TokensOfStep DEF StepTokens
<1>7. OnePart(s) = IF total > 0 THEN <<1, total>> ELSE <<1, 1>>
  BY <1>4 DEF OnePart
<1>8. \A r \in Ranks(job) : step[r] = s
  BY <1>1, <1>3 DEF GradInv, StepsInv, InStep, Round
<1> HIDE DEF total, s
<1>9. ASSUME NEW r \in Ranks(job), NEW x \in StepRange(s)
      PROVE  final'[r][x] = OnePart(s)
  <2>1. x \in DOMAIN final[r]
    BY <1>1, <1>8, <1>9 DEF GradInv, StepsInv, Finalized
  <2>2. final[r][x] = IF r[1] = "language" THEN OnePart(s) ELSE <<1, 1>>
    BY <1>1, <1>8, <1>9 DEF GradInv, Scaled
  <2>3. r[1] \in {"language", "encoder"}
    BY <1>2, RankParts
  <2>4. CASE r[1] = "encoder" /\ total > 0
    <3>1. final'[r][x] = Times(final[r][x], <<1, total>>)
      BY <1>1, <2>1, <2>4
    <3>2. Times(<<1, 1>>, <<1, total>>) = <<1, total>>
      BY <1>6 DEF Times
    <3> QED BY <1>7, <2>2, <2>4, <3>1, <3>2
  <2>5. CASE ~(r[1] = "encoder" /\ total > 0)
    <3>1. final'[r][x] = final[r][x]
      BY <1>1, <2>5
    <3> QED BY <1>7, <2>2, <2>3, <2>5, <3>1
  <2> QED BY <2>4, <2>5
<1>10. \A r \in Ranks(job) : \A x \in StepRange(step[r]) : final'[r][x] = Given(step[r], r[1], x)
  BY <1>4, <1>8, <1>9 DEF Given
<1> QED BY <1>1, <1>10, SameJob DEF Scaled

LEMMA NextGrads ==
    ASSUME GradInv, [Next]_vars
    PROVE  GradInv'
<1>1. StepsInv'
  BY NextSteps DEF GradInv
<1> SUFFICES /\ DOMAIN final' = Ranks(job') /\ DOMAIN numTokens' = Ranks(job')
             /\ Going' /\ Weighted' /\ Summed' /\ Scaled'
  BY <1>1 DEF GradInv
<1> DEFINE Domains == DOMAIN final = Ranks(job) /\ DOMAIN numTokens = Ranks(job)
<1>2. Domains /\ Going /\ Weighted /\ Summed /\ Scaled /\ TrainIters \in Nat
  BY MimoConstants DEF GradInv
<1>3. ASSUME UNCHANGED <<job, step, grad>> PROVE Weighted'
  BY <1>2, <1>3, SameJob DEF Weighted
<1>4. ASSUME UNCHANGED <<job, step, work>> PROVE \A r \in Ranks(job) : Seen(r)' = Seen(r)
  BY <1>4, SameJob DEF Seen
<1>5. ASSUME NEW r \in Ranks(job), Forward(r) \/ Backward(r)
      PROVE  Domains' /\ Going' /\ Weighted' /\ Summed' /\ Scaled'
  <2>1. UNCHANGED <<job, pc, step, final>> /\ Domains'
    BY <1>2, <1>5 DEF Forward, Backward, state
  <2>2. Going'
    BY <1>2, <2>1 DEF Going
  <2>3. Scaled'
    <3>1. \A q \in Ranks(job) : pc[q] = "tokens" => numTokens'[q] = numTokens[q]
      <4>1. pc[r] = "run"
        BY <1>5 DEF Forward, Backward
      <4>2. \A q \in Ranks(job) \ {r} : numTokens'[q] = numTokens[q]
        BY <1>2, <1>5 DEF Forward, Backward
      <4> QED BY <4>1, <4>2
    <3> QED BY <1>2, <2>1, <3>1, SameJob DEF Scaled
  <2>4. CASE Forward(r)
    <3>1. grad' = grad
      BY <2>4 DEF Forward
    <3> QED BY <1>3, <2>1, <2>2, <2>3, <2>4, <3>1, ForwardSummed
  <2>5. CASE Backward(r)
    <3>1. work' = work /\ numTokens' = numTokens
      BY <2>5 DEF Backward
    <3>2. Summed'
      BY <1>2, <1>4, <2>1, <3>1, SameJob DEF Summed, ComputesLoss, LastStage
    <3> QED BY <2>1, <2>2, <2>3, <2>5, <3>2, BackwardWeighted
  <2> QED BY <1>5, <2>4, <2>5
<1>6. ASSUME NEW r \in Ranks(job), FinalizeGrads(r)
      PROVE  Domains' /\ Going' /\ Weighted' /\ Summed' /\ Scaled'
  <2>1. UNCHANGED <<job, step, grad>> /\ Domains'
    BY <1>6 DEF FinalizeGrads, state, batch
  <2>2. \A q \in Ranks(job) : pc'[q] \notin {"save", "done"} => pc[q] \notin {"save", "done"}
    BY <1>6 DEF FinalizeGrads
  <2>3. Going'
    BY <1>2, <2>1, <2>2 DEF Going
  <2> QED BY <1>3, <1>6, <2>1, <2>3, FinalizeScaled
<1>7. CASE BroadcastTokens
  <2>1. /\ \A r \in Ranks(job) : pc[r] = "tokens"
        /\ pc' = [r \in Ranks(job) |-> "ready"]
        /\ UNCHANGED <<job, step, grad>> /\ Domains'
    BY <1>7 DEF BroadcastTokens, state, batch
  <2>2. Going'
    BY <1>2, <2>1 DEF Going
  <2>3. Summed'
    BY <2>1 DEF Summed
  <2> QED BY <1>3, <1>7, <2>1, <2>2, <2>3, BroadcastScaled
<1>8. CASE OptimizerStep \/ AgreeOnSource \/ BroadcastLoss
  <2>1. /\ \A r \in Ranks(job) : pc[r] \notin {"save", "done"} /\ pc'[r] \in {"logging", "loss", "count"}
        /\ UNCHANGED <<job, step, grad, final, numTokens>>
    BY <1>8 DEF OptimizerStep, AgreeOnSource, BroadcastLoss, state, batch
  <2>2. Going' /\ Summed' /\ Scaled'
    BY <1>2, <2>1 DEF Going, Summed, Scaled
  <2> QED BY <1>2, <1>3, <2>1, <2>2
<1>9. ASSUME NEW r \in Ranks(job), CountStep(r)
      PROVE  Domains' /\ Going' /\ Weighted' /\ Summed' /\ Scaled'
  <2>1. /\ pc[r] = "count" /\ step' = [step EXCEPT ![r] = @ + 1]
        /\ pc' = [pc EXCEPT ![r] = IF step'[r] % SaveInterval = 0 THEN "save" ELSE Start(step'[r])]
        /\ work' = [work EXCEPT ![r] = <<>>] /\ grad' = [grad EXCEPT ![r] = <<>>]
        /\ final' = [final EXCEPT ![r] = <<>>] /\ numTokens' = [numTokens EXCEPT ![r] = 0]
        /\ job' = job
    BY <1>9 DEF CountStep
  <2>2. /\ DOMAIN step = Ranks(job) /\ DOMAIN pc = Ranks(job) /\ DOMAIN work = Ranks(job)
        /\ DOMAIN grad = Ranks(job)
    BY DEF GradInv, StepsInv, MimoInv, MimoType
  <2>3. /\ pc'[r] \in {"run", "save", "done"} /\ work'[r] = <<>> /\ grad'[r] = <<>>
        /\ numTokens'[r] = 0 /\ (pc'[r] = "run" => step'[r] < TrainIters)
    BY <1>2, <2>1, <2>2 DEF Start
  <2>4. \A q \in Ranks(job) \ {r} :
            /\ step'[q] = step[q] /\ pc'[q] = pc[q] /\ work'[q] = work[q] /\ grad'[q] = grad[q]
            /\ final'[q] = final[q] /\ numTokens'[q] = numTokens[q]
    BY <1>2, <2>1, <2>2
  <2>5. Domains' /\ Going'
    BY <1>2, <2>1, <2>3, <2>4 DEF Going
  <2>6. Weighted'
    BY <1>2, <2>1, <2>3, <2>4, SameJob DEF Weighted
  <2>7. Summed'
    <3>1. SUFFICES ASSUME NEW q \in Ranks(job), pc'[q] \in {"run", "save"}, ComputesLoss(job, q)
                   PROVE  numTokens'[q] = Total(TokenCounts, Seen(q)')
      BY <2>1, SameJob DEF Summed, ComputesLoss, LastStage
    <3>2. CASE q = r
      <4>1. Seen(r)' = {}
        BY <2>3 DEF Seen
      <4>2. Total(TokenCounts, {}) = 0
        BY TotalStep, FS_EmptySet
      <4> QED BY <2>3, <3>2, <4>1, <4>2
    <3>3. CASE q # r
      <4>1. Seen(q)' = Seen(q)
        BY <2>1, <2>4, <3>3, SameJob DEF Seen
      <4> QED BY <1>2, <2>4, <3>1, <3>3, <4>1 DEF Summed
    <3> QED BY <3>2, <3>3
  <2>8. Scaled'
    <3>1. SUFFICES ASSUME NEW q \in Ranks(job), pc'[q] \in {"tokens", "ready"}
                   PROVE  q # r
      BY <1>2, <2>1, <2>4, SameJob DEF Scaled
    <3> QED BY <2>3, <3>1
  <2> QED BY <2>5, <2>6, <2>7, <2>8
<1>10. CASE SaveCheckpoint
  <2>1. /\ \A r \in Ranks(job) : pc[r] = "save"
        /\ pc' = [r \in Ranks(job) |-> Start(step[r])]
        /\ UNCHANGED <<job, step, work, grad, final, numTokens>>
    BY <1>10 DEF SaveCheckpoint, state, batch
  <2>2. \A r \in Ranks(job) : pc'[r] \in {"run", "done"} /\ (pc'[r] = "run" => step[r] < TrainIters)
    BY <2>1 DEF Start
  <2>3. Going' /\ Scaled'
    BY <2>1, <2>2 DEF Going, Scaled
  <2>4. Summed'
    BY <1>2, <1>4, <2>1, SameJob DEF Summed, ComputesLoss, LastStage
  <2> QED BY <1>2, <1>3, <2>1, <2>3, <2>4
<1>11. CASE Crash
  <2>1. /\ \A r \in Ranks(job) :
               /\ pc'[r] \in {"run", "done"} /\ (pc'[r] = "run" => step'[r] < TrainIters)
               /\ grad'[r] = <<>> /\ work'[r] = <<>> /\ numTokens'[r] = 0
        /\ job' = job /\ Domains'
    BY <1>11 DEF Crash, NewProcesses, Start
  <2>2. Going' /\ Scaled' /\ Weighted'
    BY <2>1 DEF Going, Scaled, Weighted
  <2>3. Summed'
    <3>1. \A r \in Ranks(job) : Seen(r)' = {}
      BY <2>1 DEF Seen
    <3>2. Total(TokenCounts, {}) = 0
      BY TotalStep, FS_EmptySet
    <3>3. TokenCounts' = TokenCounts
      BY <2>1, SameJob
    <3> QED BY <2>1, <3>1, <3>2, <3>3 DEF Summed
  <2> QED BY <2>1, <2>2, <2>3
<1>12. CASE UNCHANGED vars
  <2>1. UNCHANGED <<job, pc, step, work, grad, final, numTokens>>
    BY <1>12 DEF vars
  <2>2. Going'
    BY <1>2, <2>1 DEF Going
  <2>3. Summed' /\ Scaled'
    BY <1>2, <1>4, <2>1, SameJob DEF Summed, Scaled, ComputesLoss, LastStage
  <2> QED BY <1>2, <1>3, <2>1, <2>2, <2>3
<1> QED BY <1>5, <1>6, <1>7, <1>8, <1>9, <1>10, <1>11, <1>12 DEF Next, Train

\* When the optimizer steps, a sample weighs in the encoder's gradients what it weighs in
\* the language model's, on every rank, and per token that is one part of the tokens of the
\* whole step, for any sizes of the two modules, number of tokens per sample, of microbatches
\* and crashes (finalize_model_grads_multimodule).
THEOREM GradientsAreOfOneLoss == Spec => []GradientsOfOneLoss
<1>1. GradInv => GradientsOfOneLoss
  <2> SUFFICES ASSUME GradInv, NEW r \in Ranks(job), NEW q \in Ranks(job),
                      pc[r] = "ready", pc[q] = "ready"
               PROVE  /\ DOMAIN final[r] = DOMAIN final[q]
                      /\ \A x \in DOMAIN final[r] :
                            /\ SameWeight(final[r][x], final[q][x])
                            /\ LET total == MapThenSumSet(LossTokens, DOMAIN final[r])
                               IN  job.perToken /\ total > 0 =>
                                       SameWeight(final[r][x], <<1, total>>)
    BY DEF GradientsOfOneLoss
  <2> DEFINE s == step[r]
  <2>1. s \in Nat /\ s < TrainIters /\ job \in Layouts
    BY DEF GradInv, StepsInv, MimoInv, MimoType, Going
  <2>2. step[q] = s
    BY DEF GradInv, StepsInv, InStep, Round
  <2>3. DOMAIN final[r] = StepRange(s) /\ DOMAIN final[q] = StepRange(s)
    BY <2>2 DEF GradInv, StepsInv, Finalized
  <2>4. MapThenSumSet(LossTokens, StepRange(s)) = StepTokens(s) /\ StepTokens(s) \in Nat
    BY <2>1, TokensOfStep DEF StepTokens
  <2>5. \A x \in StepRange(s) :
            final[r][x] = Given(s, r[1], x) /\ final[q][x] = Given(s, q[1], x)
    BY <2>2 DEF GradInv, Scaled
  <2> HIDE DEF s
  <2>6. ASSUME NEW x \in StepRange(s)
        PROVE  SameWeight(Given(s, r[1], x), Given(s, q[1], x))
    <3>1. CASE job.perToken
      <4>1. \E k \in Nat : OnePart(s) = <<1, k>>
        BY <2>4 DEF OnePart
      <4>2. Given(s, r[1], x) = OnePart(s) /\ Given(s, q[1], x) = OnePart(s)
        BY <3>1 DEF Given
      <4> QED BY <4>1, <4>2 DEF SameWeight
    <3>2. CASE ~job.perToken
      <4>1. PICK k \in Nat : WeightOf(s, x) = <<1, k>>
        BY <2>1, <3>2, WeightForm
      <4> DEFINE a == job.dp[r[1]]
                 b == job.dp[q[1]]
                 l == job.dp["language"]
      <4>2. a \in Nat /\ b \in Nat /\ l \in Nat
        BY <2>1, RankParts, Sizes
      <4>3. Given(s, r[1], x) = Times(<<1, k>>, Times(<<1, a>>, <<a, l>>))
            /\ Given(s, q[1], x) = Times(<<1, k>>, Times(<<1, b>>, <<b, l>>))
        BY <3>2, <4>1 DEF Given
      <4> HIDE DEF a, b, l
      <4>4. \A c \in Nat : Times(<<1, k>>, Times(<<1, c>>, <<c, l>>)) = <<c, k * (c * l)>>
        BY <4>2 DEF Times
      <4>5. a * (k * (b * l)) = b * (k * (a * l))
        BY <4>2
      <4> QED BY <4>2, <4>3, <4>4, <4>5 DEF SameWeight
    <3> QED BY <3>1, <3>2
  <2>7. ASSUME NEW x \in StepRange(s), job.perToken, StepTokens(s) > 0
        PROVE  SameWeight(Given(s, r[1], x), <<1, StepTokens(s)>>)
    BY <2>7 DEF Given, OnePart, SameWeight
  <2> QED BY <2>3, <2>4, <2>5, <2>6, <2>7
<1> QED BY InitGrads, NextGrads, <1>1, PTL DEF Spec

=============================================================================
