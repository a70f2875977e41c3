------------------------------ MODULE MimoTraining ------------------------------
(***************************************************************************)
(* Training of a language model with an encoder on ranks of its own        *)
(* (train_megatron_mimo.py, megatron_mimo_step.py,                         *)
(* megatron_mimo_parallel_utils.py, data/megatron_mimo).                   *)
(*                                                                         *)
(* The two modules have different numbers of data-parallel replicas and of *)
(* pipeline stages.  Every rank that needs data has a loader of its own,   *)
(* which yields whole microbatches; a rank cuts out its replica's slice.   *)
(* What an encoder makes of its slice goes through a bridge to language    *)
(* ranks, which never learn of which samples it is.  Only the last stage   *)
(* of the language model computes a loss, and the gradients of both        *)
(* modules have to be gradients of that loss.                              *)
(***************************************************************************)
EXTENDS WeightLayouts, FiniteSets, FiniteSetsExt

CONSTANTS
    Layouts,         \* the jobs to choose from, see the assumption
    MicroBatch,      \* micro_batch_size: samples of a microbatch, of all replicas together
    Microbatches,    \* num_microbatches
    LossTokens(_),   \* the tokens of a sample that its loss mask keeps
    TrainIters, SaveInterval,
    MaxFaults        \* bound on crashes

\* dp, pp: data-parallel and pipeline sizes of the modules "language" and "encoder";
\* languageFirst: the language model has the lower ranks; perToken:
\* calculate_per_token_loss.
ASSUME MimoConstants ==
    /\ {MicroBatch, Microbatches, TrainIters, SaveInterval} \subseteq Nat \ {0}
    /\ MaxFaults \in Nat
    /\ \A x \in 0 .. TrainIters * Microbatches * MicroBatch - 1 : LossTokens(x) \in Nat
    /\ \A j \in Layouts :
          /\ {j.languageFirst, j.perToken} \subseteq BOOLEAN
          /\ {j.dp, j.pp} \subseteq [{"language", "encoder"} -> Nat \ {0}]
          /\ \A m \in {"language", "encoder"} : MicroBatch % j.dp[m] = 0
          /\ \/ j.dp["language"] % j.dp["encoder"] = 0
             \/ j.dp["encoder"] % j.dp["language"] = 0

VARIABLES
    job,
    pc,         \* where each rank is in a training step
    step,       \* train_state.step of each rank
    consumed,   \* train_state.consumed_train_samples of each rank
    read,       \* samples the loader of each rank has yielded or passed over
    work,       \* the microbatches each rank has computed: hidden states and own samples
    grad,       \* the gradients of each microbatch: what a sample weighs in them
    final,      \* the gradients that the optimizer is given
    numTokens,  \* num_tokens
    saved,      \* step and consumed samples of the newest checkpoint
    trained,    \* the samples whose gradients made each step, by module
    faults

vars == <<job, pc, step, consumed, read, work, grad, final, numTokens, saved, trained, faults>>
batch == <<read, work, grad>>
state == <<step, consumed>>

NotTrained == [language |-> {}, encoder |-> {}]

-----------------------------------------------------------------------------
\* Ranks <<module, replica, stage>>.

Modules == {"language", "encoder"}

Members(j, m) == {m} \X (0 .. j.dp[m] - 1) \X (0 .. j.pp[m] - 1)
Ranks(j) == Members(j, "language") \cup Members(j, "encoder")

LastStage(j, r) == r[3] = j.pp[r[1]] - 1
ComputesLoss(j, r) == r[1] = "language" /\ LastStage(j, r)

FirstModule(j) == IF j.languageFirst THEN "language" ELSE "encoder"
FirstRank(j) == <<FirstModule(j), 0, 0>>

\* The highest rank that computes a loss: the last of the language model.
SourceRank(j) == <<"language", j.dp["language"] - 1, j.pp["language"] - 1>>

\* All stages of the language model need data, of the encoder only the first.
NeedsData(r) == r[1] = "language" \/ r[3] = 0

\* Mutant: the loader is sharded like the module.
DrawnSharded(r, from) == [i \in 1 .. MicroBatch |-> from + r[2] * MicroBatch + i - 1]

\* The next microbatch of a loader that has yielded `from' samples: of all replicas, with
\* a sampler that knows of one.
Drawn(r, from) == [i \in 1 .. MicroBatch |-> from + i - 1]

\* slice_batch_for_megatron_mimo
Slice(j, r, samples) == Part(samples, j.dp[r[1]], r[2])

-----------------------------------------------------------------------------
\* The bridge from the encoder's last stage to the language model's first, which splits
\* and concatenates contiguously.

Fan(j) == IF j.dp["encoder"] >= j.dp["language"] THEN j.dp["encoder"] \div j.dp["language"]
          ELSE j.dp["language"] \div j.dp["encoder"]

\* The encoder replicas whose output replica k of the language model is sent.
Feeding(j, k) == IF j.dp["encoder"] >= j.dp["language"]
                 THEN {k * Fan(j) + i : i \in 0 .. Fan(j) - 1} ELSE {k \div Fan(j)}

\* What replica k is sent, where out[e] is the output of replica e.
Bridged(j, out, k) == IF j.dp["encoder"] >= j.dp["language"]
                      THEN Cat([i \in 0 .. Fan(j) - 1 |-> out[k * Fan(j) + i]], Fan(j))
                      ELSE Part(out[k \div Fan(j)], Fan(j), k % Fan(j))

Producers(j, r) ==
    IF r[3] > 0 THEN {<<r[1], r[2], r[3] - 1>>}
    ELSE IF r[1] = "encoder" THEN {}
    ELSE {<<"encoder", e, j.pp["encoder"] - 1>> : e \in Feeding(j, r[2])}

Consumers(j, r) == {q \in Ranks(j) : r \in Producers(j, q)}

\* Stages from r to the loss: the microbatches in flight there under the 1F1B schedule.
Depth(j, r) == j.pp[r[1]] - r[3] + (IF r[1] = "encoder" THEN j.pp["language"] ELSE 0)

-----------------------------------------------------------------------------
Start(s) == IF s < TrainIters THEN "run" ELSE "done"

\* Train states and loaders of processes that start from checkpoint c.
NewProcesses(j, c) ==
    /\ pc' = [r \in Ranks(j) |-> Start(c.step)]
    /\ step' = [r \in Ranks(j) |-> c.step]
    /\ consumed' = [r \in Ranks(j) |-> c.consumed]
    /\ read' = [r \in Ranks(j) |-> c.consumed]
    /\ work' = [r \in Ranks(j) |-> <<>>]
    /\ grad' = [r \in Ranks(j) |-> <<>>]
    /\ final' = [r \in Ranks(j) |-> <<>>]
    /\ numTokens' = [r \in Ranks(j) |-> 0]

Init ==
    /\ job \in Layouts
    /\ pc = [r \in Ranks(job) |-> "run"]
    /\ step = [r \in Ranks(job) |-> 0]
    /\ consumed = [r \in Ranks(job) |-> 0]
    /\ read = [r \in Ranks(job) |-> 0]
    /\ work = [r \in Ranks(job) |-> <<>>]
    /\ grad = [r \in Ranks(job) |-> <<>>]
    /\ final = [r \in Ranks(job) |-> <<>>]
    /\ numTokens = [r \in Ranks(job) |-> 0]
    /\ saved = [step |-> 0, consumed |-> 0]
    /\ trained = [s \in 0 .. TrainIters - 1 |-> NotTrained]
    /\ faults = 0

SamplesOf(s) == {s[i] : i \in DOMAIN s}
TokensOf(s)  == MapThenSumSet(LossTokens, SamplesOf(s))

\* What reaches r of its microbatch n.
Arriving(r, n) ==
    IF r[1] = "language" /\ r[3] = 0
    THEN Bridged(job, [e \in 0 .. job.dp["encoder"] - 1 |->
                          LET q == <<"encoder", e, job.pp["encoder"] - 1>>
                          IN  IF Len(work[q]) >= n THEN work[q][n].hidden ELSE <<>>], r[2])
    ELSE work[<<r[1], r[2], r[3] - 1>>][n].hidden

\* The forward step of a microbatch, when the stages before it have sent theirs.
Forward(r) ==
    LET n     == Len(work[r]) + 1
        own   == Slice(job, r, Drawn(r, read[r]))
        input == IF Producers(job, r) = {} THEN own ELSE Arriving(r, n)
    IN  /\ pc[r] = "run" /\ n <= Microbatches
        /\ Len(work[r]) - Len(grad[r]) < Depth(job, r)
        /\ \A q \in Producers(job, r) : step[q] = step[r] /\ Len(work[q]) >= n
        /\ read' = [read EXCEPT ![r] = IF NeedsData(r) THEN @ + MicroBatch ELSE @]
        /\ work' = [work EXCEPT ![r] = Append(@,
                       [hidden |-> input, samples |-> IF NeedsData(r) THEN own ELSE input])]
        /\ numTokens' = [numTokens EXCEPT ![r] = IF ComputesLoss(job, r) THEN @ + TokensOf(own)
                                                 ELSE @]
        /\ UNCHANGED <<job, pc, state, grad, final, saved, trained, faults>>

-----------------------------------------------------------------------------
\* Gradients.  The weight of a sample, that of each of its tokens, is a fraction
\* <<numerator, denominator>>.

Times(v, w) == <<v[1] * w[1], v[2] * w[2]>>
SameWeight(v, w) == v[1] * w[2] = w[1] * v[2]

\* Unless it is per token, the loss is averaged over the tokens of the replica's slice
\* and over the microbatches.
LossWeight(j, samples) ==
    LET n == TokensOf(samples)
    IN  IF j.perToken THEN <<1, 1>> ELSE <<1, (IF n > 0 THEN n ELSE 1) * Microbatches>>

\* The weight of sample x in the functions fs, one of which knows it.
WeightIn(fs, x) == (CHOOSE f \in fs : x \in DOMAIN f)[x]

\* The backward step of a microbatch, when the stages after it have sent theirs.
Backward(r) ==
    LET n    == Len(grad[r]) + 1
        mine == work[r][n]
        received == {grad[q][n] : q \in Consumers(job, r)}
    IN  /\ pc[r] = "run" /\ n <= Len(work[r])
        /\ \A q \in Consumers(job, r) : step[q] = step[r] /\ Len(grad[q]) >= n
        /\ grad' = [grad EXCEPT ![r] = Append(@,
                       [x \in SamplesOf(mine.hidden) |->
                           IF ComputesLoss(job, r) THEN LossWeight(job, mine.samples)
                           ELSE WeightIn(received, x)])]
        /\ UNCHANGED <<job, pc, state, read, work, final, numTokens, saved, trained, faults>>

\* The gradients that the replicas of r's stage have between them.
Merged(r) ==
    LET fs == UNION {{grad[<<r[1], d, r[3]>>][n] : n \in 1 .. Microbatches}
                     : d \in 0 .. job.dp[r[1]] - 1}
    IN  [x \in UNION {DOMAIN f : f \in fs} |-> WeightIn(fs, x)]

\* What the gradients of module m are scaled by: DDP averages over replicas, which is made
\* up for where the encoder has another number of them; per token DDP sums, and the
\* language model divides by the tokens of all its replicas.
Factor(j, m, total) ==
    IF j.perToken THEN IF m = "language" /\ total > 0 THEN <<1, total>> ELSE <<1, 1>>
    ELSE Times(<<1, j.dp[m]>>, <<j.dp[m], j.dp["language"]>>)

\* Mutant: the count of one replica is given to all ranks first.
GlobalTokensOfOne(j, tokens) == j.dp["language"] * tokens[SourceRank(j)]

\* num_tokens after the broadcast from the last stage and the sum over the replicas.
GlobalTokens(j, tokens) ==
    MapThenSumSet(LAMBDA d : tokens[<<"language", d, j.pp["language"] - 1>>],
                  0 .. j.dp["language"] - 1)

\* finalize_model_grads of one module: a collective of the replicas of a stage, and of
\* all stages where num_tokens goes round.
FinalizeGrads(r) ==
    LET total == GlobalTokens(job, numTokens)
        whole == job.perToken /\ r[1] = "language"
        g == {q \in Members(job, r[1]) : whole \/ q[3] = r[3]}
    IN  /\ r[2] = 0 /\ (whole => r[3] = 0)
        /\ \A q \in g : pc[q] = "run" /\ Len(grad[q]) = Microbatches
        /\ final' = [q \in Ranks(job) |->
               IF q \in g THEN [x \in DOMAIN Merged(q) |->
                                   Times(Merged(q)[x], Factor(job, q[1], total))]
               ELSE final[q]]
        /\ numTokens' = [q \in Ranks(job) |-> IF q \in g /\ whole THEN total ELSE numTokens[q]]
        /\ pc' = [q \in Ranks(job) |->
               IF q \in g THEN (IF job.perToken THEN "tokens" ELSE "ready") ELSE pc[q]]
        /\ UNCHANGED <<job, state, batch, saved, trained, faults>>

\* The total goes from the last language rank to all ranks, and the encoder divides by it.
BroadcastTokens ==
    LET total == numTokens[SourceRank(job)]
    IN  /\ \A r \in Ranks(job) : pc[r] = "tokens"
        /\ numTokens' = [r \in Ranks(job) |-> total]
        /\ final' = [r \in Ranks(job) |->
               IF r[1] = "encoder" /\ total > 0
               THEN [x \in DOMAIN final[r] |-> Times(final[r][x], <<1, total>>)] ELSE final[r]]
        /\ pc' = [r \in Ranks(job) |-> "ready"]
        /\ UNCHANGED <<job, state, batch, saved, trained, faults>>

-----------------------------------------------------------------------------
\* The end of a step.

\* The optimizers of all modules share one gradient norm, and step together or not at all.
OptimizerStep ==
    LET s == step[FirstRank(job)]
    IN  /\ \A r \in Ranks(job) : pc[r] = "ready"
        /\ trained' = [trained EXCEPT ![s] =
               [m \in Modules |-> UNION {DOMAIN final[r] : r \in Members(job, m)}]]
        /\ pc' = [r \in Ranks(job) |-> "logging"]
        /\ UNCHANGED <<job, state, batch, final, numTokens, saved, faults>>

\* Mutant: only the two ranks that the loss is about.
EntersBroadcastOfTwo(j, r) ==
    j.languageFirst /\ (r = SourceRank(j) \/ (r[1] = "encoder" /\ r[2] = j.dp[r[1]] - 1 /\ LastStage(j, r)))

\* The loss is broadcast to all ranks, unless the last rank of the job has it.
EntersBroadcast(j, r) == j.languageFirst

\* All ranks learn who has the loss.
AgreeOnSource ==
    /\ \A r \in Ranks(job) : pc[r] = "logging"
    /\ pc' = [r \in Ranks(job) |-> IF EntersBroadcast(job, r) THEN "loss" ELSE "count"]
    /\ UNCHANGED <<job, state, batch, final, numTokens, saved, trained, faults>>

BroadcastLoss ==
    /\ \A r \in Ranks(job) : pc[r] = "loss"
    /\ pc' = [r \in Ranks(job) |-> "count"]
    /\ UNCHANGED <<job, state, batch, final, numTokens, saved, trained, faults>>

\* Mutant: those of the rank's own replica.
StepSamplesOfReplica(j, r) == Microbatches * (MicroBatch \div j.dp[r[1]])

\* The samples of a step as r counts them: data_parallel_size is 1 to the training loop.
StepSamples(j, r) == Microbatches * MicroBatch

\* A rank counts the step and its samples, and goes on to the save that is
\* due or to the next step, at whose start its gradients are cleared.
CountStep(r) ==
    /\ pc[r] = "count"
    /\ step' = [step EXCEPT ![r] = @ + 1]
    /\ consumed' = [consumed EXCEPT ![r] = @ + StepSamples(job, r)]
    /\ pc' = [pc EXCEPT ![r] = IF step'[r] % SaveInterval = 0 THEN "save" ELSE Start(step'[r])]
    /\ work' = [work EXCEPT ![r] = <<>>] /\ grad' = [grad EXCEPT ![r] = <<>>]
    /\ final' = [final EXCEPT ![r] = <<>>] /\ numTokens' = [numTokens EXCEPT ![r] = 0]
    /\ UNCHANGED <<job, read, saved, trained, faults>>

\* The checkpoint, whole or not at all, with the train state of the first rank.
SaveCheckpoint ==
    /\ \A r \in Ranks(job) : pc[r] = "save"
    /\ saved' = [step |-> step[FirstRank(job)], consumed |-> consumed[FirstRank(job)]]
    /\ pc' = [r \in Ranks(job) |-> Start(step[r])]
    /\ UNCHANGED <<job, state, batch, final, numTokens, trained, faults>>

\* The job dies and starts again; loaders are built after the checkpoint is read.
Crash ==
    /\ faults < MaxFaults /\ \E r \in Ranks(job) : pc[r] # "done"
    /\ faults' = faults + 1
    /\ UNCHANGED <<job, saved, trained>>
    /\ NewProcesses(job, saved)

Train ==
    \/ \E r \in Ranks(job) : Forward(r) \/ Backward(r) \/ FinalizeGrads(r)
    \/ BroadcastTokens \/ OptimizerStep \/ AgreeOnSource \/ BroadcastLoss
    \/ \E r \in Ranks(job) : CountStep(r)
    \/ SaveCheckpoint

Next == Train \/ Crash

\* Every rank goes on as long as it can; no crash has to happen.
Spec == Init /\ [][Next]_vars /\ WF_vars(Train)

-----------------------------------------------------------------------------
(* Properties. *)

\* What reaches a rank, through the bridge and the pipeline, is of the samples whose
\* tokens, positions and labels the rank cut from its own loader's microbatch, whatever
\* the sizes of the two modules and however far each loader has read
\* (slice_batch_for_megatron_mimo: "ensuring consistency with the BridgeCommunicator").
EmbeddingsMeetTokens ==
    \A r \in Ranks(job) : \A n \in DOMAIN work[r] : work[r][n].hidden = work[r][n].samples

\* When the optimizer steps, both modules are given gradients of one loss: a sample weighs
\* in the encoder what it weighs in the language model, on every rank; per token that is
\* one part of the tokens of the whole step (finalize_model_grads_multimodule).
GradientsOfOneLoss ==
    \A r, q \in Ranks(job) :
        pc[r] = "ready" /\ pc[q] = "ready" =>
            /\ DOMAIN final[r] = DOMAIN final[q]
            /\ \A x \in DOMAIN final[r] :
                  /\ SameWeight(final[r][x], final[q][x])
                  /\ LET total == MapThenSumSet(LossTokens, DOMAIN final[r])
                     IN  job.perToken /\ total > 0 => SameWeight(final[r][x], <<1, total>>)

\* Each step trains both modules on the samples it would have in a run that never
\* stopped: crashes neither repeat nor lose any, although ranks count on their own and
\* only the first rank's counts are saved.
StepsFollowSchedule ==
    \A s \in DOMAIN trained : trained[s] # NotTrained =>
        \A m \in Modules :
            trained[s][m] = s * Microbatches * MicroBatch
                            .. (s + 1) * Microbatches * MicroBatch - 1

\* Training ends: no rank waits for a microbatch, or in a collective, that another rank
\* has left out.
StepsComplete == <>(\A r \in Ranks(job) : pc[r] = "done")
=============================================================================
