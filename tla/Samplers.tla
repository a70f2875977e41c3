------------------------------- MODULE Samplers -------------------------------
(***************************************************************************)
(* The batch samplers of pretraining and fine-tuning (data/samplers.py),   *)
(* the loaders and cyclic iterators around them (data/loaders.py), and the *)
(* training loop that draws from them, saves a position and comes back to  *)
(* it after a crash, perhaps on another number of data-parallel ranks.     *)
(*                                                                         *)
(* Every data-parallel rank has a sampler of its own and a DataLoader that *)
(* runs ahead of training; ranks never exchange a position.  That they see *)
(* disjoint parts of the same global batch, and that a resumed run sees    *)
(* what the lost one saw, rests on arithmetic over consumed samples alone. *)
(* The batch size is constant: a ramp-up is in TrainLoop.                  *)
(***************************************************************************)
EXTENDS Integers, FiniteSets, Sequences

CONSTANTS
    Configs,         \* the data configurations to choose from, see the assumption
    Perm(_, _, _),   \* Perm(n, s, i): the i-th index of torch.randperm(n) under seed s
    MaxDP,           \* bound on the data-parallel size
    Prefetch,        \* batches a DataLoader holds ready
    MaxRestarts      \* bound on crashes

\* kind: dataloader_type; total: len(dataset); mbs, gbs: the batch sizes; drop:
\* drop_last; sharding: data_sharding; epochs: num_epochs, 0 for None; iters:
\* train_iters where num_epochs is None.
ASSUME SamplerConstants ==
    /\ \A c \in Configs :
          /\ c.kind \in {"single", "cyclic", "batch"}
          /\ {c.total, c.mbs, c.gbs, c.iters} \subseteq Nat \ {0} /\ c.epochs \in Nat
          /\ {c.drop, c.sharding} \subseteq BOOLEAN
          /\ c.drop => c.total >= c.gbs          \* the loaders raise otherwise
          /\ c.epochs > 0 => c.kind = "batch" /\ ~c.drop
          /\ c.kind = "cyclic" => c.total >= c.gbs
          /\ c.gbs % c.mbs = 0
    /\ MaxDP \in Nat \ {0} /\ Prefetch \in Nat \ {0} /\ MaxRestarts \in Nat
    \* A step finds all its batches in the queue.
    /\ \A c \in Configs : Prefetch * c.mbs >= c.gbs \/ c.kind = "batch"

Pad  == -1     \* the index that pads an incomplete global batch

VARIABLES
    config,     \* the configuration of this job
    dp,         \* data-parallel size of the current run
    consumed,   \* consumed_samples of the sampler of each rank
    begun,      \* the first pass over the sampler has begun
    pending,    \* batches the current pass has yet to yield, rank by rank
    queue,      \* batches each DataLoader holds ready
    position,   \* train_state.consumed_train_samples
    saved,      \* consumed_train_samples of the newest checkpoint
    trained,    \* the batches of every step trained so far: [step -> [rank -> batches]]
    restarts

vars == <<config, dp, consumed, begun, pending, queue, position, saved, trained, restarts>>
sampler == <<consumed, begun, pending, queue>>

-----------------------------------------------------------------------------
\* Python slices, and the accumulation of indices into batches.

SmallerOf(m, n) == IF m < n THEN m ELSE n
CeilDiv(m, n)   == (m + n - 1) \div n

From(s, n)     == SubSeq(s, n + 1, Len(s))                         \* s[n:]
Every(s, r, n) == [i \in 1 .. CeilDiv(Len(s) - r, n) |-> s[r + 1 + (i - 1) * n]]  \* s[r::n]
Blocks(s, n)   == [k \in 1 .. Len(s) \div n |-> SubSeq(s, (k - 1) * n + 1, k * n)]
Remainder(s, n) == From(s, (Len(s) \div n) * n)

Permuted(n, seed) == [i \in 1 .. n |-> Perm(n, seed, i)]

\* Mutant: a batch counts for the rank that draws it alone.
UnitOfRank(c, d) == IF c.kind = "batch" THEN c.gbs ELSE c.mbs

\* Samples that one batch of every rank stands for, and the batches of a step.
Unit(c, d)  == IF c.kind = "batch" THEN c.gbs ELSE c.mbs * d
Draws(c, d) == IF c.kind = "batch" THEN 1 ELSE c.gbs \div (c.mbs * d)

\* The part of the dataset that one epoch visits, padding included.
Active(c, d) ==
    IF c.kind = "cyclic" THEN c.total - (c.total % (c.mbs * d))
    ELSE IF c.drop THEN (c.total \div c.gbs) * c.gbs
    ELSE CeilDiv(c.total, c.gbs) * c.gbs

-----------------------------------------------------------------------------
\* What one pass of a rank's sampler yields, from the samples consumed before it.

SequentialPass(c, d, r, before) ==
    LET order   == [i \in 1 .. c.total - before |-> before + i - 1]
        mine(b) == SubSeq(b, r * c.mbs + 1, SmallerOf((r + 1) * c.mbs, Len(b)))
        full    == [k \in 1 .. Len(order) \div (c.mbs * d) |-> mine(Blocks(order, c.mbs * d)[k])]
        rest    == Remainder(order, c.mbs * d)
    IN  IF rest # <<>> /\ ~c.drop THEN Append(full, mine(rest)) ELSE full

\* Mutant: the offset of an earlier epoch is applied again.
GlobalBatchPassAbsolute(c, d, r, before) ==
    LET order == From(Permuted(c.total, before \div Active(c, d)), before)
    IN  [k \in 1 .. Len(order) \div c.gbs |-> Every(Blocks(order, c.gbs)[k], r, d)]

GlobalBatchPass(c, d, r, before) ==
    LET order == From(Permuted(c.total, before \div Active(c, d)), before % Active(c, d))
        full  == [k \in 1 .. Len(order) \div c.gbs |-> Every(Blocks(order, c.gbs)[k], r, d)]
        rest  == Remainder(order, c.gbs)
        mine  == Every(rest, r, d)
        pads  == [i \in 1 .. c.gbs \div d - Len(mine) |-> Pad]
    IN  IF rest # <<>> /\ ~c.drop THEN Append(full, mine \o pads) ELSE full

\* Mutant: the buckets of the ranks start at the same sample.
RandomPassOneBucket(c, d, r, before) ==
    LET bucket == (c.total \div (c.mbs * d)) * c.mbs
    IN  Blocks(From(Permuted(bucket, before \div Active(c, d)), (before % Active(c, d)) \div d),
               c.mbs)

RandomPass(c, d, r, before) ==
    LET epoch  == before \div Active(c, d)
        offset == before % Active(c, d)
        bucket == (c.total \div (c.mbs * d)) * c.mbs
        part   == From(Permuted(bucket, epoch), offset \div d)
        whole  == From(Permuted((c.total \div c.mbs) * c.mbs, epoch), offset)
        mine   == IF c.sharding THEN [i \in 1 .. Len(part) |-> r * bucket + part[i]]
                                ELSE Every(whole, r, d)
    IN  Blocks(mine, c.mbs)

Pass(c, d, r, before) ==
    IF c.kind = "single" THEN SequentialPass(c, d, r, before)
    ELSE IF c.kind = "batch" THEN GlobalBatchPass(c, d, r, before)
    ELSE RandomPass(c, d, r, before)

-----------------------------------------------------------------------------
Ranks(d) == 0 .. d - 1

\* The data-parallel sizes the batch sizes allow.
Sizes(c) == {d \in 1 .. MaxDP : c.gbs % (c.mbs * d) = 0}

\* Mutant: an incomplete last batch has no iteration.
TrainItersFloor(c) == IF c.epochs = 0 THEN c.iters ELSE c.epochs * (c.total \div c.gbs)

\* num_epochs is turned into iterations before training starts.
TrainIters(c) == IF c.epochs = 0 THEN c.iters ELSE c.epochs * CeilDiv(c.total, c.gbs)

\* Samplers, loaders and iterators of a run that has trained on `before' samples.
NewLoaders(d, before) ==
    /\ consumed' = [r \in Ranks(d) |-> before]
    /\ begun'    = [r \in Ranks(d) |-> FALSE]
    /\ pending'  = [r \in Ranks(d) |-> <<>>]
    /\ queue'    = [r \in Ranks(d) |-> <<>>]

NotTrained == <<>>

Init ==
    /\ config \in Configs
    /\ dp \in Sizes(config)
    /\ consumed = [r \in Ranks(dp) |-> 0]
    /\ begun    = [r \in Ranks(dp) |-> FALSE]
    /\ pending  = [r \in Ranks(dp) |-> <<>>]
    /\ queue    = [r \in Ranks(dp) |-> <<>>]
    /\ position = 0 /\ saved = 0 /\ restarts = 0
    /\ trained = [s \in 0 .. TrainIters(config) - 1 |-> NotTrained]

\* The loader of rank r asks an exhausted sampler, or a new one, for a pass: once for
\* "single", again and again through cyclic_iter for the others.
BeginPass(r) ==
    /\ pending[r] = <<>> /\ Len(queue[r]) < Prefetch
    /\ config.kind = "single" => ~begun[r]
    /\ begun'   = [begun EXCEPT ![r] = TRUE]
    /\ pending' = [pending EXCEPT ![r] = Pass(config, dp, r, consumed[r])]
    /\ UNCHANGED <<config, dp, consumed, queue, position, saved, trained, restarts>>

\* Mutant: the sampler keeps the count it was built with.
DrawUncounted(r) ==
    /\ pending[r] # <<>> /\ Len(queue[r]) < Prefetch
    /\ pending' = [pending EXCEPT ![r] = Tail(@)]
    /\ queue'   = [queue EXCEPT ![r] = Append(@, Head(pending[r]))]
    /\ UNCHANGED <<config, dp, begun, consumed, position, saved, trained, restarts>>

\* The sampler yields a batch.  The sequential one does not count what it yields.
Draw(r) ==
    /\ pending[r] # <<>> /\ Len(queue[r]) < Prefetch
    /\ pending' = [pending EXCEPT ![r] = Tail(@)]
    /\ queue'   = [queue EXCEPT ![r] = Append(@, Head(pending[r]))]
    /\ consumed' = IF config.kind = "single" THEN consumed
                   ELSE [consumed EXCEPT ![r] = @ + Unit(config, dp)]
    /\ UNCHANGED <<config, dp, begun, position, saved, trained, restarts>>

CurrentStep == position \div config.gbs

\* Mutant: a step after the last.
TrainStepPastEnd ==
    /\ CurrentStep <= TrainIters(config)
    /\ \A r \in Ranks(dp) : Len(queue[r]) >= Draws(config, dp)
    /\ queue' = [r \in Ranks(dp) |-> From(queue[r], Draws(config, dp))]
    /\ position' = position + config.gbs
    /\ UNCHANGED <<config, dp, consumed, begun, pending, saved, trained, restarts>>

\* A step takes its microbatches, or the one global batch, from every rank.  An
\* iteration that is skipped draws and counts the same.
TrainStep ==
    LET n == Draws(config, dp)
    IN  /\ CurrentStep < TrainIters(config)
        /\ \A r \in Ranks(dp) : Len(queue[r]) >= n
        /\ trained' = [trained EXCEPT ![CurrentStep] =
                           [r \in Ranks(dp) |-> SubSeq(queue[r], 1, n)]]
        /\ queue' = [r \in Ranks(dp) |-> From(queue[r], n)]
        /\ position' = position + config.gbs
        /\ UNCHANGED <<config, dp, consumed, begun, pending, saved, restarts>>

SaveCheckpoint ==
    /\ saved # position
    /\ saved' = position
    /\ UNCHANGED <<config, dp, sampler, position, trained, restarts>>

\* A crash, and a start on d ranks from the newest checkpoint.  The sequential sampler
\* refuses to start with no sample left.
Restart(d) ==
    /\ restarts < MaxRestarts
    /\ config.kind = "single" => saved < config.total
    /\ dp' = d
    /\ position' = saved
    /\ NewLoaders(d, saved)
    /\ restarts' = restarts + 1
    /\ UNCHANGED <<config, saved, trained>>

Next ==
    \/ \E r \in Ranks(dp) : BeginPass(r) \/ Draw(r)
    \/ TrainStep \/ SaveCheckpoint
    \/ \E d \in Sizes(config) : Restart(d)

Fairness ==
    /\ WF_vars(TrainStep)
    /\ \A r \in 0 .. MaxDP - 1 : WF_vars(r < dp /\ (BeginPass(r) \/ Draw(r)))

Spec == Init /\ [][Next]_vars /\ Fairness

-----------------------------------------------------------------------------
(***************************************************************************)
(*                              Properties                                 *)
(***************************************************************************)

Index == Nat \cup {Pad}

\* Types of the state.
TypeOK ==
    /\ config \in Configs /\ dp \in Sizes(config)
    /\ consumed \in [Ranks(dp) -> Nat]
    /\ begun \in [Ranks(dp) -> BOOLEAN]
    /\ {pending, queue} \subseteq [Ranks(dp) -> Seq(Seq(Index))]
    /\ \A r \in Ranks(dp) : Len(queue[r]) <= Prefetch
    /\ {position, saved} \subseteq {s * config.gbs : s \in 0 .. TrainIters(config)}
    /\ restarts \in 0 .. MaxRestarts

\* The count a sampler keeps to tell epochs apart is the count of the training loop plus
\* what its loader holds ready, on every rank and through every restart: neither of the
\* two is ever told the other's (train.py:569, samplers.py:367 and 504).
SamplerTracksTrainer ==
    config.kind # "single" =>
        \A r \in Ranks(dp) : consumed[r] = position + Unit(config, dp) * Len(queue[r])

IsTrained(s) == trained[s] # NotTrained

\* The places of the samples of a step: rank, batch, place in the batch.
Slots(s) ==
    UNION {UNION {{<<r, k, i>> : i \in DOMAIN trained[s][r][k]}
                  : k \in DOMAIN trained[s][r]} : r \in DOMAIN trained[s]}

SampleAt(s, x) == trained[s][x[1]][x[2]][x[3]]
SizeAt(s)      == Cardinality(DOMAIN trained[s])
Samples(s)     == {SampleAt(s, x) : x \in Slots(s)}

\* Two sizes at which a sampler means the same samples by one position.
SameOrder(c, d, e) ==
    c.kind = "cyclic" => d = e \/ (~c.sharding /\ Active(c, d) = Active(c, e))

\* A step that is trained again after a crash is trained on the samples it had: the same
\* batches on every rank when the number of ranks is the same, and the same global batch
\* on any number (samplers.py:212 promises it of the shuffled order).
RunsRepeat ==
    [][\A s \in DOMAIN trained : IsTrained(s) =>
          /\ SizeAt(s)' = SizeAt(s) => trained'[s] = trained[s]
          /\ SameOrder(config, SizeAt(s), SizeAt(s)') => Samples(s)' = Samples(s)]_vars

EpochOf(s, x) ==
    LET d == SizeAt(s)
    IN  (s * config.gbs + (x[2] - 1) * config.mbs * d) \div Active(config, d)

\* Within an epoch no sample is trained twice, by one rank or by two: not around a
\* restart in the middle of it, nor when the rest of a pass meets the next one.
NoSampleTwice ==
    \A s, t \in DOMAIN trained :
        IsTrained(s) /\ IsTrained(t) /\ SameOrder(config, SizeAt(s), SizeAt(t)) =>
            \A x \in Slots(s), y \in Slots(t) :
                /\ <<s, x>> # <<t, y>>
                /\ config.kind = "single" \/ EpochOf(s, x) = EpochOf(t, y)
                /\ SampleAt(s, x) = SampleAt(t, y)
                => SampleAt(s, x) = Pad

TrainingDone == CurrentStep = TrainIters(config)

\* A job configured by epochs has, when its last step is trained, trained every sample
\* of the dataset once per epoch, the last incomplete batches included.
EpochsTrainEverySample ==
    TrainingDone /\ config.epochs > 0 =>
        \A i \in 0 .. config.total - 1 :
            config.epochs = Cardinality(UNION {{<<s, x>> : x \in
                {y \in Slots(s) : SampleAt(s, y) = i}} : s \in DOMAIN trained})

\* A sampler that is iterated again and again never starves the loop: training ends,
\* whatever the epochs, the remainders and the restarts.
TrainingEnds == config.kind # "single" ~> TrainingDone
=============================================================================
