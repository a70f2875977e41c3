--------------------------- MODULE Samplers_proofs ---------------------------
(***************************************************************************)
(* The count of a sampler and the count of the training loop agree, every  *)
(* batch is the one of its position, a restart repeats what was trained,   *)
(* and an epoch trains a sample once: for every dataset, batch size, order *)
(* and number of ranks, however far the loaders run ahead.                 *)
(***************************************************************************)
EXTENDS Samplers, SequenceTheorems, FiniteSetTheorems, TLAPS

\* torch.randperm returns indices.
OrdersAreIndices == \A n, s \in Nat : \A i \in 1 .. n : Perm(n, s, i) \in Nat

-----------------------------------------------------------------------------
\* Arithmetic.

LEMMA Division ==
    ASSUME NEW a \in Nat, NEW n \in Nat \ {0}
    PROVE  /\ a \div n \in Nat /\ a % n \in Nat
           /\ (a \div n) * n <= a
           /\ a = n * (a \div n) + (a % n)
  OBVIOUS

LEMMA ExactDivision ==
    ASSUME NEW s \in Nat, NEW n \in Nat \ {0}
    PROVE  (s * n) \div n = s
  OBVIOUS

LEMMA Products ==
    ASSUME NEW i \in Nat, NEW k \in Nat, NEW n \in Nat, i <= k
    PROVE  i * n \in Nat /\ i * n <= k * n
  OBVIOUS

LEMMA RoundedUp ==
    ASSUME NEW m \in Nat, NEW n \in Nat \ {0}
    PROVE  /\ CeilDiv(m, n) \in Nat
           /\ \A i \in 1 .. CeilDiv(m, n) : (i - 1) * n < m
<1>1. m + n - 1 \in Nat
  OBVIOUS
<1>2. /\ CeilDiv(m, n) \in Nat
      /\ CeilDiv(m, n) * n <= m + n - 1
  BY <1>1, Division DEF CeilDiv
<1>3. ASSUME NEW i \in 1 .. CeilDiv(m, n)
      PROVE  (i - 1) * n < m
  <2>1. i * n <= CeilDiv(m, n) * n
    BY <1>2, Products
  <2>2. i * n <= m + n - 1
    BY <2>1, <1>2
  <2>3. (i - 1) * n = i * n - n
    OBVIOUS
  <2> QED
    BY <2>2, <2>3
<1> QED
  BY <1>2, <1>3

LEMMA Multiple ==
    ASSUME NEW j \in Nat, NEW n \in Nat \ {0}
    PROVE  (n * j) % n = 0 /\ (j * n) % n = 0
  OBVIOUS

\* What a multiple of u leaves when divided by another one is a multiple of u.
LEMMA RestOfMultiple ==
    ASSUME NEW u \in Nat \ {0}, NEW j \in Nat, NEW k \in Nat \ {0}
    PROVE  ((u * j) % (u * k)) % u = 0
<1> DEFINE x == u * j
           a == u * k
           q == x \div a
           t == x % a
<1>1. x \in Nat /\ a \in Nat \ {0}
  OBVIOUS
<1>2. q \in Nat /\ t \in Nat /\ x = a * q + t
  <2> HIDE DEF x, a
  <2> QED
    BY <1>1, Division
<1> HIDE DEF q, t
<1>3. u * j = (u * k) * q + t
  BY <1>2
<1>4. (u * k) * q = u * (k * q) /\ k * q \in Nat
  BY <1>2
<1>5. u * (j - k * q) = u * j - u * (k * q)
  BY <1>4
<1>6. t = u * (j - k * q)
  BY <1>2, <1>3, <1>4, <1>5
<1>7. j - k * q \in Nat
  <2>1. j - k * q \in Int
    BY <1>4
  <2>2. ASSUME j - k * q < 0 PROVE FALSE
    <3>1. u * (j - k * q) < 0
      BY <2>1, <2>2
    <3> QED
      BY <3>1, <1>2, <1>6
  <2> QED
    BY <2>1, <2>2
<1>8. t % u = 0
  BY <1>6, <1>7, Multiple
<1> QED
  BY <1>8 DEF t

-----------------------------------------------------------------------------
\* Slices and blocks of a sequence over S are sequences over S.

LEMMA FromType ==
    ASSUME NEW S, NEW s \in Seq(S), NEW n \in Nat
    PROVE  /\ From(s, n) \in Seq(S)
           /\ Len(From(s, n)) = IF n <= Len(s) THEN Len(s) - n ELSE 0
<1>1. \A i \in n + 1 .. Len(s) : s[i] \in S
  BY ElementOfSeq, LenProperties
<1> QED
  BY <1>1, LenProperties, SubSeqProperties DEF From

LEMMA EveryType ==
    ASSUME NEW S, NEW s \in Seq(S), NEW n \in Nat \ {0}, NEW r \in 0 .. n - 1
    PROVE  Every(s, r, n) \in Seq(S)
<1> DEFINE q == CeilDiv(Len(s) - r, n)
           e(i) == s[r + 1 + (i - 1) * n]
<1>1. Len(s) \in Nat /\ Len(s) - r + n - 1 \in Nat
  BY LenProperties
<1>2. q \in Nat /\ q * n <= Len(s) - r + n - 1
  BY <1>1, Division DEF CeilDiv
<1>3. ASSUME NEW i \in 1 .. q
      PROVE  e(i) \in S
  <2>1. i * n <= q * n /\ (i - 1) * n \in Nat /\ (i - 1) * n = i * n - n
    BY <1>2, Products
  <2>2. r + 1 + (i - 1) * n \in 1 .. Len(s)
    BY <2>1, <1>2, <1>1
  <2> QED
    BY <2>2, ElementOfSeq
<1> HIDE DEF q, e
<1>4. [i \in 1 .. q |-> e(i)] \in Seq(S)
  BY <1>2, <1>3, IsASeq
<1> QED
  BY <1>4 DEF Every, q, e

LEMMA BlocksType ==
    ASSUME NEW S, NEW s \in Seq(S), NEW n \in Nat \ {0}
    PROVE  /\ Len(s) \div n \in Nat
           /\ \A k \in 1 .. Len(s) \div n :
                 /\ Blocks(s, n)[k] \in Seq(S)
                 /\ Len(Blocks(s, n)[k]) = n
           /\ Blocks(s, n) \in Seq(Seq(S))
           /\ Remainder(s, n) \in Seq(S)
<1> DEFINE q == Len(s) \div n
           e(k) == SubSeq(s, (k - 1) * n + 1, k * n)
<1>1. Len(s) \in Nat
  BY LenProperties
<1>2. q \in Nat /\ q * n \in Nat /\ q * n <= Len(s)
  BY <1>1, Division
<1>3. ASSUME NEW k \in 1 .. q
      PROVE  e(k) \in Seq(S) /\ Len(e(k)) = n
  <2>1. /\ k * n <= q * n /\ (k - 1) * n \in Nat /\ k * n \in Nat
        /\ (k - 1) * n = k * n - n
    BY <1>2, Products
  <2>2. \A i \in (k - 1) * n + 1 .. k * n : s[i] \in S
    BY <2>1, <1>2, <1>1, ElementOfSeq
  <2> HIDE DEF q
  <2> QED
    BY <2>1, <2>2, SubSeqProperties
<1> HIDE DEF q, e
<1>4. [k \in 1 .. q |-> e(k)] \in Seq(Seq(S))
  BY <1>2, <1>3, IsASeq
<1>5. Blocks(s, n) = [k \in 1 .. q |-> e(k)]
  BY DEF Blocks, q, e
<1>6. Remainder(s, n) \in Seq(S)
  BY <1>2, FromType DEF Remainder, q
<1>7. Len(s) \div n = q
  BY DEF q
<1> QED
  BY <1>2, <1>3, <1>4, <1>5, <1>6, <1>7

-----------------------------------------------------------------------------
\* What a pass yields.

Batch == Seq(Index)

\* A configuration and a data-parallel size it allows.
LEMMA Configuration ==
    ASSUME NEW c \in Configs, NEW d \in Sizes(c)
    PROVE  /\ c.kind \in {"single", "cyclic", "batch"}
           /\ {c.total, c.mbs, c.gbs, c.iters} \subseteq Nat \ {0} /\ c.epochs \in Nat
           /\ c.drop \in BOOLEAN /\ c.sharding \in BOOLEAN
           /\ d \in Nat \ {0} /\ c.mbs * d \in Nat \ {0} /\ c.gbs % (c.mbs * d) = 0
           /\ c.drop => c.total >= c.gbs
           /\ c.kind = "cyclic" => c.total >= c.gbs
<1>1. d \in Nat \ {0} /\ c.gbs % (c.mbs * d) = 0
  BY SamplerConstants DEF SamplerConstants, Sizes
<1>2. {c.total, c.mbs, c.gbs, c.iters} \subseteq Nat \ {0}
  BY SamplerConstants DEF SamplerConstants
<1>3. c.mbs * d \in Nat \ {0}
  BY <1>1, <1>2
<1> QED
  BY <1>1, <1>2, <1>3, SamplerConstants DEF SamplerConstants

\* One unit for each draw of a step makes a global batch.
LEMMA UnitTimesDraws ==
    ASSUME NEW c \in Configs, NEW d \in Sizes(c)
    PROVE  /\ Unit(c, d) \in Nat \ {0} /\ Draws(c, d) \in Nat \ {0}
           /\ Unit(c, d) * Draws(c, d) = c.gbs
<1>1. CASE c.kind = "batch"
  BY <1>1, Configuration DEF Unit, Draws
<1>2. CASE c.kind # "batch"
  <2> DEFINE u == c.mbs * d
  <2>1. u \in Nat \ {0} /\ c.gbs \in Nat \ {0} /\ c.gbs % u = 0
    BY Configuration
  <2>2. Unit(c, d) = u /\ Draws(c, d) = c.gbs \div u
    BY <1>2 DEF Unit, Draws
  <2> HIDE DEF u
  <2>3. c.gbs \div u \in Nat /\ c.gbs = u * (c.gbs \div u)
    BY <2>1, Division
  <2>4. ASSUME c.gbs \div u = 0 PROVE FALSE
    <3>1. c.gbs = u * 0
      BY <2>3, <2>4
    <3> QED
      BY <3>1, <2>1
  <2> QED
    BY <2>1, <2>2, <2>3, <2>4
<1> QED
  BY <1>1, <1>2

\* An epoch of the samplers that are iterated again and again holds a sample.
LEMMA EpochNotEmpty ==
    ASSUME NEW c \in Configs, NEW d \in Sizes(c), c.kind # "single"
    PROVE  Active(c, d) \in Nat \ {0}
<1> DEFINE u == c.mbs * d
<1>1. u \in Nat \ {0} /\ c.gbs \in Nat \ {0} /\ c.total \in Nat \ {0} /\ c.drop \in BOOLEAN
  BY Configuration
<1>2. CASE c.kind = "cyclic"
  <2>1. c.total >= u
    <3>1. c.total >= c.gbs /\ c.gbs % u = 0
      BY <1>2, Configuration
    <3>2. c.gbs >= u
      BY <3>1, <1>1
    <3> QED
      BY <3>1, <3>2, <1>1
  <2>2. c.total - (c.total % u) \in Nat \ {0}
    BY <2>1, <1>1
  <2> QED
    BY <2>2, <1>2 DEF Active
<1>3. CASE c.kind = "batch" /\ c.drop
  <2>1. c.total >= c.gbs
    BY <1>3, Configuration
  <2>2. c.total \div c.gbs \in Nat \ {0}
    BY <2>1, <1>1
  <2>3. (c.total \div c.gbs) * c.gbs \in Nat \ {0}
    BY <2>2, <1>1
  <2> QED
    BY <2>3, <1>3 DEF Active
<1>4. CASE c.kind = "batch" /\ ~c.drop
  <2>1. c.total + c.gbs - 1 \in Nat /\ c.total + c.gbs - 1 >= c.gbs
    BY <1>1
  <2>2. (c.total + c.gbs - 1) \div c.gbs \in Nat \ {0}
    BY <2>1, <1>1
  <2>3. CeilDiv(c.total, c.gbs) * c.gbs \in Nat \ {0}
    BY <2>2, <1>1 DEF CeilDiv
  <2> QED
    BY <2>3, <1>4 DEF Active
<1> QED
  BY <1>2, <1>3, <1>4, Configuration

LEMMA PermutedType ==
    ASSUME OrdersAreIndices, NEW n \in Nat, NEW seed \in Nat
    PROVE  Permuted(n, seed) \in Seq(Nat) /\ Permuted(n, seed) \in Batch
<1> DEFINE e(i) == Perm(n, seed, i)
<1>1. \A i \in 1 .. n : e(i) \in Nat
  BY DEF OrdersAreIndices
<1> HIDE DEF e
<1>2. [i \in 1 .. n |-> e(i)] \in Seq(Nat)
  BY <1>1, IsASeq
<1>3. [i \in 1 .. n |-> e(i)] \in Seq(Index)
  BY <1>2, SeqMonotonic DEF Index
<1> QED
  BY <1>2, <1>3 DEF Permuted, Batch, e

LEMMA SequentialPassType ==
    ASSUME NEW c \in Configs, NEW d \in Sizes(c), NEW r \in Ranks(d),
           NEW before \in Nat, before <= c.total
    PROVE  SequentialPass(c, d, r, before) \in Seq(Batch)
<1> DEFINE u == c.mbs * d
           n == c.total - before
           f(i) == before + i - 1
           order == [i \in 1 .. n |-> f(i)]
           mine(b) == SubSeq(b, r * c.mbs + 1, SmallerOf((r + 1) * c.mbs, Len(b)))
           q == Len(order) \div u
           e(k) == mine(Blocks(order, u)[k])
           full == [k \in 1 .. q |-> e(k)]
           rest == Remainder(order, u)
<1>1. u \in Nat \ {0} /\ c.total \in Nat /\ c.mbs \in Nat /\ r \in Nat /\ c.drop \in BOOLEAN
  BY Configuration DEF Ranks
<1>2. n \in Nat /\ \A i \in 1 .. n : f(i) \in Index
  BY <1>1 DEF Index
<1>3. order \in Batch
  <2> HIDE DEF n, f
  <2> QED
    BY <1>2, IsASeq DEF Batch
<1> HIDE DEF order, u
<1>4. ASSUME NEW b \in Batch
      PROVE  mine(b) \in Batch
  <2>1. r * c.mbs \in Nat /\ (r + 1) * c.mbs \in Nat /\ Len(b) \in Nat
    BY <1>1, LenProperties DEF Batch
  <2>2. \A i \in r * c.mbs + 1 .. SmallerOf((r + 1) * c.mbs, Len(b)) : b[i] \in Index
    BY <2>1, ElementOfSeq DEF SmallerOf, Batch
  <2>3. SmallerOf((r + 1) * c.mbs, Len(b)) \in Int
    BY <2>1 DEF SmallerOf
  <2> QED
    BY <2>1, <2>2, <2>3, SubSeqProperties DEF Batch
<1>5. /\ q \in Nat /\ rest \in Batch
      /\ \A k \in 1 .. q : Blocks(order, u)[k] \in Batch
  BY <1>1, <1>3, BlocksType DEF Batch
<1>6. \A k \in 1 .. q : e(k) \in Batch
  BY <1>4, <1>5
<1>7. full \in Seq(Batch)
  <2> HIDE DEF e, q
  <2> QED
    BY <1>5, <1>6, IsASeq
<1>8. Append(full, mine(rest)) \in Seq(Batch)
  BY <1>4, <1>5, <1>7, AppendProperties
<1>9. SequentialPass(c, d, r, before)
        = IF rest # <<>> /\ ~c.drop THEN Append(full, mine(rest)) ELSE full
  BY DEF SequentialPass, order, u
<1> HIDE DEF full, mine, rest
<1> QED
  BY <1>7, <1>8, <1>9

LEMMA GlobalBatchPassType ==
    ASSUME OrdersAreIndices, NEW c \in Configs, NEW d \in Sizes(c), NEW r \in Ranks(d),
           NEW before \in Nat, c.kind = "batch"
    PROVE  GlobalBatchPass(c, d, r, before) \in Seq(Batch)
<1> DEFINE order == From(Permuted(c.total, before \div Active(c, d)), before % Active(c, d))
           q == Len(order) \div c.gbs
           e(k) == Every(Blocks(order, c.gbs)[k], r, d)
           full == [k \in 1 .. q |-> e(k)]
           rest == Remainder(order, c.gbs)
           mine == Every(rest, r, d)
           p == c.gbs \div d - Len(mine)
           pad(i) == Pad
           pads == [i \in 1 .. p |-> pad(i)]
<1>1. /\ c.gbs \in Nat \ {0} /\ c.total \in Nat /\ d \in Nat \ {0} /\ r \in 0 .. d - 1
      /\ c.drop \in BOOLEAN
  BY Configuration DEF Ranks
<1>2. before \div Active(c, d) \in Nat /\ before % Active(c, d) \in Nat
  BY EpochNotEmpty, Division
<1>3. order \in Batch
  BY <1>1, <1>2, PermutedType, FromType DEF Batch
<1> HIDE DEF order
<1>4. /\ q \in Nat /\ rest \in Batch
      /\ \A k \in 1 .. q : Blocks(order, c.gbs)[k] \in Batch
  BY <1>1, <1>3, BlocksType DEF Batch
<1>5. \A k \in 1 .. q : e(k) \in Batch
  BY <1>1, <1>4, EveryType DEF Batch
<1>6. full \in Seq(Batch)
  <2> HIDE DEF e, q
  <2> QED
    BY <1>4, <1>5, IsASeq
<1>7. mine \in Batch
  BY <1>1, <1>4, EveryType DEF Batch
<1>8. pads \in Batch
  <2>1. p \in Int /\ \A i \in 1 .. p : pad(i) \in Index
    BY <1>1, <1>7, Division, LenProperties DEF Batch, Index
  <2>2. CASE p \in Nat
    <3> HIDE DEF p, pad
    <3> QED
      BY <2>1, <2>2, IsASeq DEF Batch
  <2>3. CASE p \notin Nat
    <3>1. 1 .. p = 1 .. 0
      BY <2>1, <2>3
    <3>2. pads = [i \in 1 .. 0 |-> pad(i)]
      BY <3>1
    <3> HIDE DEF pad, p, pads
    <3>3. \A i \in 1 .. 0 : pad(i) \in Index
      OBVIOUS
    <3> QED
      BY <3>2, <3>3, IsASeq DEF Batch
  <2> QED
    BY <2>2, <2>3
<1>9. mine \o pads \in Batch
  <2> HIDE DEF mine, pads
  <2> QED
    BY <1>7, <1>8, ConcatProperties DEF Batch
<1>10. Append(full, mine \o pads) \in Seq(Batch)
  <2> HIDE DEF mine, pads, full
  <2> QED
    BY <1>6, <1>9, AppendProperties
<1>11. GlobalBatchPass(c, d, r, before)
         = IF rest # <<>> /\ ~c.drop THEN Append(full, mine \o pads) ELSE full
  BY DEF GlobalBatchPass, order
<1> HIDE DEF full, mine, rest, pads
<1> QED
  BY <1>6, <1>10, <1>11

LEMMA RandomPassType ==
    ASSUME OrdersAreIndices, NEW c \in Configs, NEW d \in Sizes(c), NEW r \in Ranks(d),
           NEW before \in Nat, c.kind = "cyclic"
    PROVE  RandomPass(c, d, r, before) \in Seq(Batch)
<1> DEFINE u == c.mbs * d
           epoch == before \div Active(c, d)
           offset == before % Active(c, d)
           bucket == (c.total \div u) * c.mbs
           part == From(Permuted(bucket, epoch), offset \div d)
           whole == From(Permuted((c.total \div c.mbs) * c.mbs, epoch), offset)
           e(i) == r * bucket + part[i]
           mine == IF c.sharding THEN [i \in 1 .. Len(part) |-> e(i)] ELSE Every(whole, r, d)
<1>1. /\ u \in Nat \ {0} /\ c.total \in Nat /\ c.mbs \in Nat \ {0} /\ d \in Nat \ {0}
      /\ r \in 0 .. d - 1 /\ r \in Nat /\ c.sharding \in BOOLEAN
  BY Configuration DEF Ranks
<1>2. epoch \in Nat /\ offset \in Nat /\ offset \div d \in Nat
  BY <1>1, EpochNotEmpty, Division
<1>3. bucket \in Nat /\ (c.total \div c.mbs) * c.mbs \in Nat
  BY <1>1, Division
<1> HIDE DEF epoch, offset, bucket, u
<1>4. part \in Seq(Nat)
  BY <1>2, <1>3, PermutedType, FromType
<1>5. whole \in Batch
  BY <1>2, <1>3, PermutedType, FromType DEF Batch
<1>6. [i \in 1 .. Len(part) |-> e(i)] \in Batch
  <2>1. r * bucket \in Nat
    BY <1>1, <1>3
  <2>2. Len(part) \in Nat /\ \A i \in 1 .. Len(part) : e(i) \in Index
    <3> HIDE DEF part
    <3> QED
      BY <2>1, <1>4, ElementOfSeq, LenProperties DEF Index
  <2> HIDE DEF part, e
  <2> QED
    BY <2>2, IsASeq DEF Batch
<1>7. Every(whole, r, d) \in Batch
  <2> HIDE DEF whole
  <2> QED
    BY <1>1, <1>5, EveryType DEF Batch
<1>8. mine \in Batch
  BY <1>6, <1>7
<1>9. RandomPass(c, d, r, before) = Blocks(mine, c.mbs)
  BY DEF RandomPass, epoch, offset, bucket, u
<1> HIDE DEF mine, e, part, whole
<1>10. mine \in Seq(Index) /\ c.mbs \in Nat \ {0}
  BY <1>1, <1>8 DEF Batch
<1>11. Blocks(mine, c.mbs) \in Seq(Seq(Index))
  BY <1>10, BlocksType
<1> QED
  BY <1>9, <1>11 DEF Batch

LEMMA PassType ==
    ASSUME OrdersAreIndices, NEW c \in Configs, NEW d \in Sizes(c), NEW r \in Ranks(d),
           NEW before \in Nat, c.kind = "single" => before <= c.total
    PROVE  Pass(c, d, r, before) \in Seq(Batch)
<1>1. CASE c.kind = "single"
  BY <1>1, SequentialPassType DEF Pass
<1>2. CASE c.kind = "batch"
  BY <1>2, GlobalBatchPassType DEF Pass
<1>3. CASE c.kind = "cyclic"
  BY <1>3, RandomPassType DEF Pass
<1> QED
  BY <1>1, <1>2, <1>3, Configuration

-----------------------------------------------------------------------------
\* The sequential sampler keeps the count it was built with, below the size of the
\* dataset; the others move theirs.
StartsInside ==
    config.kind = "single" => \A r \in Ranks(dp) : consumed[r] <= config.total

SamplerInv == TypeOK /\ StartsInside /\ SamplerTracksTrainer

\* The steps that leave a position: a whole number of global batches.
Positions == {s * config.gbs : s \in 0 .. TrainIters(config)}

LEMMA TrainItersType ==
    ASSUME NEW c \in Configs
    PROVE  TrainIters(c) \in Nat
<1>1. c.gbs \in Nat \ {0} /\ c.total \in Nat /\ c.iters \in Nat /\ c.epochs \in Nat
  BY SamplerConstants DEF SamplerConstants
<1>2. CeilDiv(c.total, c.gbs) \in Nat
  BY <1>1, RoundedUp
<1>3. c.epochs * CeilDiv(c.total, c.gbs) \in Nat
  BY <1>1, <1>2
<1> QED
  BY <1>1, <1>3 DEF TrainIters

LEMMA SamplerInvInit == Init => SamplerInv
<1> SUFFICES ASSUME Init PROVE SamplerInv
  OBVIOUS
<1> USE DEF Init
<1>1. config \in Configs /\ dp \in Sizes(config)
  OBVIOUS
<1>2. TrainIters(config) \in Nat /\ config.gbs \in Nat \ {0} /\ config.total \in Nat
  BY <1>1, TrainItersType, Configuration
<1>3. 0 = 0 * config.gbs /\ 0 \in 0 .. TrainIters(config)
  BY <1>2
<1>4. {position, saved} \subseteq Positions
  BY <1>3 DEF Positions
<1>5. \A S : <<>> \in Seq(S) /\ Len(<<>>) = 0
  BY EmptySeq
<1>6. /\ consumed \in [Ranks(dp) -> Nat] /\ begun \in [Ranks(dp) -> BOOLEAN]
      /\ pending \in [Ranks(dp) -> Seq(Seq(Index))] /\ queue \in [Ranks(dp) -> Seq(Seq(Index))]
  BY <1>5
<1>7. TypeOK
  BY <1>1, <1>4, <1>5, <1>6, SamplerConstants DEF TypeOK, Positions, SamplerConstants
<1>8. SamplerTracksTrainer
  <2>1. Unit(config, dp) * 0 = 0
    BY <1>1, UnitTimesDraws
  <2> QED
    BY <2>1, <1>5 DEF SamplerTracksTrainer
<1> QED
  BY <1>7, <1>8, <1>2 DEF SamplerInv, StartsInside

LEMMA SamplerInvNext == OrdersAreIndices /\ SamplerInv /\ [Next]_vars => SamplerInv'
<1> SUFFICES ASSUME OrdersAreIndices, TypeOK, StartsInside, SamplerTracksTrainer, [Next]_vars
             PROVE  SamplerInv'
  BY DEF SamplerInv
<1>1. config \in Configs /\ dp \in Sizes(config)
  BY DEF TypeOK
<1>2. /\ consumed \in [Ranks(dp) -> Nat] /\ begun \in [Ranks(dp) -> BOOLEAN]
      /\ pending \in [Ranks(dp) -> Seq(Batch)] /\ queue \in [Ranks(dp) -> Seq(Batch)]
      /\ {position, saved} \subseteq Positions /\ restarts \in 0 .. MaxRestarts
      /\ \A r \in Ranks(dp) : Len(queue[r]) <= Prefetch
  BY DEF TypeOK, Batch, Positions
<1>3. /\ TrainIters(config) \in Nat /\ config.gbs \in Nat \ {0} /\ config.total \in Nat
      /\ Unit(config, dp) \in Nat \ {0} /\ Draws(config, dp) \in Nat \ {0}
      /\ Unit(config, dp) * Draws(config, dp) = config.gbs
  BY <1>1, TrainItersType, Configuration, UnitTimesDraws
<1>4. Positions \subseteq Nat
  BY <1>3, Products DEF Positions
<1>5. ASSUME NEW r \in Ranks(dp), BeginPass(r)
      PROVE  SamplerInv'
  <2>1. Pass(config, dp, r, consumed[r]) \in Seq(Batch)
    BY <1>1, <1>2, PassType DEF StartsInside
  <2>2. /\ pending' \in [Ranks(dp) -> Seq(Batch)] /\ begun' \in [Ranks(dp) -> BOOLEAN]
        /\ UNCHANGED <<config, dp, consumed, queue, position, saved, trained, restarts>>
    BY <2>1, <1>2, <1>5 DEF BeginPass
  <2> QED
    BY <2>2 DEF SamplerInv, TypeOK, StartsInside, SamplerTracksTrainer, Batch
<1>6. ASSUME NEW r \in Ranks(dp), Draw(r)
      PROVE  SamplerInv'
  <2>1. /\ Head(pending[r]) \in Batch /\ Tail(pending[r]) \in Seq(Batch)
        /\ Len(queue[r]) \in Nat /\ Len(queue[r]) < Prefetch
    BY <1>2, <1>6, HeadTailProperties, LenProperties DEF Draw
  <2>2. /\ Append(queue[r], Head(pending[r])) \in Seq(Batch)
        /\ Len(Append(queue[r], Head(pending[r]))) = Len(queue[r]) + 1
    BY <2>1, <1>2, AppendProperties
  <2>3. /\ pending' \in [Ranks(dp) -> Seq(Batch)] /\ queue' \in [Ranks(dp) -> Seq(Batch)]
        /\ consumed' \in [Ranks(dp) -> Nat]
        /\ UNCHANGED <<config, dp, begun, position, saved, restarts>>
    BY <2>1, <2>2, <1>2, <1>3, <1>6 DEF Draw
  <2>4. \A q \in Ranks(dp) : Len(queue'[q]) <= Prefetch
    BY <2>1, <2>2, <1>2, <1>6, SamplerConstants DEF Draw, SamplerConstants
  <2>5. TypeOK'
    BY <2>3, <2>4 DEF TypeOK, Batch
  <2>6. StartsInside'
    BY <1>6 DEF StartsInside, Draw
  <2>7. SamplerTracksTrainer'
    <3> SUFFICES ASSUME config.kind # "single", NEW q \in Ranks(dp)
                 PROVE  consumed'[q] = position + Unit(config, dp) * Len(queue'[q])
      BY <2>3 DEF SamplerTracksTrainer
    <3>1. consumed[q] = position + Unit(config, dp) * Len(queue[q])
      BY DEF SamplerTracksTrainer
    <3>2. CASE q = r
      <4>1. /\ consumed'[q] = consumed[q] + Unit(config, dp)
            /\ Len(queue'[q]) = Len(queue[q]) + 1
        BY <3>2, <2>2, <1>2, <1>6 DEF Draw
      <4>2. Unit(config, dp) * (Len(queue[q]) + 1)
              = Unit(config, dp) * Len(queue[q]) + Unit(config, dp)
        BY <3>2, <2>1, <1>3
      <4>3. Unit(config, dp) * Len(queue[q]) \in Nat /\ Unit(config, dp) \in Nat
        BY <3>2, <2>1, <1>3
      <4>4. position \in Nat
        BY <1>2, <1>4
      <4>5. consumed'[q]
              = (position + Unit(config, dp) * Len(queue[q])) + Unit(config, dp)
        BY <4>1, <3>1
      <4>6. consumed'[q] = position + Unit(config, dp) * (Len(queue[q]) + 1)
        BY <4>2, <4>3, <4>4, <4>5
      <4> QED
        BY <4>1, <4>6
    <3>3. CASE q # r
      BY <3>1, <3>3, <1>2, <1>6 DEF Draw
    <3> QED
      BY <3>2, <3>3
  <2> QED
    BY <2>5, <2>6, <2>7 DEF SamplerInv
<1>7. ASSUME TrainStep
      PROVE  SamplerInv'
  <2> DEFINE n == Draws(config, dp)
             left(r) == From(queue[r], n)
  <2>1. PICK s \in 0 .. TrainIters(config) : position = s * config.gbs
    BY <1>2 DEF Positions
  <2>2. CurrentStep = s
    <3>1. s \in Nat /\ config.gbs \in Nat \ {0}
      BY <1>3
    <3>2. (s * config.gbs) \div config.gbs = s
      BY <3>1, ExactDivision
    <3> QED
      BY <2>1, <3>2 DEF CurrentStep
  <2>3. s + 1 \in 0 .. TrainIters(config) /\ position + config.gbs = (s + 1) * config.gbs
    BY <2>1, <2>2, <1>3, <1>7 DEF TrainStep
  <2>4. position' \in Positions
    BY <2>3, <1>7 DEF TrainStep, Positions
  <2>5. /\ n \in Nat \ {0}
        /\ \A r \in Ranks(dp) : Len(queue[r]) \in Nat /\ Len(queue[r]) >= n
    BY <1>2, <1>3, <1>7, LenProperties DEF TrainStep
  <2> HIDE DEF n
  <2>6. \A r \in Ranks(dp) : /\ left(r) \in Seq(Batch)
                             /\ Len(left(r)) = Len(queue[r]) - n
    BY <2>5, <1>2, FromType
  <2>7. queue' = [r \in Ranks(dp) |-> left(r)]
    BY <1>7 DEF TrainStep, n
  <2> HIDE DEF left
  <2>8. /\ queue' \in [Ranks(dp) -> Seq(Batch)]
        /\ \A r \in Ranks(dp) : Len(queue'[r]) = Len(queue[r]) - n
        /\ \A r \in Ranks(dp) : Len(queue'[r]) <= Prefetch
    BY <2>5, <2>6, <2>7, <1>2, SamplerConstants DEF SamplerConstants
  <2>9. UNCHANGED <<config, dp, consumed, begun, pending, saved, restarts>>
    BY <1>7 DEF TrainStep
  <2>10. TypeOK'
    BY <2>4, <2>8, <2>9, <1>2 DEF TypeOK, Batch, Positions
  <2>11. SamplerTracksTrainer'
    <3> SUFFICES ASSUME config.kind # "single", NEW q \in Ranks(dp)
                 PROVE  consumed[q] = position' + Unit(config, dp) * Len(queue'[q])
      BY <2>9 DEF SamplerTracksTrainer
    <3> DEFINE u == Unit(config, dp)
               k == Len(queue[q])
    <3>1. consumed[q] = position + u * k /\ position \in Nat
      BY <1>2, <1>4 DEF SamplerTracksTrainer
    <3>2. position' = position + config.gbs /\ config.gbs = u * n /\ Len(queue'[q]) = k - n
      BY <1>3, <1>7, <2>8 DEF TrainStep, n
    <3>3. u \in Nat /\ k \in Nat /\ n \in Nat
      BY <1>3, <2>5
    <3> HIDE DEF u, k
    <3>4. u * (k - n) = u * k - u * n /\ u * k \in Nat /\ u * n \in Nat
      BY <3>3
    <3> QED
      BY <3>1, <3>2, <3>4 DEF u
  <2> QED
    BY <2>9, <2>10, <2>11 DEF SamplerInv, StartsInside
<1>8. ASSUME SaveCheckpoint
      PROVE  SamplerInv'
  <2>1. saved' \in Positions /\ UNCHANGED <<config, dp, sampler, position, restarts>>
    BY <1>2, <1>8 DEF SaveCheckpoint
  <2> QED
    BY <2>1, <1>2 DEF SamplerInv, TypeOK, StartsInside, SamplerTracksTrainer, sampler, Batch,
                      Positions
<1>9. ASSUME NEW d \in Sizes(config), Restart(d)
      PROVE  SamplerInv'
  <2>1. /\ UNCHANGED <<config, saved>> /\ dp' = d /\ position' = saved
        /\ config.kind = "single" => saved < config.total
        /\ restarts' \in 0 .. MaxRestarts
    BY <1>2, <1>9, SamplerConstants DEF Restart, SamplerConstants
  <2>2. saved \in Nat /\ \A S : <<>> \in Seq(S) /\ Len(<<>>) = 0
    BY <1>2, <1>4, EmptySeq
  <2>3. /\ consumed' = [r \in Ranks(d) |-> saved]
        /\ queue' = [r \in Ranks(d) |-> <<>>] /\ pending' = [r \in Ranks(d) |-> <<>>]
        /\ begun' \in [Ranks(d) -> BOOLEAN]
    BY <1>9 DEF Restart, NewLoaders
  <2>4. TypeOK'
    BY <2>1, <2>2, <2>3, <1>1, <1>2, SamplerConstants DEF TypeOK, Positions, SamplerConstants
  <2>5. StartsInside'
    BY <2>1, <2>2, <2>3, <1>3 DEF StartsInside
  <2>6. SamplerTracksTrainer'
    <3>1. Unit(config, d) * 0 = 0
      BY <1>1, UnitTimesDraws
    <3> QED
      BY <2>1, <2>2, <2>3, <3>1 DEF SamplerTracksTrainer
  <2> QED
    BY <2>4, <2>5, <2>6 DEF SamplerInv
<1>10. CASE UNCHANGED vars
  BY <1>10 DEF vars, SamplerInv, TypeOK, StartsInside, SamplerTracksTrainer
<1> QED
  BY <1>5, <1>6, <1>7, <1>8, <1>9, <1>10 DEF Next

\* The offset into an epoch is a whole number of batches of all ranks, as the random
\* sampler asserts at the start of a pass: with any remainder of the dataset, and after a
\* restart on another number of ranks, whose epochs have another length (samplers.py:479).
PassStartsOnBatch ==
    config.kind = "cyclic" =>
        \A r \in Ranks(dp) : (consumed[r] % Active(config, dp)) % Unit(config, dp) = 0

\* The random sampler's assertion: both counts are multiples of the unit of a draw.
LEMMA PassesStartOnBatches == SamplerInv => PassStartsOnBatch
<1> SUFFICES ASSUME SamplerInv, config.kind = "cyclic", NEW r \in Ranks(dp)
             PROVE  (consumed[r] % Active(config, dp)) % Unit(config, dp) = 0
  BY DEF PassStartsOnBatch
<1> DEFINE u == Unit(config, dp)
           n == Draws(config, dp)
           k == config.total \div u
           m == Len(queue[r])
<1>1. config \in Configs /\ dp \in Sizes(config) /\ m \in Nat
  BY LenProperties DEF SamplerInv, TypeOK
<1>2. u \in Nat \ {0} /\ n \in Nat /\ u * n = config.gbs /\ config.total \in Nat
  BY <1>1, UnitTimesDraws, Configuration
<1>3. PICK s \in Nat : position = s * config.gbs
  BY <1>1, TrainItersType DEF SamplerInv, TypeOK
<1>4. consumed[r] = position + u * m
  BY DEF SamplerInv, SamplerTracksTrainer
<1>5. Active(config, dp) = config.total - (config.total % u) /\ Active(config, dp) \in Nat \ {0}
  BY <1>1, EpochNotEmpty DEF Active, Unit
<1> HIDE DEF u, n, m
<1>6. s * (u * n) = u * (s * n) /\ s * n \in Nat
  BY <1>2, <1>3
<1>7. u * (s * n) + u * m = u * (s * n + m)
  BY <1>1, <1>2, <1>6
<1>8. consumed[r] = u * (s * n + m)
  BY <1>2, <1>3, <1>4, <1>6, <1>7
<1>9. config.total = u * k + (config.total % u) /\ k \in Nat /\ config.total % u \in Nat
  BY <1>2, Division
<1> HIDE DEF k
<1>10. Active(config, dp) = u * k
  BY <1>2, <1>5, <1>9
<1>11. ASSUME k = 0 PROVE FALSE
  <2>1. u * k = 0
    BY <1>2, <1>11
  <2> QED
    BY <2>1, <1>5, <1>10
<1>12. s * n + m \in Nat /\ k \in Nat \ {0}
  BY <1>1, <1>6, <1>9, <1>11
<1>13. ((u * (s * n + m)) % (u * k)) % u = 0
  BY <1>2, <1>12, RestOfMultiple
<1> QED
  BY <1>8, <1>10, <1>13 DEF u

\* Whatever order a data set is shuffled in, passes are made of indices and padding, no loader
\* holds more than it may, and the loop stops and is saved only between global batches.
THEOREM SamplersTypeCorrect ==
    ASSUME OrdersAreIndices
    PROVE  Spec => []TypeOK
<1>1. SamplerInv => TypeOK
  BY DEF SamplerInv
<1>2. SamplerInv /\ [Next]_vars => SamplerInv'
  BY SamplerInvNext
<1> QED
  BY <1>1, <1>2, SamplerInvInit, PTL DEF Spec

\* For every configuration, order, number of ranks, depth of the loaders and sequence of
\* restarts: the state has its types, and the sampler of every rank counts what the loop
\* counts plus what its loader holds ready, so that a pass of the random sampler starts at
\* a batch.
THEOREM SamplersFollowTraining ==
    ASSUME OrdersAreIndices
    PROVE  Spec => [](TypeOK /\ SamplerTracksTrainer /\ PassStartsOnBatch)
<1>1. SamplerInv => TypeOK /\ SamplerTracksTrainer /\ PassStartsOnBatch
  BY PassesStartOnBatches DEF SamplerInv
<1>2. SamplerInv /\ [Next]_vars => SamplerInv'
  BY SamplerInvNext
<1> QED
  BY <1>1, <1>2, SamplerInvInit, PTL DEF Spec
-----------------------------------------------------------------------------
(* The batches of a run, by the position of the batch alone. *)

\* torch.randperm lists every index once.
Shuffles(n, s) ==
    /\ \A i \in 1 .. n : Perm(n, s, i) \in 0 .. n - 1
    /\ \A i, j \in 1 .. n : Perm(n, s, i) = Perm(n, s, j) => i = j
    /\ \A v \in 0 .. n - 1 : \E i \in 1 .. n : Perm(n, s, i) = v

OrdersArePermutations == \A n, s \in Nat : Shuffles(n, s)

LEMMA ShufflesAreIndices == OrdersArePermutations => OrdersAreIndices
<1> SUFFICES ASSUME OrdersArePermutations, NEW n \in Nat, NEW s \in Nat, NEW i \in 1 .. n
             PROVE  Perm(n, s, i) \in Nat
  BY DEF OrdersAreIndices
<1>1. Shuffles(n, s)
  BY DEF OrdersArePermutations
<1> QED
  BY <1>1 DEF Shuffles

\* Where random sampling is not sharded, no rank finds a whole microbatch of its own in
\* what is left after the last global one: r::d of the remainder is short of mbs.
RanksAlike(c) ==
    c.kind = "cyclic" /\ ~c.sharding =>
        \A d \in Sizes(c) :
            ((c.total % (c.mbs * d)) \div c.mbs) * c.mbs <= (c.mbs - 1) * d

\* Microbatches of all ranks in an epoch, or in the data set if it is read once.
Units(c, d) ==
    IF c.kind = "single" /\ ~c.drop THEN CeilDiv(c.total, c.mbs * d)
    ELSE IF c.kind = "batch" /\ ~c.drop THEN CeilDiv(c.total, c.gbs)
    ELSE c.total \div Unit(c, d)

\* How many of them a pass yields that starts after the first j.
Yields(c, d, j) ==
    IF c.kind # "single" THEN Units(c, d) - (j % Units(c, d))
    ELSE IF j < Units(c, d) THEN Units(c, d) - j ELSE 0

Shuffled(c) == IF c.kind = "batch" THEN c.total ELSE (c.total \div c.mbs) * c.mbs
Bucket(c, d) == (c.total \div (c.mbs * d)) * c.mbs

\* The size of the batch of rank r that starts at position p, and its i-th sample.
BatchSize(c, d, r, p) ==
    LET left == c.total - (p + r * c.mbs)
    IN  IF c.kind = "batch" THEN c.gbs \div d
        ELSE IF c.kind = "cyclic" \/ left >= c.mbs THEN c.mbs
        ELSE IF left > 0 THEN left ELSE 0

SampleOf(c, d, r, p, i) ==
    LET epoch  == p \div Active(c, d)
        offset == p % Active(c, d)
        place  == offset + (r + (i - 1) * d)
    IN  IF c.kind = "single" THEN p + (r * c.mbs + (i - 1))
        ELSE IF c.kind = "cyclic" /\ c.sharding
             THEN r * Bucket(c, d) + Perm(Bucket(c, d), epoch, (offset \div d) + i)
        ELSE IF place < Shuffled(c) THEN Perm(Shuffled(c), epoch, place + 1) ELSE Pad

BatchOf(c, d, r, p) == [i \in 1 .. BatchSize(c, d, r, p) |-> SampleOf(c, d, r, p, i)]

\* The batches of a step on d ranks.
StepOf(c, d, s) ==
    [r \in Ranks(d) |->
        [k \in 1 .. Draws(c, d) |-> BatchOf(c, d, r, s * c.gbs + Unit(c, d) * (k - 1))]]

Ahead(r) == position + Unit(config, dp) * Len(queue[r])

\* What a loader holds and what its sampler has yet to yield are the batches at the
\* positions from the loop's on.
LoadersInv ==
    \A r \in Ranks(dp) :
        /\ ~begun[r] => queue[r] = <<>> /\ pending[r] = <<>> /\ consumed[r] = position
        /\ pending[r] # <<>> => pending[r] = Pass(config, dp, r, Ahead(r))
        /\ \A k \in 1 .. Len(queue[r]) :
              queue[r][k] = BatchOf(config, dp, r, position + Unit(config, dp) * (k - 1))

\* A step is trained on its own batches, and no step is left out.
TrainedInv ==
    /\ DOMAIN trained = 0 .. TrainIters(config) - 1
    /\ \A s \in DOMAIN trained : IsTrained(s) =>
          \E d \in Sizes(config) : trained[s] = StepOf(config, d, s)
    /\ \A s \in DOMAIN trained : s * config.gbs < position \/ s * config.gbs < saved => IsTrained(s)

BatchesInv == RanksAlike(config) => LoadersInv /\ TrainedInv

-----------------------------------------------------------------------------
\* Arithmetic of positions: a position has one decomposition into units and a rest.

LEMMA UniqueDigits ==
    ASSUME NEW a \in Int, NEW b \in Int, NEW n \in Nat \ {0},
           NEW x \in 0 .. n - 1, NEW y \in 0 .. n - 1, a * n + x = b * n + y
    PROVE  a = b /\ x = y
<1>1. ASSUME NEW e \in Int, NEW f \in Int, NEW v \in 0 .. n - 1, NEW w \in 0 .. n - 1,
             e * n + v = f * n + w, e < f
      PROVE  FALSE
  <2>1. f - e \in Nat \ {0}
    BY <1>1
  <2>2. (f - e) * n >= n
    <3> DEFINE g == f - e
    <3>1. g \in Nat \ {0}
      BY <2>1
    <3> HIDE DEF g
    <3>2. g * n = n + (g - 1) * n /\ (g - 1) * n >= 0
      BY <3>1
    <3> QED
      BY <3>1, <3>2 DEF g
  <2>3. (f - e) * n = f * n - e * n
    BY <1>1
  <2>4. f * n \in Int /\ e * n \in Int
    BY <1>1
  <2> QED
    BY <1>1, <2>2, <2>3, <2>4
<1>2. a = b
  <2>1. CASE a < b
    BY <1>1, <2>1
  <2>2. CASE b < a
    BY <1>1, <2>2
  <2> QED
    BY <2>1, <2>2
<1>3. a * n \in Int
  OBVIOUS
<1> QED
  BY <1>2, <1>3

LEMMA Quotient ==
    ASSUME NEW a \in Nat, NEW n \in Nat \ {0}, NEW x \in 0 .. n - 1
    PROVE  (a * n + x) \div n = a /\ (a * n + x) % n = x /\ a * n + x \in Nat
<1> DEFINE m == a * n + x
<1>1. m \in Nat
  OBVIOUS
<1>2. m \div n \in Nat /\ m % n \in 0 .. n - 1 /\ m = n * (m \div n) + (m % n)
  <2> HIDE DEF m
  <2> QED
    BY <1>1, Division
<1> DEFINE q == m \div n
           t == m % n
<1>3. a * n + x = q * n + t
  <2> HIDE DEF q, t
  <2>1. n * q = q * n
    BY <1>2 DEF q
  <2> QED
    BY <1>2, <2>1 DEF q, t
<1> HIDE DEF q, t
<1>4. a = q /\ x = t
  BY <1>2, <1>3, UniqueDigits DEF q, t
<1> QED
  BY <1>1, <1>4 DEF q, t

\* Positions that are whole units, in epochs of e units.
LEMMA UnitsOfEpoch ==
    ASSUME NEW u \in Nat \ {0}, NEW e \in Nat \ {0}, NEW j \in Nat
    PROVE  /\ j \div e \in Nat /\ j % e \in 0 .. e - 1
           /\ u * e \in Nat \ {0}
           /\ (u * j) \div (u * e) = j \div e
           /\ (u * j) % (u * e) = u * (j % e)
<1> DEFINE q == j \div e
           t == j % e
<1>1. q \in Nat /\ t \in 0 .. e - 1 /\ j = e * q + t
  BY Division
<1> HIDE DEF q, t
<1>2. u * e \in Nat \ {0}
  OBVIOUS
<1>3. u * j = q * (u * e) + u * t
  <2>1. u * j = u * (e * q) + u * t
    BY <1>1
  <2>2. u * (e * q) = q * (u * e)
    BY <1>1
  <2> QED
    BY <2>1, <2>2
<1>4. u * t \in 0 .. (u * e) - 1
  <2>1. u * e = u * t + u * (e - t) /\ u * t \in Nat
    BY <1>1
  <2>2. u * (e - t) > 0
    <3>1. e - t \in Nat \ {0}
      BY <1>1
    <3> QED
      BY <3>1
  <2> DEFINE w == u * t
             v == u * (e - t)
  <2>3. w \in Nat /\ v \in Int /\ v > 0 /\ u * e = w + v
    BY <2>1, <2>2, <1>1
  <2> HIDE DEF w, v
  <2>4. w \in 0 .. (w + v) - 1
    BY <2>3
  <2> QED
    BY <2>3, <2>4 DEF w
<1>5. (q * (u * e) + u * t) \div (u * e) = q /\ (q * (u * e) + u * t) % (u * e) = u * t
  BY <1>1, <1>2, <1>4, Quotient
<1> QED
  BY <1>1, <1>2, <1>3, <1>5 DEF q, t

LEMMA SameEpoch ==
    ASSUME NEW e \in Nat \ {0}, NEW j \in Nat, NEW k \in Nat, (j % e) + k < e
    PROVE  (j + k) \div e = j \div e /\ (j + k) % e = (j % e) + k
<1> DEFINE q == j \div e
           t == j % e
<1>1. q \in Nat /\ t \in 0 .. e - 1 /\ j = e * q + t
  BY Division
<1>2. t + k \in 0 .. e - 1
  BY <1>1
<1> HIDE DEF q, t
<1>3. j + k = q * e + (t + k)
  BY <1>1
<1>4. (q * e + (t + k)) \div e = q /\ (q * e + (t + k)) % e = t + k
  BY <1>1, <1>2, Quotient
<1> QED
  BY <1>3, <1>4 DEF q, t

\* The ceiling of a division.
LEMMA CeilOf ==
    ASSUME NEW m \in Int, NEW n \in Nat \ {0}, m > -n
    PROVE  /\ CeilDiv(m, n) \in Nat
           /\ \A i \in Int : i <= CeilDiv(m, n) <=> (i - 1) * n < m
<1> DEFINE a == m + n - 1
           q == a \div n
<1>1. a \in Nat
  OBVIOUS
<1>2. q \in Nat /\ a % n \in 0 .. n - 1 /\ a = n * q + (a % n)
  <2> HIDE DEF a
  <2> QED
    BY <1>1, Division
<1> DEFINE t == a % n
<1>3. CeilDiv(m, n) = q
  BY DEF CeilDiv
<1>4. q \in Nat /\ t \in 0 .. n - 1 /\ m + n - 1 = n * q + t
  BY <1>2
<1> HIDE DEF q, t
<1>5. ASSUME NEW i \in Int
      PROVE  i <= q <=> (i - 1) * n < m
  <2>1. (i - 1) * n = i * n - n /\ i * n \in Int /\ n * q \in Int
    BY <1>4
  <2>2. CASE i <= q
    <3>1. q - i \in Nat
      BY <1>4, <2>2
    <3>2. (q - i) * n >= 0
      BY <3>1
    <3>3. (q - i) * n = n * q - i * n
      BY <1>4
    <3> QED
      BY <3>2, <3>3, <2>1, <2>2, <1>4
  <2>3. CASE i > q
    <3>1. i - q - 1 \in Nat
      BY <1>4, <2>3
    <3>2. (i - q - 1) * n >= 0
      BY <3>1
    <3>3. (i - q - 1) * n = i * n - n * q - n
      BY <1>4
    <3> QED
      BY <3>2, <3>3, <2>1, <2>3, <1>4
  <2> QED
    BY <2>2, <2>3, <1>4
<1> QED
  BY <1>3, <1>4, <1>5

-----------------------------------------------------------------------------
\* Slices and blocks, element by element.

LEMMA FromAt ==
    ASSUME NEW S, NEW s \in Seq(S), NEW n \in 0 .. Len(s)
    PROVE  /\ From(s, n) \in Seq(S) /\ Len(From(s, n)) = Len(s) - n
           /\ \A i \in 1 .. Len(s) - n : From(s, n)[i] = s[n + i]
<1>1. Len(s) \in Nat /\ n \in Nat /\ n + 1 \in Int
  BY LenProperties
<1>2. \A i \in n + 1 .. Len(s) : s[i] \in S
  BY <1>1, ElementOfSeq
<1>3. \A i \in 1 .. Len(s) - (n + 1) + 1 : From(s, n)[i] = s[n + 1 + i - 1]
  BY <1>1, <1>2, SubSeqProperties DEF From
<1> QED
  BY <1>1, <1>3, FromType

LEMMA EveryAt ==
    ASSUME NEW S, NEW s \in Seq(S), NEW n \in Nat \ {0}, NEW r \in 0 .. n - 1
    PROVE  /\ Every(s, r, n) \in Seq(S)
           /\ CeilDiv(Len(s) - r, n) \in Nat
           /\ Len(Every(s, r, n)) = CeilDiv(Len(s) - r, n)
           /\ \A i \in 1 .. CeilDiv(Len(s) - r, n) :
                 Every(s, r, n)[i] = s[r + 1 + (i - 1) * n]
<1>1. Len(s) \in Nat /\ Len(s) - r \in Int /\ Len(s) - r > -n
  BY LenProperties
<1>2. CeilDiv(Len(s) - r, n) \in Nat
  BY <1>1, CeilOf
<1> DEFINE q == CeilDiv(Len(s) - r, n)
           e(i) == s[r + 1 + (i - 1) * n]
           w == [i \in 1 .. q |-> e(i)]
<1>3. Every(s, r, n) = w /\ w \in Seq(S)
  BY EveryType DEF Every
<1>4. Len(w) = q
  <2> HIDE DEF q, e
  <2>1. DOMAIN w = 1 .. q /\ q \in Nat
    BY <1>2 DEF q
  <2>2. DOMAIN w = 1 .. Len(w) /\ Len(w) \in Nat
    BY <1>3, LenProperties
  <2> QED
    BY <2>1, <2>2
<1> QED
  BY <1>2, <1>3, <1>4

\* s cut into blocks of n and a remainder.
CutInto(S, s, n) ==
    /\ Len(s) \div n \in Nat /\ Len(s) % n \in 0 .. n - 1
    /\ Len(s) = (Len(s) \div n) * n + (Len(s) % n)
    /\ Blocks(s, n) \in Seq(Seq(S)) /\ Len(Blocks(s, n)) = Len(s) \div n
    /\ \A k \in 1 .. Len(s) \div n :
          /\ Blocks(s, n)[k] \in Seq(S) /\ Len(Blocks(s, n)[k]) = n
          /\ \A i \in 1 .. n : Blocks(s, n)[k][i] = s[(k - 1) * n + i]
    /\ Remainder(s, n) \in Seq(S) /\ Len(Remainder(s, n)) = Len(s) % n
    /\ \A i \in 1 .. Len(s) % n : Remainder(s, n)[i] = s[(Len(s) \div n) * n + i]

LEMMA BlockAt ==
    ASSUME NEW S, NEW s \in Seq(S), NEW n \in Nat \ {0}
    PROVE  CutInto(S, s, n)
<1> DEFINE q == Len(s) \div n
           t == Len(s) % n
           b == Blocks(s, n)
<1>1. Len(s) \in Nat
  BY LenProperties
<1>2. q \in Nat /\ t \in 0 .. n - 1 /\ Len(s) = q * n + t /\ q * n \in Nat
  BY <1>1, Division
<1>3. b \in Seq(Seq(S)) /\ \A k \in 1 .. q : b[k] \in Seq(S) /\ Len(b[k]) = n
  BY BlocksType
<1>4. Len(b) = q
  <2>1. DOMAIN b = 1 .. q
    BY DEF Blocks
  <2>2. DOMAIN b = 1 .. Len(b) /\ Len(b) \in Nat
    BY <1>3, LenProperties
  <2> HIDE DEF q, b
  <2> QED
    BY <1>2, <2>1, <2>2
<1>5. ASSUME NEW k \in 1 .. q, NEW i \in 1 .. n
      PROVE  b[k][i] = s[(k - 1) * n + i]
  <2>1. b[k] = SubSeq(s, (k - 1) * n + 1, k * n)
    BY DEF Blocks
  <2>2. /\ k * n <= q * n /\ (k - 1) * n \in Nat /\ k * n \in Nat
        /\ (k - 1) * n = k * n - n
    BY <1>2, Products
  <2>3. \A x \in (k - 1) * n + 1 .. k * n : s[x] \in S
    BY <2>2, <1>2, <1>1, ElementOfSeq
  <2>4. i \in 1 .. k * n - ((k - 1) * n + 1) + 1
    BY <2>2
  <2>5. SubSeq(s, (k - 1) * n + 1, k * n)[i] = s[((k - 1) * n + 1) + i - 1]
    BY <2>2, <2>3, <2>4, SubSeqProperties
  <2>6. ((k - 1) * n + 1) + i - 1 = (k - 1) * n + i
    BY <2>2
  <2> QED
    BY <2>1, <2>5, <2>6
<1>6. q * n \in 0 .. Len(s) /\ Len(s) - q * n = t
  BY <1>1, <1>2
<1>7. /\ Remainder(s, n) \in Seq(S) /\ Len(Remainder(s, n)) = t
      /\ \A i \in 1 .. t : Remainder(s, n)[i] = s[q * n + i]
  <2>1. Remainder(s, n) = From(s, q * n)
    BY DEF Remainder
  <2> HIDE DEF q, t
  <2> QED
    BY <2>1, <1>6, FromAt
<1> QED
  BY <1>2, <1>3, <1>4, <1>5, <1>7 DEF CutInto

-----------------------------------------------------------------------------
\* What a pass yields, batch by batch.

LEMMA Geometry ==
    ASSUME NEW c \in Configs, NEW d \in Sizes(c)
    PROVE  /\ Unit(c, d) \in Nat \ {0} /\ Units(c, d) \in Nat
           /\ c.kind # "single" =>
                 Units(c, d) \in Nat \ {0} /\ Active(c, d) = Unit(c, d) * Units(c, d)
           /\ c.gbs \div d \in Nat \ {0} /\ c.gbs = (c.gbs \div d) * d
<1> DEFINE u == Unit(c, d)
           n == Units(c, d)
<1>1. /\ c.kind \in {"single", "cyclic", "batch"} /\ c.drop \in BOOLEAN
      /\ c.total \in Nat \ {0} /\ c.mbs \in Nat \ {0} /\ c.gbs \in Nat \ {0}
      /\ d \in Nat \ {0} /\ c.mbs * d \in Nat \ {0} /\ c.gbs % (c.mbs * d) = 0
  BY Configuration
<1>2. u \in Nat \ {0}
  BY UnitTimesDraws
<1>3. CeilDiv(c.total, c.mbs * d) \in Nat /\ CeilDiv(c.total, c.gbs) \in Nat
  BY <1>1, RoundedUp
<1>4. c.total \div u \in Nat /\ c.total = u * (c.total \div u) + (c.total % u)
  <2> HIDE DEF u
  <2> QED
    BY <1>1, <1>2, Division
<1>5. n \in Nat
  BY <1>3, <1>4 DEF Units
<1>6. ASSUME c.kind # "single"
      PROVE  n \in Nat \ {0} /\ Active(c, d) = u * n
  <2>1. Active(c, d) \in Nat \ {0}
    BY <1>6, EpochNotEmpty
  <2>2. Active(c, d) = u * n
    <3>1. CASE c.kind = "cyclic"
      <4>1. Active(c, d) = c.total - (c.total % u) /\ n = c.total \div u
        BY <3>1 DEF Active, Unit, Units
      <4> HIDE DEF u, n
      <4>2. u * (c.total \div u) \in Nat /\ c.total % u \in Nat
        <5>1. c.total % u \in Nat
          BY <1>1, <1>2, Division
        <5> QED
          BY <1>2, <1>4, <5>1
      <4> QED
        BY <4>1, <4>2, <1>4
    <3>2. CASE c.kind = "batch" /\ c.drop
      <4>1. Active(c, d) = (c.total \div c.gbs) * c.gbs /\ n = c.total \div c.gbs /\ u = c.gbs
        BY <3>2 DEF Active, Unit, Units
      <4> HIDE DEF u, n
      <4> QED
        BY <4>1, <1>1, <1>5
    <3>3. CASE c.kind = "batch" /\ ~c.drop
      <4>1. Active(c, d) = CeilDiv(c.total, c.gbs) * c.gbs /\ n = CeilDiv(c.total, c.gbs)
            /\ u = c.gbs
        BY <3>3 DEF Active, Unit, Units
      <4> HIDE DEF u, n
      <4> QED
        BY <4>1, <1>1, <1>5
    <3> QED
      BY <1>1, <1>6, <3>1, <3>2, <3>3
  <2>3. n # 0
    <3> HIDE DEF u, n
    <3> QED
      BY <1>2, <2>1, <2>2
  <2> QED
    BY <1>5, <2>2, <2>3
<1>7. c.gbs \div d \in Nat \ {0} /\ c.gbs = (c.gbs \div d) * d
  <2> DEFINE w == c.mbs * d
             m == c.gbs \div w
  <2>1. m \in Nat /\ c.gbs = w * m
    <3> HIDE DEF w
    <3> QED
      BY <1>1, Division DEF w
  <2> HIDE DEF m
  <2>2. w * m = (c.mbs * m) * d /\ c.mbs * m \in Nat
    BY <1>1, <2>1
  <2>3. c.gbs = (c.mbs * m) * d
    BY <2>1, <2>2
  <2>4. c.gbs \div d = c.mbs * m
    BY <1>1, <2>2, <2>3, ExactDivision
  <2>5. c.mbs * m # 0
    <3>1. c.mbs * m = 0 => (c.mbs * m) * d = 0
      BY <1>1
    <3> QED
      BY <3>1, <2>3, <1>1
  <2> QED
    BY <2>2, <2>3, <2>4, <2>5
<1> QED
  BY <1>2, <1>5, <1>6, <1>7

\* A batch is known by its size and its samples.
LEMMA IsBatch ==
    ASSUME NEW c, NEW d, NEW r, NEW p, NEW b \in Batch,
           Len(b) = BatchSize(c, d, r, p),
           \A i \in 1 .. BatchSize(c, d, r, p) : b[i] = SampleOf(c, d, r, p, i)
    PROVE  b = BatchOf(c, d, r, p)
<1> DEFINE n == BatchSize(c, d, r, p)
           e(i) == SampleOf(c, d, r, p, i)
<1>1. b = [i \in 1 .. n |-> b[i]]
  <2>1. b \in [1 .. Len(b) -> Index]
    BY LenProperties DEF Batch
  <2> HIDE DEF n, e
  <2> QED
    BY <2>1 DEF n
<1>2. \A i \in 1 .. n : b[i] = e(i)
  OBVIOUS
<1>3. BatchOf(c, d, r, p) = [i \in 1 .. n |-> e(i)]
  BY DEF BatchOf
<1> HIDE DEF n, e
<1> QED
  BY <1>1, <1>2, <1>3

\* What a pass yields that starts after j units.
PassIs(c, d, r, j) ==
    LET pass == Pass(c, d, r, Unit(c, d) * j)
    IN  /\ pass \in Seq(Batch) /\ Len(pass) = Yields(c, d, j)
        /\ \A k \in 1 .. Yields(c, d, j) :
              pass[k] = BatchOf(c, d, r, Unit(c, d) * (j + (k - 1)))

\* A rank's part of a global microbatch, whole or not.
LEMMA MineAt ==
    ASSUME NEW b \in Batch, NEW r \in Nat, NEW m \in Nat \ {0}
    PROVE  LET mine == SubSeq(b, r * m + 1, SmallerOf((r + 1) * m, Len(b)))
               left == Len(b) - r * m
               n    == IF left >= m THEN m ELSE IF left > 0 THEN left ELSE 0
           IN  mine \in Batch /\ Len(mine) = n /\ \A i \in 1 .. n : mine[i] = b[r * m + i]
<1> DEFINE x == r * m
           y == (r + 1) * m
           z == SmallerOf(y, Len(b))
           mine == SubSeq(b, x + 1, z)
           n == IF Len(b) - x >= m THEN m ELSE IF Len(b) - x > 0 THEN Len(b) - x ELSE 0
<1>1. x \in Nat /\ y \in Nat /\ y = x + m /\ Len(b) \in Nat
  BY LenProperties DEF Batch
<1> HIDE DEF x, y
<1>2. z \in Nat /\ z <= Len(b) /\ z <= x + m /\ (z = x + m \/ z = Len(b))
  BY <1>1 DEF SmallerOf
<1>3. \A i \in x + 1 .. z : b[i] \in Index
  BY <1>1, <1>2, ElementOfSeq DEF Batch
<1>4. /\ mine \in Seq(Index)
      /\ Len(mine) = IF x + 1 <= z THEN z - (x + 1) + 1 ELSE 0
      /\ \A i \in 1 .. z - (x + 1) + 1 : mine[i] = b[(x + 1) + i - 1]
  <2>1. x + 1 \in Int /\ z \in Int
    BY <1>1, <1>2
  <2> HIDE DEF z
  <2> QED
    BY <1>3, <2>1, SubSeqProperties
<1>5. Len(mine) = n
  <2>1. Len(mine) = IF x + 1 <= z THEN z - (x + 1) + 1 ELSE 0
    BY <1>4
  <2> DEFINE l == Len(mine)
             g == Len(b)
  <2>2. l = IF x + 1 <= z THEN z - (x + 1) + 1 ELSE 0
    BY <2>1
  <2> HIDE DEF l, z
  <2> QED
    BY <1>1, <1>2, <2>2 DEF l
<1>6. \A i \in 1 .. n : mine[i] = b[x + i]
  <2>1. n <= z - (x + 1) + 1 \/ n = 0
    <3> HIDE DEF z
    <3> QED
      BY <1>1, <1>2
  <2>2. \A i \in Nat : (x + 1) + i - 1 = x + i
    BY <1>1
  <2>3. z \in Nat /\ n \in Nat
    BY <1>1, <1>2
  <2> HIDE DEF mine, z, n
  <2> QED
    BY <1>1, <1>4, <2>1, <2>2, <2>3
<1> QED
  BY <1>4, <1>5, <1>6 DEF x, y, Batch

\* The quotient of what is left of m after j units.
LEMMA UnitsLeft ==
    ASSUME NEW m \in Nat, NEW u \in Nat \ {0}, NEW j \in Nat, u * j <= m
    PROVE  /\ (m - u * j) \div u = (m \div u) - j
           /\ (m - u * j) % u = m % u
           /\ j <= m \div u
<1> DEFINE q == m \div u
           t == m % u
<1>1. q \in Nat /\ t \in 0 .. u - 1 /\ m = u * q + t
  BY Division
<1> HIDE DEF q, t
<1>2. j <= q
  <2> SUFFICES ASSUME j >= q + 1 PROVE FALSE
    BY <1>1
  <2>1. u * (q + 1) <= u * j
    BY <1>1, Products
  <2>2. u * (q + 1) = u * q + u /\ u * q \in Nat
    BY <1>1
  <2> QED
    BY <1>1, <2>1, <2>2
<1>3. q - j \in Nat /\ m - u * j = (q - j) * u + t
  <2>1. (q - j) * u = u * q - u * j
    BY <1>1
  <2>2. u * q \in Nat /\ u * j \in Nat
    BY <1>1
  <2> QED
    BY <1>1, <1>2, <2>1, <2>2
<1>4. ((q - j) * u + t) \div u = q - j /\ ((q - j) * u + t) % u = t
  BY <1>1, <1>3, Quotient
<1> QED
  BY <1>2, <1>3, <1>4 DEF q, t

\* Positions of the k-th unit after j.
LEMMA UnitAt ==
    ASSUME NEW u \in Nat \ {0}, NEW j \in Nat, NEW k \in Nat \ {0}
    PROVE  /\ u * j \in Nat /\ (k - 1) * u \in Nat /\ k * u \in Nat
           /\ u * (j + (k - 1)) = u * j + (k - 1) * u
           /\ k * u = (k - 1) * u + u
  OBVIOUS

\* How many units, whole or begun, are left of m after the first j.
LEMMA UnitsToCome ==
    ASSUME NEW m \in Nat, NEW u \in Nat \ {0}, NEW j \in Nat, NEW n \in Nat,
           n = IF u * j <= m THEN m - u * j ELSE 0
    PROVE  /\ (IF j < m \div u THEN (m \div u) - j ELSE 0) = n \div u
           /\ (IF j < CeilDiv(m, u) THEN CeilDiv(m, u) - j ELSE 0)
                = IF n % u > 0 THEN (n \div u) + 1 ELSE n \div u
<1> DEFINE p == u * j
           q == n \div u
           t == n % u
           z == CeilDiv(m, u)
           w == IF t > 0 THEN q + 1 ELSE q
<1>1. p \in Nat
  OBVIOUS
<1>2. q \in Nat /\ t \in 0 .. u - 1 /\ n = u * q + t /\ u * q \in Nat
  BY Division
<1>3. n = IF p <= m THEN m - p ELSE 0
  OBVIOUS
<1>4. m \div u \in Nat
  BY Division
<1>5. z \in Nat /\ \A i \in Int : i <= z <=> (i - 1) * u < m
  <2>1. m > -u
    OBVIOUS
  <2> QED
    BY <2>1, CeilOf
<1>6. (IF j < m \div u THEN (m \div u) - j ELSE 0) = q
  <2>1. CASE p <= m
    <3>1. (m - u * j) \div u = (m \div u) - j /\ j <= m \div u
      BY <2>1, UnitsLeft
    <3>2. q = (m \div u) - j
      BY <1>3, <2>1, <3>1
    <3> HIDE DEF q
    <3> QED
      BY <1>4, <3>1, <3>2
  <2>2. CASE p > m
    <3>1. n = 0
      BY <1>1, <1>3, <2>2
    <3>2. q = 0
      <4>1. 0 \div u = 0
        OBVIOUS
      <4> QED
        BY <3>1, <4>1
    <3>3. m \div u <= j
      <4> DEFINE g == m \div u
      <4>1. g \in Nat /\ g * u <= m
        BY Division
      <4> HIDE DEF g
      <4>2. SUFFICES ASSUME j <= g PROVE FALSE
        BY <4>1 DEF g
      <4>3. j * u <= g * u /\ j * u = p
        BY <4>1, <4>2, Products
      <4> HIDE DEF p
      <4> QED
        BY <1>1, <2>2, <4>1, <4>3
    <3> HIDE DEF q
    <3> QED
      BY <1>4, <3>2, <3>3
  <2> QED
    BY <1>1, <2>1, <2>2
<1> HIDE DEF q, t, z
<1>7. (IF j < z THEN z - j ELSE 0) = w
  <2>1. CASE p < m
    <3>1. m = p + u * q + t
      BY <1>1, <1>2, <1>3, <2>1
    <3>2. w \in Nat
      BY <1>2
    <3>3. ((j + q) - 1) * u = p + u * q - u /\ (j + q) * u = p + u * q
      BY <1>2
    <3>4. ((j + (q + 1)) - 1) * u = p + u * q
      <4>1. (j + (q + 1)) - 1 = j + q
        BY <1>2
      <4> QED
        BY <3>3, <4>1
    <3>5. (j + w) - 1 = (j + q) - 1 \/ (t > 0 /\ (j + w) - 1 = (j + (q + 1)) - 1)
      BY <1>2
    <3>6. ((j + w) - 1) * u < m
      <4> HIDE DEF p, w
      <4>1. p + u * q - u < m
        BY <1>1, <1>2, <3>1
      <4>2. t > 0 => p + u * q < m
        BY <1>1, <1>2, <3>1
      <4> QED
        BY <3>3, <3>4, <3>5, <4>1, <4>2
    <3>7. ~(((j + w + 1) - 1) * u < m)
      <4>1. CASE t > 0
        <5>1. (j + w + 1) - 1 = (j + q) + 1
          BY <1>2, <4>1
        <5>2. ((j + q) + 1) * u = p + u * q + u
          BY <1>2
        <5> HIDE DEF p, w
        <5>3. p + u * q + u >= m
          BY <1>1, <1>2, <3>1
        <5> QED
          BY <1>1, <1>2, <5>1, <5>2, <5>3
      <4>2. CASE t = 0
        <5>1. (j + w + 1) - 1 = j + q
          BY <1>2, <4>2
        <5> HIDE DEF p, w
        <5>2. p + u * q = m
          BY <1>1, <1>2, <3>1, <4>2
        <5> QED
          BY <1>1, <1>2, <3>3, <5>1, <5>2
      <4> QED
        BY <1>2, <4>1, <4>2
    <3> HIDE DEF w, p
    <3>8. j + w \in Int /\ j + w + 1 \in Int
      BY <3>2
    <3>9. j + w <= z /\ ~(j + w + 1 <= z)
      BY <1>5, <3>6, <3>7, <3>8
    <3> QED
      BY <1>5, <3>2, <3>9
  <2>2. CASE p >= m
    <3>1. n = 0
      BY <1>1, <1>3, <2>2
    <3>2. q = 0 /\ t = 0
      <4>1. 0 \div u = 0 /\ 0 % u = 0
        OBVIOUS
      <4> QED
        BY <3>1, <4>1 DEF q, t
    <3>3. ((j + 1) - 1) * u = p
      OBVIOUS
    <3>4. ~(j + 1 <= z)
      <4> HIDE DEF p
      <4> QED
        BY <1>1, <1>5, <2>2, <3>3
    <3> QED
      BY <1>5, <3>2, <3>4
  <2> QED
    BY <1>1, <2>1, <2>2
<1> QED
  BY <1>6, <1>7 DEF q, t, z

LEMMA SinglePass ==
    ASSUME NEW c \in Configs, NEW d \in Sizes(c), NEW r \in Ranks(d), NEW j \in Nat,
           c.kind = "single"
    PROVE  PassIs(c, d, r, j)
<1> DEFINE u == c.mbs * d
           p == u * j
           n == c.total - p
           f(i) == p + i - 1
           order == [i \in 1 .. n |-> f(i)]
           mine(b) == SubSeq(b, r * c.mbs + 1, SmallerOf((r + 1) * c.mbs, Len(b)))
           q == Len(order) \div u
           t == Len(order) % u
           e(k) == mine(Blocks(order, u)[k])
           full == [k \in 1 .. q |-> e(k)]
           rest == Remainder(order, u)
           pass == IF rest # <<>> /\ ~c.drop THEN Append(full, mine(rest)) ELSE full
           y == Yields(c, d, j)
           batch(k) == BatchOf(c, d, r, u * (j + (k - 1)))
<1>0. u \in Nat \ {0} /\ c.total \in Nat \ {0} /\ c.drop \in BOOLEAN
  BY Configuration
<1>1. /\ c.mbs \in Nat \ {0} /\ r \in Nat /\ d \in Nat \ {0} /\ r \in 0 .. d - 1
      /\ u = d * c.mbs
  BY Configuration DEF Ranks
<1>2. p \in Nat /\ n \in Int
  <2> HIDE DEF u
  <2> QED
    BY <1>0
<1>3. u = Unit(c, d) /\ Pass(c, d, r, p) = pass
  BY DEF Unit, Pass, SequentialPass
<1>4. r * c.mbs \in Nat /\ (r + 1) * c.mbs <= u /\ (r + 1) * c.mbs = r * c.mbs + c.mbs
  <2>1. (r + 1) * c.mbs <= d * c.mbs
    BY <1>1, Products
  <2> HIDE DEF u
  <2> QED
    BY <1>1, <2>1
<1> HIDE DEF u, p
<1>5. /\ order \in Batch /\ Len(order) \in Nat
      /\ Len(order) = IF p <= c.total THEN n ELSE 0
      /\ \A i \in 1 .. Len(order) : order[i] = p + i - 1
  <2>1. \A i \in 1 .. n : f(i) \in Index
    BY <1>2 DEF Index
  <2>2. order \in Batch
    <3>1. CASE n \in Nat
      <4> HIDE DEF n, f
      <4> QED
        BY <2>1, <3>1, IsASeq DEF Batch
    <3>2. CASE n \notin Nat
      <4>1. order = [i \in 1 .. 0 |-> f(i)]
        BY <1>2, <3>2
      <4>2. \A i \in 1 .. 0 : f(i) \in Index
        OBVIOUS
      <4> HIDE DEF f, n, order
      <4> QED
        BY <4>1, <4>2, IsASeq DEF Batch
    <3> QED
      BY <3>1, <3>2
  <2>3. DOMAIN order = 1 .. n
    OBVIOUS
  <2>4. DOMAIN order = 1 .. Len(order) /\ Len(order) \in Nat
    BY <2>2, LenProperties DEF Batch
  <2>5. Len(order) = IF p <= c.total THEN n ELSE 0
    <3> HIDE DEF order
    <3> QED
      BY <1>0, <1>2, <2>3, <2>4
  <2> QED
    BY <2>2, <2>3, <2>4, <2>5
<1> HIDE DEF order
<1>6. /\ q \in Nat /\ t \in 0 .. u - 1 /\ Len(order) = q * u + t
      /\ \A k \in 1 .. q :
            /\ Blocks(order, u)[k] \in Batch /\ Len(Blocks(order, u)[k]) = u
            /\ \A i \in 1 .. u : Blocks(order, u)[k][i] = order[(k - 1) * u + i]
      /\ rest \in Batch /\ Len(rest) = t
      /\ \A i \in 1 .. t : rest[i] = order[q * u + i]
  <2>1. order \in Seq(Index)
    BY <1>5 DEF Batch
  <2>2. CutInto(Index, order, u)
    BY <1>0, <2>1, BlockAt
  <2> QED
    BY <2>2 DEF CutInto, Batch
<1>7. q \in Nat /\ t \in 0 .. u - 1 /\ q * u \in Nat /\ Len(order) = q * u + t
  <2>1. q \in Nat /\ t \in 0 .. u - 1 /\ Len(order) = q * u + t
    BY <1>6
  <2> HIDE DEF q, t
  <2> QED
    BY <1>0, <2>1
<1>8. ASSUME NEW b \in Batch, NEW k \in Nat \ {0},
             Len(b) <= u, Len(b) = u \/ p + (k - 1) * u + Len(b) = c.total,
             p + (k - 1) * u + Len(b) <= c.total,
             \A i \in 1 .. Len(b) : b[i] = p + (k - 1) * u + i - 1
      PROVE  mine(b) \in Batch /\ mine(b) = batch(k)
  <2> DEFINE x == r * c.mbs
             l == Len(b)
             left == l - x
             m == IF left >= c.mbs THEN c.mbs ELSE IF left > 0 THEN left ELSE 0
             v == p + (k - 1) * u
  <2>1. mine(b) \in Batch /\ Len(mine(b)) = m /\ \A i \in 1 .. m : mine(b)[i] = b[x + i]
    BY <1>1, MineAt
  <2>2. u * (j + (k - 1)) = v /\ v \in Nat
    <3>1. u * (j + (k - 1)) = u * j + (k - 1) * u /\ (k - 1) * u \in Nat
      BY <1>0, UnitAt
    <3> QED
      BY <1>2, <3>1 DEF p
  <2>3. x \in Nat /\ x + c.mbs <= u /\ l \in Nat
    <3>1. Len(b) \in Nat
      BY LenProperties DEF Batch
    <3> HIDE DEF l
    <3> QED
      BY <1>4, <3>1 DEF l
  <2>4. /\ l <= u /\ (l = u \/ v + l = c.total) /\ v + l <= c.total
        /\ \A i \in 1 .. l : b[i] = v + i - 1
    BY <1>8
  <2>5. c.mbs \in Nat \ {0}
    BY <1>1
  <2> HIDE DEF x, v, l
  <2>6. BatchSize(c, d, r, v) = m
    <3>1. BatchSize(c, d, r, v)
            = IF c.total - (v + x) >= c.mbs THEN c.mbs
              ELSE IF c.total - (v + x) > 0 THEN c.total - (v + x) ELSE 0
      BY DEF BatchSize, x
    <3>2. CASE l = u
      <4>1. c.total - (v + x) >= c.mbs /\ left >= c.mbs
        BY <1>0, <2>2, <2>3, <2>4, <2>5, <3>2
      <4> QED
        BY <3>1, <4>1
    <3>3. CASE v + l = c.total
      <4>1. c.total - (v + x) = left
        BY <1>0, <2>2, <2>3, <3>3
      <4> QED
        BY <3>1, <4>1
    <3> QED
      BY <2>4, <3>2, <3>3
  <2>7. m \in Nat /\ (m <= l - x \/ m = 0)
    BY <2>3, <2>5
  <2> HIDE DEF m
  <2>8. ASSUME NEW i \in 1 .. m
        PROVE  mine(b)[i] = SampleOf(c, d, r, v, i)
    <3>1. x + i \in 1 .. l
      BY <2>3, <2>7
    <3>2. mine(b)[i] = v + (x + i) - 1
      <4>1. mine(b)[i] = b[x + i]
        BY <2>1
      <4> QED
        BY <2>4, <3>1, <4>1
    <3>3. SampleOf(c, d, r, v, i) = v + (x + (i - 1))
      BY DEF SampleOf, x
    <3>4. v + (x + i) - 1 = v + (x + (i - 1))
      BY <2>2, <2>3, <2>7
    <3> QED
      BY <3>2, <3>3, <3>4
  <2> HIDE DEF mine
  <2>9. mine(b) = BatchOf(c, d, r, v)
    BY <2>1, <2>6, <2>8, IsBatch
  <2> QED
    BY <2>1, <2>2, <2>9
<1>9. ASSUME NEW k \in 1 .. q
      PROVE  e(k) \in Batch /\ e(k) = batch(k)
  <2> DEFINE b == Blocks(order, u)[k]
  <2>1. b \in Batch /\ Len(b) = u /\ \A i \in 1 .. u : b[i] = order[(k - 1) * u + i]
    BY <1>6
  <2>2. k \in Nat \ {0} /\ k <= q
    BY <1>7
  <2>3. (k - 1) * u \in Nat /\ k * u = (k - 1) * u + u /\ k * u <= q * u
    BY <1>0, <1>7, <2>2, UnitAt, Products
  <2> HIDE DEF b, q, t, mine, batch
  <2>4. Len(order) > 0
    BY <1>0, <1>7, <2>3
  <2>5. (k - 1) * u + u <= Len(order) /\ p + Len(order) = c.total
    <3> DEFINE l == Len(order)
               x == k * u
               w == q * u
    <3>1. l = w + t /\ w \in Nat /\ t \in 0 .. u - 1 /\ x <= w /\ x \in Int
      BY <1>7, <2>3, <1>0
    <3>2. x <= l
      <4> HIDE DEF l, x, w
      <4> QED
        BY <1>0, <3>1
    <3>3. l > 0 /\ l = IF p <= c.total THEN c.total - p ELSE 0
      BY <1>5, <2>4
    <3>4. p + l = c.total
      <4> HIDE DEF l
      <4> QED
        BY <1>0, <1>2, <3>3
    <3> QED
      BY <2>3, <3>2, <3>4
  <2>6. \A i \in 1 .. u : b[i] = p + (k - 1) * u + i - 1
    <3> TAKE i \in 1 .. u
    <3>1. (k - 1) * u + i \in 1 .. Len(order)
      BY <1>0, <1>5, <2>3, <2>5
    <3>2. b[i] = p + ((k - 1) * u + i) - 1
      BY <1>5, <2>1, <3>1
    <3> QED
      BY <1>0, <1>2, <2>3, <3>2
  <2>7. p + (k - 1) * u + Len(b) <= c.total /\ Len(b) <= u
    BY <1>0, <1>2, <1>5, <2>1, <2>3, <2>5
  <2>8. mine(b) \in Batch /\ mine(b) = batch(k)
    BY <1>8, <2>1, <2>2, <2>6, <2>7
  <2> QED
    BY <2>8 DEF b
<1>10. ASSUME t > 0
       PROVE  mine(rest) \in Batch /\ mine(rest) = batch(q + 1)
  <2>1. rest \in Batch /\ Len(rest) = t /\ \A i \in 1 .. t : rest[i] = order[q * u + i]
    BY <1>6
  <2> HIDE DEF mine, batch, q, t, rest
  <2>2. (q + 1) - 1 = q /\ q + 1 \in Nat \ {0}
    BY <1>7
  <2>3. p + q * u + t = c.total
    <3>1. Len(order) > 0
      BY <1>7, <1>10
    <3> QED
      BY <1>0, <1>2, <1>5, <1>7, <3>1
  <2>4. \A i \in 1 .. t : rest[i] = p + q * u + i - 1
    <3> TAKE i \in 1 .. t
    <3>1. q * u + i \in 1 .. Len(order)
      BY <1>0, <1>7
    <3>2. rest[i] = p + (q * u + i) - 1
      BY <1>5, <2>1, <3>1
    <3> QED
      BY <1>0, <1>2, <1>7, <3>2
  <2>5. /\ Len(rest) <= u /\ p + ((q + 1) - 1) * u + Len(rest) = c.total
        /\ p + ((q + 1) - 1) * u + Len(rest) <= c.total
        /\ \A i \in 1 .. Len(rest) : rest[i] = p + ((q + 1) - 1) * u + i - 1
    BY <1>0, <1>7, <2>1, <2>2, <2>3, <2>4
  <2> QED
    BY <1>8, <2>1, <2>2, <2>5
<1>11. /\ full \in Seq(Batch) /\ Len(full) = q
       /\ \A k \in 1 .. q : full[k] = batch(k)
  <2> HIDE DEF e, q, batch
  <2>1. full \in Seq(Batch)
    BY <1>7, <1>9, IsASeq
  <2>2. DOMAIN full = 1 .. q /\ DOMAIN full = 1 .. Len(full) /\ Len(full) \in Nat
    BY <2>1, LenProperties
  <2>3. Len(full) = q
    <3> HIDE DEF full
    <3> QED
      BY <1>7, <2>2
  <2> QED
    BY <1>9, <2>1, <2>3
<1>12. rest # <<>> <=> t > 0
  <2>1. rest = <<>> <=> Len(rest) = 0
    BY <1>6, EmptySeq DEF Batch
  <2>2. Len(rest) = t
    BY <1>6
  <2> HIDE DEF rest, t
  <2> QED
    BY <1>7, <2>1, <2>2
<1>13. y = IF t > 0 /\ ~c.drop THEN q + 1 ELSE q
  <2>1. y = IF c.drop THEN IF j < c.total \div u THEN (c.total \div u) - j ELSE 0
            ELSE IF j < CeilDiv(c.total, u) THEN CeilDiv(c.total, u) - j ELSE 0
    BY <1>0, <1>3 DEF Yields, Units, Unit, u
  <2> DEFINE m == c.total
             l == Len(order)
  <2>2. m \in Nat /\ l \in Nat /\ l = IF u * j <= m THEN m - u * j ELSE 0
    BY <1>0, <1>5 DEF p
  <2> HIDE DEF m, l
  <2>3. /\ (IF j < m \div u THEN (m \div u) - j ELSE 0) = l \div u
        /\ (IF j < CeilDiv(m, u) THEN CeilDiv(m, u) - j ELSE 0)
             = IF l % u > 0 THEN (l \div u) + 1 ELSE l \div u
    BY <1>0, <2>2, UnitsToCome
  <2> QED
    BY <1>0, <2>1, <2>3 DEF m, l
<1>14. /\ pass \in Seq(Batch) /\ Len(pass) = y
       /\ \A k \in 1 .. y : pass[k] = batch(k)
  <2> HIDE DEF full, mine, rest, t, q, y, batch
  <2>1. CASE t > 0 /\ ~c.drop
    <3>1. pass = Append(full, mine(rest)) /\ y = q + 1
      BY <1>12, <1>13, <2>1
    <3> HIDE DEF pass
    <3>2. pass \in Seq(Batch) /\ Len(pass) = q + 1 /\ pass[q + 1] = mine(rest)
          /\ \A k \in 1 .. q : pass[k] = full[k]
      BY <1>10, <1>11, <2>1, <3>1, AppendProperties
    <3>3. \A k \in 1 .. q + 1 : pass[k] = batch(k)
      <4> TAKE k \in 1 .. q + 1
      <4>1. CASE k = q + 1
        BY <1>10, <2>1, <3>2, <4>1
      <4>2. CASE k # q + 1
        <5>1. k \in 1 .. q
          BY <1>7, <4>2
        <5> QED
          BY <1>11, <3>2, <5>1
      <4> QED
        BY <4>1, <4>2
    <3> QED
      BY <3>1, <3>2, <3>3
  <2>2. CASE ~(t > 0 /\ ~c.drop)
    <3>1. pass = full /\ y = q
      BY <1>12, <1>13, <2>2
    <3> HIDE DEF pass
    <3> QED
      BY <1>11, <3>1
  <2> QED
    BY <2>1, <2>2
<1> HIDE DEF pass, y
<1> QED
  BY <1>3, <1>14 DEF PassIs, p, y

\* Where the k-th batch of a pass lies in its epoch.
LEMMA InEpoch ==
    ASSUME NEW c \in Configs, NEW d \in Sizes(c), NEW j \in Nat, c.kind # "single",
           NEW k \in 1 .. Yields(c, d, j)
    PROVE  LET u == Unit(c, d)
               n == Units(c, d)
               p == u * (j + (k - 1))
           IN  /\ p \div Active(c, d) = j \div n
               /\ p % Active(c, d) = u * (j % n) + (k - 1) * u
<1> DEFINE u == Unit(c, d)
           n == Units(c, d)
           y == Yields(c, d, j)
<1>1. u \in Nat \ {0} /\ n \in Nat \ {0} /\ Active(c, d) = u * n
  BY Geometry
<1>2. y = n - (j % n)
  BY DEF Yields
<1> HIDE DEF u, n
<1>3. j % n \in 0 .. n - 1 /\ j \div n \in Nat
  BY <1>1, Division
<1> HIDE DEF y
<1>4. k - 1 \in Nat /\ (j % n) + (k - 1) < n /\ k \in Nat \ {0}
  BY <1>1, <1>2, <1>3 DEF y
<1>5. (j + (k - 1)) \div n = j \div n /\ (j + (k - 1)) % n = (j % n) + (k - 1)
  BY <1>1, <1>4, SameEpoch
<1>6. j + (k - 1) \in Nat
  BY <1>4
<1>7. /\ (u * (j + (k - 1))) \div (u * n) = (j + (k - 1)) \div n
      /\ (u * (j + (k - 1))) % (u * n) = u * ((j + (k - 1)) % n)
  BY <1>1, <1>6, UnitsOfEpoch
<1>8. j % n \in Nat
  BY <1>3
<1>9. u * ((j % n) + (k - 1)) = u * (j % n) + (k - 1) * u
  BY <1>1, <1>4, <1>8, UnitAt
<1> QED
  BY <1>1, <1>5, <1>7, <1>9 DEF u, n

\* Where a pass starts in its epoch.
LEMMA PassStart ==
    ASSUME NEW c \in Configs, NEW d \in Sizes(c), NEW j \in Nat, c.kind # "single"
    PROVE  LET u == Unit(c, d)
               n == Units(c, d)
           IN  /\ (u * j) \div Active(c, d) = j \div n
               /\ (u * j) % Active(c, d) = u * (j % n)
               /\ j \div n \in Nat /\ j % n \in 0 .. n - 1
               /\ Yields(c, d, j) = n - (j % n)
<1> DEFINE u == Unit(c, d)
           n == Units(c, d)
<1>1. u \in Nat \ {0} /\ n \in Nat \ {0} /\ Active(c, d) = u * n
  BY Geometry
<1>2. Yields(c, d, j) = n - (j % n)
  BY DEF Yields
<1> HIDE DEF u, n
<1>3. /\ (u * j) \div (u * n) = j \div n /\ (u * j) % (u * n) = u * (j % n)
      /\ j \div n \in Nat /\ j % n \in 0 .. n - 1
  BY <1>1, UnitsOfEpoch
<1> QED
  BY <1>1, <1>2, <1>3 DEF u, n

\* The indices of an epoch from the offset on.
LEMMA OrderAt ==
    ASSUME OrdersAreIndices, NEW n \in Nat, NEW seed \in Nat, NEW o \in 0 .. n
    PROVE  LET order == From(Permuted(n, seed), o)
           IN  /\ order \in Seq(Nat) /\ order \in Batch /\ Len(order) = n - o
               /\ \A i \in 1 .. n - o : order[i] = Perm(n, seed, o + i)
<1> DEFINE s == Permuted(n, seed)
<1>1. s \in Seq(Nat) /\ s \in Seq(Index)
  BY PermutedType DEF Batch
<1>2. DOMAIN s = 1 .. n /\ \A i \in 1 .. n : s[i] = Perm(n, seed, i)
  BY DEF Permuted
<1> HIDE DEF s
<1>3. Len(s) = n
  <2>1. DOMAIN s = 1 .. Len(s) /\ Len(s) \in Nat
    BY <1>1, LenProperties
  <2> QED
    BY <1>2, <2>1
<1>4. o \in 0 .. Len(s)
  BY <1>3
<1>5. /\ From(s, o) \in Seq(Nat) /\ Len(From(s, o)) = Len(s) - o
      /\ \A i \in 1 .. Len(s) - o : From(s, o)[i] = s[o + i]
  BY <1>1, <1>4, FromAt
<1>6. From(s, o) \in Seq(Index)
  BY <1>1, <1>4, FromAt
<1>7. \A i \in 1 .. n - o : From(s, o)[i] = Perm(n, seed, o + i)
  <2> TAKE i \in 1 .. n - o
  <2>1. o + i \in 1 .. n
    OBVIOUS
  <2> QED
    BY <1>2, <1>3, <1>5, <2>1
<1> QED
  BY <1>3, <1>5, <1>6, <1>7 DEF s, Batch

\* Every d-th of g * d, from the r-th on, are g.
LEMMA EveryOfAll ==
    ASSUME NEW g \in Nat, NEW d \in Nat \ {0}, NEW r \in 0 .. d - 1
    PROVE  CeilDiv(g * d - r, d) = g
<1> DEFINE w == g * d
           z == CeilDiv(w - r, d)
<1>1. w \in Nat /\ w - r \in Int /\ w - r > -d
  BY Products
<1>2. z \in Nat /\ \A i \in Int : i <= z <=> (i - 1) * d < w - r
  <2> HIDE DEF w
  <2> QED
    BY <1>1, CeilOf
<1>3. (g - 1) * d = w - d /\ ((g + 1) - 1) * d = w
  OBVIOUS
<1> HIDE DEF w, z
<1>4. g <= z /\ ~(g + 1 <= z)
  <2>1. (g - 1) * d < w - r
    BY <1>1, <1>3
  <2>2. ~(((g + 1) - 1) * d < w - r)
    BY <1>1, <1>3
  <2>3. g \in Int /\ g + 1 \in Int
    OBVIOUS
  <2> QED
    BY <1>2, <2>1, <2>2, <2>3
<1> QED
  BY <1>2, <1>4 DEF w, z

\* The place of the i-th of a rank's samples among g * d.
LEMMA PlaceInside ==
    ASSUME NEW g \in Nat, NEW d \in Nat \ {0}, NEW r \in 0 .. d - 1, NEW i \in 1 .. g
    PROVE  (i - 1) * d \in Nat /\ r + 1 + (i - 1) * d \in 1 .. g * d
<1>1. (i - 1) * d \in Nat /\ i * d <= g * d /\ i * d = (i - 1) * d + d /\ i * d \in Nat
      /\ g * d \in Nat
  <2>1. i * d <= g * d
    BY Products
  <2> QED
    BY <2>1
<1> QED
  BY <1>1

LEMMA BatchPass ==
    ASSUME OrdersAreIndices, NEW c \in Configs, NEW d \in Sizes(c), NEW r \in Ranks(d),
           NEW j \in Nat, c.kind = "batch"
    PROVE  PassIs(c, d, r, j)
<1> DEFINE u == c.gbs
           n == Units(c, d)
           total == c.total
           epoch == j \div n
           o == u * (j % n)
           order == From(Permuted(total, epoch), o)
           q == Len(order) \div u
           t == Len(order) % u
           e(k) == Every(Blocks(order, u)[k], r, d)
           full == [k \in 1 .. q |-> e(k)]
           rest == Remainder(order, u)
           mine == Every(rest, r, d)
           g == c.gbs \div d
           pad(i) == Pad
           pads == [i \in 1 .. g - Len(mine) |-> pad(i)]
           pass == IF rest # <<>> /\ ~c.drop THEN Append(full, mine \o pads) ELSE full
           y == Yields(c, d, j)
           batch(k) == BatchOf(c, d, r, u * (j + (k - 1)))
<1>0. u \in Nat \ {0} /\ total \in Nat \ {0} /\ c.drop \in BOOLEAN /\ n \in Nat \ {0}
      /\ d \in Nat \ {0} /\ r \in 0 .. d - 1
  BY Configuration, Geometry DEF Ranks
<1>1. u = Unit(c, d)
  BY DEF Unit
<1>2. /\ (u * j) \div Active(c, d) = epoch /\ (u * j) % Active(c, d) = o
      /\ epoch \in Nat /\ j % n \in 0 .. n - 1 /\ j % n \in Nat /\ y = n - (j % n)
  BY <1>1, PassStart
<1>3. Pass(c, d, r, u * j) = pass
  BY <1>2 DEF Pass, GlobalBatchPass
<1>4. g \in Nat \ {0} /\ u = g * d
  BY Geometry
<1>5. n = IF c.drop THEN total \div u ELSE CeilDiv(total, u)
  BY DEF Units, Unit
<1> HIDE DEF n, epoch, u, g, total, y
<1>6. o \in Nat /\ o <= total
  <2> DEFINE h == j % n
  <2>1. h \in Nat /\ h + 1 <= n
    BY <1>0, <1>2
  <2> HIDE DEF h
  <2>2. o = u * h /\ u * h \in Nat
    BY <1>0, <2>1 DEF h
  <2>3. CASE c.drop
    <3> DEFINE v == total \div u
    <3>1. v \in Nat /\ v * u <= total
      BY <1>0, Division
    <3>2. h <= v
      BY <1>5, <2>1, <2>3, <3>1
    <3> HIDE DEF v
    <3>3. h * u <= v * u /\ h * u = u * h /\ v * u \in Nat
      BY <1>0, <2>1, <3>1, <3>2, Products
    <3> QED
      BY <1>0, <2>2, <3>1, <3>3
  <2>4. CASE ~c.drop
    <3>1. \A i \in Int : i <= CeilDiv(total, u) <=> (i - 1) * u < total
      <4>1. total > -u /\ total \in Int /\ u \in Nat \ {0}
        BY <1>0
      <4> QED
        BY ONLY <4>1, CeilOf
    <3>2. h + 1 \in Int /\ (h + 1) - 1 = h
      BY <2>1
    <3>3. h * u < total
      BY <1>5, <2>1, <2>4, <3>1, <3>2
    <3>4. h * u = u * h
      BY <1>0, <2>1
    <3> QED
      BY <1>0, <2>2, <3>3, <3>4
  <2> QED
    BY <1>0, <2>3, <2>4
<1>7. order \in Batch /\ Len(order) = total - o /\ Len(order) \in Nat
      /\ \A i \in 1 .. total - o : order[i] = Perm(total, epoch, o + i)
  <2> HIDE DEF o
  <2>1. total \in Nat /\ o \in 0 .. total
    BY <1>0, <1>6
  <2>2. order \in Batch /\ Len(order) = total - o
        /\ \A i \in 1 .. total - o : order[i] = Perm(total, epoch, o + i)
    BY <1>2, <2>1, OrderAt
  <2> QED
    BY <2>1, <2>2
<1>8. /\ (IF j % n < total \div u THEN (total \div u) - (j % n) ELSE 0) = q
      /\ (IF j % n < CeilDiv(total, u) THEN CeilDiv(total, u) - (j % n) ELSE 0)
           = IF t > 0 THEN q + 1 ELSE q
  <2> DEFINE h == j % n
             l == Len(order)
  <2>1. l = IF u * h <= total THEN total - u * h ELSE 0
    BY <1>6, <1>7
  <2>2. h \in Nat /\ total \in Nat /\ l \in Nat
    BY <1>0, <1>2, <1>7
  <2> HIDE DEF h, l
  <2>3. /\ (IF h < total \div u THEN (total \div u) - h ELSE 0) = l \div u
        /\ (IF h < CeilDiv(total, u) THEN CeilDiv(total, u) - h ELSE 0)
             = IF l % u > 0 THEN (l \div u) + 1 ELSE l \div u
    BY <1>0, <2>1, <2>2, UnitsToCome
  <2> QED
    BY <2>3 DEF h, l
<1>9. y = IF t > 0 /\ ~c.drop THEN q + 1 ELSE q
  <2> DEFINE h == j % n
  <2>1. h \in Nat /\ h < n /\ y = n - h
    BY <1>0, <1>2
  <2>2. /\ (IF h < total \div u THEN (total \div u) - h ELSE 0) = q
        /\ (IF h < CeilDiv(total, u) THEN CeilDiv(total, u) - h ELSE 0)
             = IF t > 0 THEN q + 1 ELSE q
    BY <1>8
  <2> HIDE DEF h, q, t
  <2> QED
    BY <1>0, <1>5, <2>1, <2>2
<1> HIDE DEF order, o
<1>10. CutInto(Index, order, u)
  BY <1>0, <1>7, BlockAt DEF Batch
<1>11. /\ q \in Nat /\ t \in 0 .. u - 1 /\ Len(order) = q * u + t /\ q * u \in Nat
  <2>1. q \in Nat /\ t \in 0 .. u - 1 /\ Len(order) = q * u + t
    BY <1>10 DEF CutInto
  <2> HIDE DEF q, t
  <2> QED
    BY <1>0, <2>1
<1>12. /\ \A k \in 1 .. q :
            /\ Blocks(order, u)[k] \in Batch /\ Len(Blocks(order, u)[k]) = u
            /\ \A i \in 1 .. u : Blocks(order, u)[k][i] = order[(k - 1) * u + i]
       /\ rest \in Batch /\ Len(rest) = t
       /\ \A i \in 1 .. t : rest[i] = order[q * u + i]
  BY <1>10 DEF CutInto, Batch
<1> HIDE DEF q, t, rest
\* A sample of the k-th batch of the pass.
<1>13. ASSUME NEW k \in 1 .. y, NEW i \in 1 .. g
       PROVE  LET x == (k - 1) * u + (r + 1 + (i - 1) * d)
                  p == u * (j + (k - 1))
              IN  /\ x \in Nat /\ (i - 1) * d \in Nat /\ (k - 1) * u \in Nat
                  /\ BatchSize(c, d, r, p) = g
                  /\ SampleOf(c, d, r, p, i)
                       = IF x <= total - o THEN Perm(total, epoch, o + x) ELSE Pad
  <2> DEFINE p == u * (j + (k - 1))
             a == (k - 1) * u
             b == (i - 1) * d
             x == a + (r + 1 + b)
             place == (o + a) + (r + b)
  <2>1. p \div Active(c, d) = epoch /\ p % Active(c, d) = o + a
    BY <1>1, InEpoch DEF o, n, epoch, y
  <2>2. BatchSize(c, d, r, p) = g
    BY DEF BatchSize, g, u
  <2>3. SampleOf(c, d, r, p, i)
          = IF place < total THEN Perm(total, epoch, place + 1) ELSE Pad
    BY <2>1 DEF SampleOf, Shuffled, total
  <2>4. k \in Nat \ {0} /\ i - 1 \in Nat
    <3>1. y \in Int
      BY <1>0, <1>2
    <3> QED
      BY <1>4, <3>1
  <2>5. a \in Nat /\ b \in Nat
    BY <1>0, <2>4, UnitAt, Products
  <2> HIDE DEF a, b, p
  <2>6. x \in Nat /\ place + 1 = o + x /\ (place < total <=> x <= total - o)
    BY <1>0, <1>6, <2>5
  <2> QED
    BY <2>2, <2>3, <2>5, <2>6 DEF a, b, p
<1>14. ASSUME NEW k \in 1 .. q, q <= y
       PROVE  e(k) \in Batch /\ e(k) = batch(k)
  <2> DEFINE b == Blocks(order, u)[k]
             a == (k - 1) * u
  <2>1. b \in Batch /\ Len(b) = u /\ \A i \in 1 .. u : b[i] = order[a + i]
    BY <1>12
  <2> HIDE DEF b
  <2>2. k \in 1 .. y /\ k \in Nat \ {0} /\ k \in Nat /\ k <= q
    <3>1. y \in Int
      BY <1>0, <1>2
    <3> QED
      BY <1>11, <1>14, <3>1
  <2>3. a \in Nat /\ a + u <= Len(order)
    <3> DEFINE w == q * u
               v == k * u
    <3>1. a \in Nat /\ v = a + u
      BY <1>0, <2>2, UnitAt
    <3>2. v <= w /\ w \in Nat /\ Len(order) = w + t
      BY <1>0, <1>11, <2>2, Products
    <3> HIDE DEF a, v, w
    <3> QED
      BY <1>0, <1>11, <3>1, <3>2
  <2>4. /\ Every(b, r, d) \in Batch /\ Len(Every(b, r, d)) = g
        /\ \A i \in 1 .. g : Every(b, r, d)[i] = b[r + 1 + (i - 1) * d]
    <3>1. CeilDiv(Len(b) - r, d) = g
      BY <1>0, <1>4, <2>1, EveryOfAll
    <3>2. b \in Seq(Index)
      BY <2>1 DEF Batch
    <3> QED
      BY <1>0, <3>1, <3>2, EveryAt DEF Batch
  <2> HIDE DEF a
  <2>5. ASSUME NEW i \in 1 .. g
        PROVE  Every(b, r, d)[i] = SampleOf(c, d, r, u * (j + (k - 1)), i)
    <3> DEFINE z == r + 1 + (i - 1) * d
    <3>1. z \in 1 .. u
      BY <1>0, <1>4, PlaceInside
    <3> HIDE DEF z
    <3>2. a + z \in 1 .. Len(order) /\ a + z <= total - o
      BY <1>0, <1>7, <2>3, <3>1
    <3>3. Every(b, r, d)[i] = Perm(total, epoch, o + (a + z))
      <4>1. Every(b, r, d)[i] = order[a + z]
        BY <2>1, <2>4, <3>1 DEF z
      <4> QED
        BY <1>7, <3>2, <4>1
    <3>4. SampleOf(c, d, r, u * (j + (k - 1)), i) = Perm(total, epoch, o + (a + z))
      BY <1>13, <2>2, <3>2 DEF a, z
    <3> QED
      BY <3>3, <3>4
  <2>6. BatchSize(c, d, r, u * (j + (k - 1))) = g
    <3>1. 1 \in 1 .. g
      BY <1>4
    <3> QED
      BY <1>13, <2>2, <3>1
  <2>7. Every(b, r, d) = BatchOf(c, d, r, u * (j + (k - 1)))
    BY <2>4, <2>5, <2>6, IsBatch
  <2> QED
    BY <2>4, <2>7 DEF b
<1>15. ASSUME t > 0, y = q + 1
       PROVE  mine \o pads \in Batch /\ mine \o pads = batch(q + 1)
  <2> DEFINE m == CeilDiv(t - r, d)
             both == mine \o pads
  <2>1. rest \in Seq(Index) /\ Len(rest) = t
    BY <1>12 DEF Batch
  <2>2. m \in Nat /\ \A i \in Int : i <= m <=> (i - 1) * d < t - r
    <3>1. t - r \in Int /\ t - r > -d
      BY <1>0, <1>11
    <3> QED
      BY <1>0, <3>1, CeilOf
  <2>3. mine \in Batch /\ Len(mine) = m /\ \A i \in 1 .. m : mine[i] = rest[r + 1 + (i - 1) * d]
    <3>1. /\ Every(rest, r, d) \in Seq(Index)
          /\ Len(Every(rest, r, d)) = CeilDiv(Len(rest) - r, d)
          /\ \A i \in 1 .. CeilDiv(Len(rest) - r, d) :
                Every(rest, r, d)[i] = rest[r + 1 + (i - 1) * d]
      BY <1>0, <2>1, EveryAt
    <3> QED
      BY <2>1, <3>1 DEF Batch
  <2>4. m <= g
    <3> SUFFICES ASSUME g + 1 <= m PROVE FALSE
      BY <1>4, <2>2
    <3>1. ((g + 1) - 1) * d < t - r
      BY <1>4, <2>2
    <3>2. ((g + 1) - 1) * d = u
      BY <1>0, <1>4
    <3> HIDE DEF m
    <3> QED
      BY <1>0, <1>11, <3>1, <3>2
  <2> HIDE DEF m, mine
  <2>5. pads \in Batch /\ Len(pads) = g - m /\ \A i \in 1 .. g - m : pads[i] = Pad
    <3>1. g - m \in Nat /\ \A i \in 1 .. g - m : pad(i) \in Index
      BY <1>4, <2>2, <2>4 DEF Index
    <3>2. pads = [i \in 1 .. g - m |-> pad(i)]
      BY <2>3
    <3>3. pads \in Seq(Index)
      <4> HIDE DEF pad, pads
      <4> QED
        BY <3>1, <3>2, IsASeq
    <3>4. DOMAIN pads = 1 .. g - m /\ \A i \in 1 .. g - m : pads[i] = Pad
      BY <3>2
    <3> HIDE DEF pads
    <3>5. DOMAIN pads = 1 .. Len(pads) /\ Len(pads) \in Nat
      BY <3>3, LenProperties
    <3>6. Len(pads) = g - m
      BY <3>1, <3>4, <3>5
    <3> QED
      BY <3>3, <3>4, <3>6 DEF Batch
  <2> HIDE DEF pads
  <2>6. /\ both \in Batch /\ Len(both) = g
        /\ \A i \in 1 .. g : both[i] = IF i <= m THEN mine[i] ELSE pads[i - m]
    <3>1. /\ both \in Seq(Index) /\ Len(both) = Len(mine) + Len(pads)
          /\ \A i \in 1 .. Len(mine) + Len(pads) :
                both[i] = IF i <= Len(mine) THEN mine[i] ELSE pads[i - Len(mine)]
      BY <2>3, <2>5, ConcatProperties DEF Batch
    <3>2. Len(mine) + Len(pads) = g
      BY <1>4, <2>2, <2>3, <2>5
    <3> HIDE DEF both
    <3> QED
      BY <2>3, <3>1, <3>2 DEF Batch
  <2> HIDE DEF both
  <2>7. q + 1 \in 1 .. y /\ (q + 1) - 1 = q
    BY <1>11, <1>15
  <2>8. ASSUME NEW i \in 1 .. g
        PROVE  both[i] = SampleOf(c, d, r, u * (j + ((q + 1) - 1)), i)
    <3> DEFINE w == q * u
               b == (i - 1) * d
               x == w + (r + 1 + b)
    <3>1. /\ x \in Nat /\ b \in Nat /\ w \in Nat
          /\ SampleOf(c, d, r, u * (j + ((q + 1) - 1)), i)
               = IF x <= total - o THEN Perm(total, epoch, o + x) ELSE Pad
      BY <1>13, <2>7
    <3>2. total - o = w + t
      BY <1>7, <1>11
    <3>3. i <= m <=> b < t - r
      BY <1>4, <2>2
    <3> HIDE DEF w, b
    <3>4. CASE i <= m
      <4>1. r + 1 + b \in 1 .. t /\ x <= total - o
        BY <1>0, <1>11, <3>1, <3>2, <3>3, <3>4
      <4>2. x \in 1 .. total - o
        BY <1>0, <1>11, <3>1, <3>2, <4>1
      <4>3. both[i] = order[x]
        <5>1. i \in 1 .. m
          BY <2>2, <3>4
        <5>2. both[i] = rest[r + 1 + b]
          BY <2>3, <2>6, <3>4, <5>1 DEF b
        <5> QED
          BY <1>12, <4>1, <5>2 DEF w
      <4> HIDE DEF x
      <4> QED
        BY <1>7, <3>1, <4>1, <4>2, <4>3
    <3>5. CASE ~(i <= m)
      <4>1. ~(x <= total - o)
        BY <1>0, <1>11, <3>1, <3>2, <3>3, <3>5
      <4>2. i - m \in 1 .. g - m
        BY <1>4, <2>2, <2>4, <3>5
      <4> HIDE DEF x
      <4> QED
        BY <2>5, <2>6, <3>1, <3>5, <4>1, <4>2
    <3> QED
      BY <3>4, <3>5
  <2>9. BatchSize(c, d, r, u * (j + ((q + 1) - 1))) = g
    <3>1. 1 \in 1 .. g
      BY <1>4
    <3> QED
      BY <1>13, <2>7, <3>1
  <2>10. both = BatchOf(c, d, r, u * (j + ((q + 1) - 1)))
    BY <2>6, <2>8, <2>9, IsBatch
  <2> QED
    BY <2>6, <2>10 DEF both
<1>16. q <= y /\ y \in Nat
  BY <1>9, <1>11
<1>17. /\ full \in Seq(Batch) /\ Len(full) = q
       /\ \A k \in 1 .. q : full[k] = batch(k)
  <2> HIDE DEF e, batch
  <2>1. full \in Seq(Batch)
    BY <1>11, <1>14, <1>16, IsASeq
  <2>2. DOMAIN full = 1 .. q /\ DOMAIN full = 1 .. Len(full) /\ Len(full) \in Nat
    BY <2>1, LenProperties
  <2>3. Len(full) = q
    <3> HIDE DEF full
    <3> QED
      BY <1>11, <2>2
  <2> QED
    BY <1>14, <1>16, <2>1, <2>3
<1>18. rest # <<>> <=> t > 0
  <2>1. rest = <<>> <=> Len(rest) = 0
    BY <1>12, EmptySeq DEF Batch
  <2>2. Len(rest) = t
    BY <1>12
  <2> QED
    BY <1>11, <2>1, <2>2
<1> HIDE DEF full, mine, pads, batch
<1>19. /\ pass \in Seq(Batch) /\ Len(pass) = y
       /\ \A k \in 1 .. y : pass[k] = batch(k)
  <2>1. CASE t > 0 /\ ~c.drop
    <3>1. pass = Append(full, mine \o pads) /\ y = q + 1
      BY <1>9, <1>18, <2>1
    <3> HIDE DEF pass
    <3>2. pass \in Seq(Batch) /\ Len(pass) = q + 1 /\ pass[q + 1] = mine \o pads
          /\ \A k \in 1 .. q : pass[k] = full[k]
      BY <1>15, <1>17, <2>1, <3>1, AppendProperties
    <3>3. \A k \in 1 .. q + 1 : pass[k] = batch(k)
      <4> TAKE k \in 1 .. q + 1
      <4>1. CASE k = q + 1
        BY <1>15, <2>1, <3>1, <3>2, <4>1
      <4>2. CASE k # q + 1
        <5>1. k \in 1 .. q
          BY <1>11, <4>2
        <5> QED
          BY <1>17, <3>2, <5>1
      <4> QED
        BY <4>1, <4>2
    <3> QED
      BY <3>1, <3>2, <3>3
  <2>2. CASE ~(t > 0 /\ ~c.drop)
    <3>1. pass = full /\ y = q
      BY <1>9, <1>18, <2>2
    <3> HIDE DEF pass
    <3> QED
      BY <1>17, <3>1
  <2> QED
    BY <2>1, <2>2
<1> HIDE DEF pass
<1> QED
  BY <1>1, <1>3, <1>19 DEF PassIs, y, batch

\* Blocks of m out of w * m are w.
LEMMA WholeBlocks ==
    ASSUME NEW w \in Nat, NEW m \in Nat \ {0}, NEW x \in 0 .. m - 1
    PROVE  (w * m + x) \div m = w
  BY Quotient

LEMMA ShardedPass ==
    ASSUME OrdersAreIndices, NEW c \in Configs, NEW d \in Sizes(c), NEW r \in Ranks(d),
           NEW j \in Nat, c.kind = "cyclic", c.sharding
    PROVE  PassIs(c, d, r, j)
<1> DEFINE m == c.mbs
           u == m * d
           n == Units(c, d)
           epoch == j \div n
           h == j % n
           bucket == n * m
           a == h * m
           part == From(Permuted(bucket, epoch), a)
           f(i) == r * bucket + part[i]
           mine == [i \in 1 .. Len(part) |-> f(i)]
           y == Yields(c, d, j)
           pass == Blocks(mine, m)
           batch(k) == BatchOf(c, d, r, u * (j + (k - 1)))
<1>0. m \in Nat \ {0} /\ d \in Nat \ {0} /\ r \in Nat /\ u \in Nat \ {0} /\ n \in Nat \ {0}
  BY Configuration, Geometry DEF Ranks
<1>1. u = Unit(c, d) /\ n = c.total \div u /\ Bucket(c, d) = bucket
  BY DEF Unit, Units, Bucket
<1>2. /\ (u * j) \div Active(c, d) = epoch /\ (u * j) % Active(c, d) = u * h
      /\ epoch \in Nat /\ h \in 0 .. n - 1 /\ h \in Nat /\ y = n - h
  BY <1>1, PassStart
<1>3. \A x \in Nat : (u * x) \div d = x * m
  <2> TAKE x \in Nat
  <2>1. u * x = (x * m) * d /\ x * m \in Nat
    BY <1>0
  <2> QED
    BY <1>0, <2>1, ExactDivision
<1>4. Pass(c, d, r, u * j) = pass
  <2>1. (u * h) \div d = a
    BY <1>2, <1>3
  <2>2. (c.total \div (c.mbs * d)) * c.mbs = bucket
    BY <1>1
  <2> QED
    BY <1>2, <2>1, <2>2 DEF Pass, RandomPass
<1> HIDE DEF u, n, epoch, h, y
<1>5. bucket \in Nat /\ a \in 0 .. bucket /\ bucket - a = y * m /\ y \in Nat /\ a \in Nat
  <2>1. h \in Nat /\ h <= n /\ y \in Nat
    BY <1>0, <1>2
  <2>2. h * m <= n * m /\ n * m \in Nat /\ h * m \in Nat
    BY <1>0, <2>1, Products
  <2>3. y * m = n * m - h * m
    <3>1. (n - h) * m = n * m - h * m
      BY <1>0, <2>1
    <3> QED
      BY <1>2, <3>1
  <2> QED
    BY <2>1, <2>2, <2>3
<1> HIDE DEF a, bucket
<1>6. /\ part \in Seq(Nat) /\ Len(part) = y * m
      /\ \A i \in 1 .. y * m : part[i] = Perm(bucket, epoch, a + i)
  <2>1. part \in Seq(Nat) /\ Len(part) = bucket - a
        /\ \A i \in 1 .. bucket - a : part[i] = Perm(bucket, epoch, a + i)
    BY <1>2, <1>5, OrderAt
  <2> HIDE DEF part
  <2> QED
    BY <1>5, <2>1
<1> HIDE DEF part
<1>7. /\ mine \in Seq(Index) /\ Len(mine) = y * m
      /\ \A i \in 1 .. y * m : mine[i] = r * bucket + Perm(bucket, epoch, a + i)
  <2>1. y * m \in Nat /\ r * bucket \in Nat
    BY <1>0, <1>5, Products
  <2>2. \A i \in 1 .. Len(part) : f(i) \in Index
    <3> TAKE i \in 1 .. Len(part)
    <3>1. part[i] \in Nat
      BY <1>6, ElementOfSeq
    <3> QED
      BY <2>1, <3>1 DEF Index
  <2>3. DOMAIN mine = 1 .. y * m /\ \A i \in 1 .. y * m : mine[i] = f(i)
    BY <1>6
  <2>4. mine \in Seq(Index)
    <3> DEFINE l == Len(part)
    <3>1. l \in Nat /\ mine = [i \in 1 .. l |-> f(i)] /\ \A i \in 1 .. l : f(i) \in Index
      BY <1>6, <2>1, <2>2
    <3> HIDE DEF f, mine, l
    <3>2. [i \in 1 .. l |-> f(i)] \in Seq(Index)
      BY <3>1, IsASeq
    <3> QED
      BY <3>1, <3>2
  <2>5. Len(mine) = y * m
    <3> HIDE DEF mine
    <3>1. DOMAIN mine = 1 .. Len(mine) /\ Len(mine) \in Nat
      BY <2>4, LenProperties
    <3> QED
      BY <2>1, <2>3, <3>1
  <2> HIDE DEF mine
  <2> QED
    BY <1>6, <2>3, <2>4, <2>5
<1> HIDE DEF mine
<1>8. CutInto(Index, mine, m) /\ Len(mine) \div m = y
  <2>1. (y * m + 0) \div m = y /\ y * m + 0 = y * m
    <3>1. (y * m) \div m = y /\ y * m \in Nat
      BY <1>0, <1>5, ExactDivision
    <3> QED
      BY <3>1
  <2>2. CutInto(Index, mine, m)
    BY <1>0, <1>7, BlockAt
  <2>3. Len(mine) \div m = y
    BY <1>7, <2>1
  <2> QED
    BY <2>2, <2>3
<1>9. /\ pass \in Seq(Batch) /\ Len(pass) = y
      /\ \A k \in 1 .. y :
            /\ pass[k] \in Batch /\ Len(pass[k]) = m
            /\ \A i \in 1 .. m : pass[k][i] = mine[(k - 1) * m + i]
  BY <1>8 DEF CutInto, Batch
<1> HIDE DEF pass
<1>10. ASSUME NEW k \in 1 .. y
       PROVE  pass[k] = batch(k)
  <2> DEFINE p == u * (j + (k - 1))
             b == (k - 1) * m
             z == h + (k - 1)
  <2>1. p \div Active(c, d) = epoch /\ p % Active(c, d) = u * h + (k - 1) * u
    BY <1>1, InEpoch DEF n, epoch, y, h
  <2>2. k \in Nat \ {0} /\ k <= y
    BY <1>5
  <2>3. u * h + (k - 1) * u = u * z /\ z \in Nat
    <3>1. u * z = u * h + (k - 1) * u
      BY <1>0, <1>2, <2>2, UnitAt
    <3> QED
      BY <1>2, <2>2, <3>1
  <2>4. (u * z) \div d = z * m
    BY <1>3, <2>3
  <2>5. z * m = a + b /\ b \in Nat /\ b + m <= y * m
    <3>1. z * m = h * m + (k - 1) * m
      BY <1>0, <1>2, <2>2
    <3>2. b \in Nat /\ k * m = b + m
      BY <1>0, <2>2, UnitAt
    <3>3. k * m <= y * m
      BY <1>0, <1>5, <2>2, Products
    <3> QED
      BY <3>1, <3>2, <3>3 DEF a
  <2>6. (p % Active(c, d)) \div d = a + b
    BY <2>1, <2>3, <2>4, <2>5
  <2>7. BatchSize(c, d, r, p) = m
    BY DEF BatchSize
  <2> HIDE DEF b, p
  <2>8. ASSUME NEW i \in 1 .. m
        PROVE  pass[k][i] = SampleOf(c, d, r, p, i)
    <3>1. SampleOf(c, d, r, p, i) = r * bucket + Perm(bucket, epoch, (a + b) + i)
      BY <1>1, <2>1, <2>6 DEF SampleOf, p
    <3>2. b + i \in 1 .. y * m /\ (a + b) + i = a + (b + i)
      <4>1. y * m \in Nat
        BY <1>0, <1>5
      <4> QED
        BY <1>0, <1>5, <2>5, <4>1
    <3>3. pass[k][i] = mine[b + i]
      BY <1>9 DEF b
    <3> QED
      BY <1>7, <3>1, <3>2, <3>3
  <2>9. pass[k] \in Batch /\ Len(pass[k]) = BatchSize(c, d, r, p)
    BY <1>9, <2>7
  <2>10. pass[k] = BatchOf(c, d, r, p)
    BY <2>7, <2>8, <2>9, IsBatch
  <2> QED
    BY <2>10 DEF p
<1> HIDE DEF batch
<1> QED
  BY <1>1, <1>4, <1>9, <1>10 DEF PassIs, y, batch

\* What a rank takes out of what is left of an epoch that is not sharded, remainder included.
LEMMA MineOfRest ==
    ASSUME NEW y \in Nat, NEW m \in Nat \ {0}, NEW d \in Nat \ {0}, NEW r \in 0 .. d - 1,
           NEW x \in Nat, x <= (m - 1) * d
    PROVE  /\ CeilDiv((y * (m * d) + x) - r, d) \in Nat
           /\ CeilDiv((y * (m * d) + x) - r, d) \div m = y
<1> DEFINE l == y * (m * d) + x
           z == CeilDiv(l - r, d)
           w == y * m
<1>1. w \in Nat /\ w * d = y * (m * d) /\ w * d \in Nat
  OBVIOUS
<1>2. l = w * d + x /\ l \in Nat /\ l - r > -d /\ l - r \in Int
  BY <1>1
<1>3. z \in Nat /\ \A i \in Int : i <= z <=> (i - 1) * d < l - r
  <2> HIDE DEF l
  <2> QED
    BY <1>2, CeilOf
<1>4. (w - 1) * d = w * d - d /\ ((w + m) - 1) * d = w * d + (m - 1) * d
      /\ (m - 1) * d \in Nat
  <2>1. (w - 1) * d = w * d - d
    BY <1>1
  <2>2. (w + (m - 1)) * d = w * d + (m - 1) * d
    BY <1>1
  <2>3. (w + m) - 1 = w + (m - 1) /\ (m - 1) * d \in Nat
    BY <1>1
  <2> QED
    BY <2>1, <2>2, <2>3
<1> HIDE DEF l, z, w
<1>5. w <= z /\ ~(w + m <= z)
  <2> DEFINE v == w * d
             t == (m - 1) * d
  <2>1. v \in Nat /\ t \in Nat /\ l = v + x /\ x <= t
    BY <1>1, <1>2, <1>4
  <2>2. (w - 1) * d = v - d /\ ((w + m) - 1) * d = v + t
    BY <1>4
  <2> HIDE DEF v, t
  <2>3. (w - 1) * d < l - r /\ ~(((w + m) - 1) * d < l - r)
    BY <2>1, <2>2
  <2>4. w \in Int /\ w + m \in Int
    BY <1>1
  <2> QED
    BY <1>3, <2>3, <2>4
<1>6. z - w \in 0 .. m - 1 /\ z = w + (z - w)
  BY <1>1, <1>3, <1>5
<1> DEFINE s == z - w
<1>7. (y * m + s) \div m = y
  <2>1. s \in 0 .. m - 1
    BY <1>6
  <2> HIDE DEF s
  <2> QED
    BY <2>1, WholeBlocks
<1>8. z = y * m + s
  BY <1>6 DEF w
<1> QED
  BY <1>3, <1>7, <1>8 DEF z, l

\* The indices that are shuffled are the epoch and less than a microbatch of a rank more.
LEMMA ShuffledRest ==
    ASSUME NEW c \in Configs, NEW d \in Sizes(c), c.kind = "cyclic", ~c.sharding,
           RanksAlike(c)
    PROVE  \E x \in Nat : /\ x <= (c.mbs - 1) * d
                          /\ Shuffled(c) = Units(c, d) * (c.mbs * d) + x
<1> DEFINE m == c.mbs
           u == m * d
           n == c.total \div u
           t == c.total % u
           x == (t \div m) * m
<1>1. m \in Nat \ {0} /\ d \in Nat \ {0} /\ u \in Nat \ {0} /\ c.total \in Nat
  BY Configuration
<1>2. n \in Nat /\ t \in Nat /\ c.total = u * n + t
  BY <1>1, Division
<1>3. Units(c, d) = n /\ Shuffled(c) = (c.total \div m) * m
  BY DEF Units, Unit, Shuffled
<1>4. x <= (m - 1) * d
  BY DEF RanksAlike
<1> HIDE DEF u, n, t
<1> DEFINE q == t \div m
           s == t % m
<1>5. q \in Nat /\ s \in 0 .. m - 1 /\ t = m * q + s
  <2> HIDE DEF m
  <2>1. q \in Nat /\ t = m * q + s
    BY <1>1, <1>2, Division
  <2>2. s \in 0 .. m - 1
    BY <1>1, <1>2
  <2> QED
    BY <2>1, <2>2
<1> HIDE DEF q, s
<1>6. c.total = (d * n + q) * m + s /\ d * n + q \in Nat
  <2>1. u * n = (d * n) * m
    BY <1>1, <1>2 DEF u
  <2>2. d * n \in Nat
    BY <1>1, <1>2
  <2>3. (d * n + q) * m = (d * n) * m + q * m /\ q * m = m * q
    BY <1>1, <1>5, <2>2
  <2>4. (d * n) * m \in Nat /\ m * q \in Nat
    BY <1>1, <1>5, <2>2
  <2> QED
    BY <1>2, <1>5, <2>1, <2>2, <2>3, <2>4
<1>7. ((d * n + q) * m + s) \div m = d * n + q
  <2> DEFINE g == d * n + q
  <2>1. g \in Nat
    BY <1>6
  <2> HIDE DEF g
  <2>2. (g * m + s) \div m = g
    BY <1>1, <1>5, <2>1, WholeBlocks
  <2> QED
    BY <2>2 DEF g
<1>8. (d * n + q) * m = n * u + q * m /\ q * m \in Nat
  <2>1. d * n \in Nat
    BY <1>1, <1>2
  <2>2. (d * n + q) * m = (d * n) * m + q * m
    BY <1>1, <1>5, <2>1
  <2>3. (d * n) * m = n * u
    BY <1>1, <1>2 DEF u
  <2> QED
    BY <1>1, <1>5, <2>2, <2>3
<1>9. Shuffled(c) = n * u + q * m
  BY <1>3, <1>6, <1>7, <1>8
<1>10. q * m <= (c.mbs - 1) * d
  BY <1>4 DEF q
<1> QED
  BY <1>3, <1>8, <1>9, <1>10 DEF u

LEMMA UnshardedPass ==
    ASSUME OrdersAreIndices, NEW c \in Configs, NEW d \in Sizes(c), NEW r \in Ranks(d),
           NEW j \in Nat, c.kind = "cyclic", ~c.sharding, RanksAlike(c)
    PROVE  PassIs(c, d, r, j)
<1> DEFINE m == c.mbs
           u == m * d
           n == Units(c, d)
           epoch == j \div n
           h == j % n
           o == u * h
           size == Shuffled(c)
           whole == From(Permuted(size, epoch), o)
           mine == Every(whole, r, d)
           y == Yields(c, d, j)
           pass == Blocks(mine, m)
           batch(k) == BatchOf(c, d, r, u * (j + (k - 1)))
<1>0. m \in Nat \ {0} /\ d \in Nat \ {0} /\ r \in 0 .. d - 1 /\ u \in Nat \ {0}
      /\ n \in Nat \ {0}
  BY Configuration, Geometry DEF Ranks
<1>1. u = Unit(c, d)
  BY DEF Unit
<1>2. /\ (u * j) \div Active(c, d) = epoch /\ (u * j) % Active(c, d) = o
      /\ epoch \in Nat /\ h \in 0 .. n - 1 /\ h \in Nat /\ y = n - h
  BY <1>1, PassStart
<1>3. size = (c.total \div c.mbs) * c.mbs
  BY DEF Shuffled
<1>4. Pass(c, d, r, u * j) = pass
  BY <1>2, <1>3 DEF Pass, RandomPass
<1>5. PICK x \in Nat : x <= (m - 1) * d /\ size = n * u + x
  BY ShuffledRest
<1> HIDE DEF n, epoch, h, y, size
<1>6. o \in 0 .. size /\ size \in Nat /\ size - o = y * u + x /\ y \in Nat /\ o \in Nat
  <2>1. h \in Nat /\ h <= n /\ y \in Nat
    BY <1>0, <1>2
  <2> HIDE DEF u
  <2>2. h * u <= n * u /\ n * u \in Nat /\ h * u \in Nat /\ h * u = o
    BY <1>0, <2>1, Products
  <2>3. y * u = n * u - h * u
    <3>1. (n - h) * u = n * u - h * u
      BY <1>0, <2>1
    <3> QED
      BY <1>2, <3>1
  <2> DEFINE v == n * u
             w == h * u
             z == y * u
  <2>4. w <= v /\ v \in Nat /\ w \in Nat /\ w = o /\ z = v - w /\ size = v + x
    BY <1>5, <2>2, <2>3
  <2> HIDE DEF v, w, z, o
  <2>5. o \in 0 .. size /\ size \in Nat /\ size - o = z + x
    BY <2>4
  <2> QED
    BY <2>1, <2>4, <2>5 DEF z
<1>7. /\ whole \in Seq(Index) /\ Len(whole) = size - o
      /\ \A i \in 1 .. size - o : whole[i] = Perm(size, epoch, o + i)
  <2> HIDE DEF o
  <2>1. whole \in Batch /\ Len(whole) = size - o
        /\ \A i \in 1 .. size - o : whole[i] = Perm(size, epoch, o + i)
    BY <1>2, <1>6, OrderAt
  <2> QED
    BY <2>1 DEF Batch
<1> DEFINE z == CeilDiv(Len(whole) - r, d)
<1>8. z \in Nat /\ z \div m = y
  <2>1. Len(whole) = y * (m * d) + x
    BY <1>6, <1>7
  <2>2. /\ CeilDiv((y * (m * d) + x) - r, d) \in Nat
        /\ CeilDiv((y * (m * d) + x) - r, d) \div m = y
    <3> HIDE DEF m, y, o, z, whole
    <3> QED
      BY <1>0, <1>5, <1>6, MineOfRest
  <2> QED
    BY <2>1, <2>2
<1> HIDE DEF o, whole
<1>9. /\ mine \in Seq(Index) /\ Len(mine) = z
      /\ \A i \in 1 .. z : mine[i] = whole[r + 1 + (i - 1) * d]
  BY <1>0, <1>7, EveryAt
<1>10. \A i \in Int : i <= z <=> (i - 1) * d < Len(whole) - r
  <2> DEFINE l == Len(whole) - r
  <2>1. l \in Int /\ l > -d
    <3>1. Len(whole) \in Nat
      BY <1>7, LenProperties
    <3> QED
      BY <1>0, <3>1
  <2> HIDE DEF l
  <2>2. \A i \in Int : i <= CeilDiv(l, d) <=> (i - 1) * d < l
    BY <1>0, <2>1, CeilOf
  <2> QED
    BY <2>2 DEF l
<1> HIDE DEF mine, z
<1>11. CutInto(Index, mine, m)
  BY <1>0, <1>9, BlockAt
<1>12. /\ pass \in Seq(Batch) /\ Len(pass) = y
       /\ \A k \in 1 .. y :
            /\ pass[k] \in Batch /\ Len(pass[k]) = m
            /\ \A i \in 1 .. m : pass[k][i] = mine[(k - 1) * m + i]
  BY <1>8, <1>9, <1>11 DEF CutInto, Batch
<1>13. y * m <= z
  <2>1. (z \div m) * m <= z
    BY <1>0, <1>8, Division
  <2> QED
    BY <1>8, <2>1
<1> HIDE DEF pass
<1>14. ASSUME NEW k \in 1 .. y
       PROVE  pass[k] = batch(k)
  <2> DEFINE p == u * (j + (k - 1))
             b == (k - 1) * m
             v == (k - 1) * u
  <2>1. p \div Active(c, d) = epoch /\ p % Active(c, d) = o + v
    BY <1>1, InEpoch DEF n, epoch, y, h, o
  <2>2. k \in Nat \ {0} /\ k <= y
    BY <1>6
  <2>3. b \in Nat /\ b + m <= z /\ v \in Nat /\ v = b * d
    <3>1. b \in Nat /\ k * m = b + m
      BY <1>0, <2>2, UnitAt
    <3>2. k * m <= y * m
      BY <1>0, <1>6, <2>2, Products
    <3>3. (k - 1) * (m * d) = ((k - 1) * m) * d
      BY <1>0, <2>2
    <3>4. v \in Nat
      <4> HIDE DEF u
      <4> QED
        BY <1>0, <2>2, UnitAt
    <3>5. y * m \in Nat
      BY <1>0, <1>6
    <3> HIDE DEF b
    <3> QED
      BY <1>0, <1>8, <1>13, <3>1, <3>2, <3>3, <3>4, <3>5 DEF b
  <2>4. BatchSize(c, d, r, p) = m
    BY DEF BatchSize
  <2> HIDE DEF b, p, v
  <2>5. ASSUME NEW i \in 1 .. m
        PROVE  pass[k][i] = SampleOf(c, d, r, p, i)
    <3> DEFINE w == (i - 1) * d
               place == (o + v) + (r + w)
               s == (b + i) - 1
    <3>1. SampleOf(c, d, r, p, i) = IF place < size THEN Perm(size, epoch, place + 1) ELSE Pad
      BY <2>1 DEF SampleOf, p, size
    <3>2. b + i \in 1 .. z /\ b + i \in Int
      BY <1>0, <1>8, <2>3
    <3>3. s * d = v + w /\ w \in Nat
      <4>1. s = b + (i - 1) /\ i - 1 \in Nat
        BY <1>0, <2>3
      <4>2. (b + (i - 1)) * d = b * d + (i - 1) * d
        BY <1>0, <2>3, <4>1
      <4>3. w \in Nat
        BY <1>0, <4>1, Products
      <4> QED
        BY <2>3, <4>1, <4>2, <4>3
    <3>4. s * d < Len(whole) - r
      BY <1>10, <3>2
    <3> HIDE DEF w, s
    <3>5. place < size /\ place + 1 = o + (r + 1 + (v + w)) /\ r + 1 + (v + w) \in 1 .. size - o
      <4> DEFINE l == size - o
                 sd == s * d
      <4>1. sd = v + w /\ sd < l - r /\ l \in Int /\ size = o + l
        BY <1>6, <1>7, <3>3, <3>4
      <4>2. r \in Nat /\ w \in Nat /\ v \in Nat /\ o \in Nat
        BY <1>0, <1>6, <2>3, <3>3
      <4> HIDE DEF l, sd
      <4>3. v + w < l - r
        BY <4>1
      <4> DEFINE vw == v + w
      <4>4. vw \in Nat /\ place = o + (r + vw)
        BY <4>2
      <4> HIDE DEF vw, place
      <4>5. place < size /\ place + 1 = o + (r + 1 + vw) /\ r + 1 + vw \in 1 .. l
        BY <4>1, <4>2, <4>3, <4>4 DEF vw
      <4> QED
        BY <4>5 DEF vw, l
    <3>6. pass[k][i] = whole[r + 1 + (v + w)]
      <4>1. pass[k][i] = mine[b + i]
        BY <1>12 DEF b
      <4>2. mine[b + i] = whole[r + 1 + s * d]
        BY <1>9, <3>2 DEF s
      <4> QED
        BY <3>3, <4>1, <4>2
    <3> HIDE DEF place
    <3> QED
      BY <1>7, <3>1, <3>5, <3>6
  <2>6. pass[k] \in Batch /\ Len(pass[k]) = BatchSize(c, d, r, p)
    BY <1>12, <2>4
  <2>7. pass[k] = BatchOf(c, d, r, p)
    BY <2>4, <2>5, <2>6, IsBatch
  <2> QED
    BY <2>7 DEF p
<1> HIDE DEF batch
<1> QED
  BY <1>1, <1>4, <1>12, <1>14 DEF PassIs, y, batch

\* A pass is made of the batches at its positions.
LEMMA PassesAre ==
    ASSUME OrdersAreIndices, NEW c \in Configs, RanksAlike(c), NEW d \in Sizes(c),
           NEW r \in Ranks(d), NEW j \in Nat
    PROVE  PassIs(c, d, r, j)
<1>1. c.kind \in {"single", "cyclic", "batch"}
  BY Configuration
<1> QED
  BY <1>1, SinglePass, BatchPass, ShardedPass, UnshardedPass


-----------------------------------------------------------------------------
(* What the loaders hold and what the steps are trained on. *)

\* After its first batch, a pass is what one that starts a unit later is.
LEMMA NextBatch ==
    ASSUME OrdersAreIndices, NEW c \in Configs, RanksAlike(c), NEW d \in Sizes(c),
           NEW r \in Ranks(d), NEW j \in Nat, Pass(c, d, r, Unit(c, d) * j) # <<>>
    PROVE  LET pass == Pass(c, d, r, Unit(c, d) * j)
           IN  /\ Head(pass) = BatchOf(c, d, r, Unit(c, d) * j)
               /\ Tail(pass) # <<>> => Tail(pass) = Pass(c, d, r, Unit(c, d) * (j + 1))
<1> DEFINE u == Unit(c, d)
           n == Units(c, d)
           y == Yields(c, d, j)
           pass == Pass(c, d, r, u * j)
           next == Pass(c, d, r, u * (j + 1))
           batch(k) == BatchOf(c, d, r, k)
<1>1. /\ pass \in Seq(Batch) /\ Len(pass) = y
      /\ \A k \in 1 .. y : pass[k] = batch(u * (j + (k - 1)))
  BY PassesAre DEF PassIs
<1>2. /\ next \in Seq(Batch) /\ Len(next) = Yields(c, d, j + 1)
      /\ \A k \in 1 .. Yields(c, d, j + 1) : next[k] = batch(u * ((j + 1) + (k - 1)))
  BY PassesAre DEF PassIs
<1>3. u \in Nat \ {0} /\ n \in Nat /\ (c.kind # "single" => n \in Nat \ {0})
  BY Geometry
<1>4. y \in Nat /\ (y > 1 => Yields(c, d, j + 1) = y - 1)
  <2>1. CASE c.kind = "single"
    BY <1>3, <2>1 DEF Yields
  <2>2. CASE c.kind # "single"
    <3>1. y = n - (j % n) /\ Yields(c, d, j + 1) = n - ((j + 1) % n) /\ n \in Nat \ {0}
      BY <1>3, <2>2 DEF Yields
    <3>2. j % n \in 0 .. n - 1
      BY <3>1, UnitsOfEpoch
    <3>3. (j % n) + 1 < n => (j + 1) % n = (j % n) + 1
      BY <3>1, SameEpoch
    <3> DEFINE t == j % n
               v == (j + 1) % n
    <3> HIDE DEF t, v, n
    <3>4. y = n - t /\ Yields(c, d, j + 1) = n - v /\ t \in 0 .. n - 1
          /\ (t + 1 < n => v = t + 1) /\ n \in Nat \ {0}
      BY <3>1, <3>2, <3>3 DEF t, v
    <3> QED
      BY <3>4
  <2> QED
    BY <2>1, <2>2
<1> HIDE DEF u, y, batch, next
<1>5. pass # <<>>
  BY DEF u
<1> HIDE DEF pass
<1>6. y \in Nat \ {0}
  BY <1>1, <1>5, EmptySeq
<1>7. Head(pass) = batch(u * j)
  <2>1. Head(pass) = pass[1]
    BY <1>5, <1>1
  <2>2. pass[1] = batch(u * (j + (1 - 1))) /\ j + (1 - 1) = j
    BY <1>1, <1>6
  <2> QED
    BY <2>1, <2>2
<1>8. ASSUME Tail(pass) # <<>>
      PROVE  Tail(pass) = next
  <2>1. /\ Tail(pass) \in Seq(Batch) /\ Len(Tail(pass)) = y - 1
        /\ \A i \in 1 .. Len(Tail(pass)) : Tail(pass)[i] = pass[i + 1]
    BY <1>1, <1>5, HeadTailProperties
  <2>2. y - 1 \in Nat \ {0}
    BY <1>8, <2>1, EmptySeq
  <2>3. Len(next) = y - 1
    BY <1>2, <1>4, <2>2
  <2>4. ASSUME NEW i \in 1 .. y - 1
        PROVE  Tail(pass)[i] = next[i]
    <3>1. i + 1 \in 1 .. y /\ i \in Int
      BY <1>6
    <3>2. Tail(pass)[i] = batch(u * (j + ((i + 1) - 1)))
      BY <1>1, <2>1, <3>1
    <3>3. next[i] = batch(u * ((j + 1) + (i - 1)))
      BY <1>2, <2>3
    <3>4. j + ((i + 1) - 1) = (j + 1) + (i - 1)
      BY <3>1
    <3> QED
      BY <3>2, <3>3, <3>4
  <2>5. \A i \in 1 .. Len(Tail(pass)) : Tail(pass)[i] = next[i]
    BY <2>1, <2>4
  <2> QED
    BY <1>2, <2>1, <2>3, <2>5, SeqEqual
<1> QED
  BY <1>7, <1>8 DEF batch, pass, next, u

\* A position is a whole number of batches of all ranks.
LEMMA PositionInUnits ==
    ASSUME NEW c \in Configs, NEW d \in Sizes(c), NEW s \in Nat
    PROVE  s * Draws(c, d) \in Nat /\ s * c.gbs = Unit(c, d) * (s * Draws(c, d))
<1> DEFINE u == Unit(c, d)
           n == Draws(c, d)
<1>1. u \in Nat \ {0} /\ n \in Nat \ {0} /\ u * n = c.gbs
  BY UnitTimesDraws
<1> HIDE DEF u, n
<1>2. s * n \in Nat /\ u * (s * n) = s * (u * n)
  BY <1>1
<1> QED
  BY <1>1, <1>2 DEF u, n

LEMMA StepIsTrained ==
    ASSUME NEW c, NEW d \in Nat \ {0}, NEW s
    PROVE  StepOf(c, d, s) # NotTrained
<1>1. 0 \in DOMAIN StepOf(c, d, s)
  BY DEF StepOf, Ranks
<1>2. DOMAIN <<>> = {}
  OBVIOUS
<1> QED
  BY <1>1, <1>2 DEF NotTrained

LEMMA BatchesInvInit == Init => BatchesInv
<1> SUFFICES ASSUME Init, RanksAlike(config) PROVE LoadersInv /\ TrainedInv
  BY DEF BatchesInv
<1> USE DEF Init
<1>1. config \in Configs /\ dp \in Sizes(config)
  OBVIOUS
<1>2. TrainIters(config) \in Nat /\ config.gbs \in Nat \ {0}
  BY <1>1, TrainItersType, Configuration
<1>3. LoadersInv
  <2>1. Len(<<>>) = 0
    OBVIOUS
  <2> QED
    BY <2>1 DEF LoadersInv
<1>4. TrainedInv
  <2>1. \A s \in 0 .. TrainIters(config) - 1 : trained[s] = NotTrained /\ ~(s * config.gbs < 0)
    BY <1>2, Products
  <2> QED
    BY <2>1 DEF TrainedInv, IsTrained
<1> QED
  BY <1>3, <1>4

LEMMA LoadersInvNext ==
    ASSUME OrdersAreIndices, SamplerInv, RanksAlike(config), LoadersInv, [Next]_vars
    PROVE  LoadersInv'
<1> DEFINE u == Unit(config, dp)
           n == Draws(config, dp)
           batch(r, p) == BatchOf(config, dp, r, p)
<1>1. config \in Configs /\ dp \in Sizes(config)
  BY DEF SamplerInv, TypeOK
<1>2. /\ consumed \in [Ranks(dp) -> Nat] /\ begun \in [Ranks(dp) -> BOOLEAN]
      /\ pending \in [Ranks(dp) -> Seq(Batch)] /\ queue \in [Ranks(dp) -> Seq(Batch)]
      /\ {position, saved} \subseteq Positions
  BY DEF SamplerInv, TypeOK, Batch, Positions
<1>3. u \in Nat \ {0} /\ n \in Nat \ {0} /\ u * n = config.gbs
  BY <1>1, UnitTimesDraws
<1>4. PICK a \in Nat : position = u * a
  <2>1. PICK s \in 0 .. TrainIters(config) : position = s * config.gbs
    BY <1>2 DEF Positions
  <2>2. s \in Nat
    BY <1>1, TrainItersType
  <2> QED
    BY <1>1, <2>1, <2>2, PositionInUnits
<1>5. \A r \in Ranks(dp) : /\ Len(queue[r]) \in Nat /\ a + Len(queue[r]) \in Nat
                           /\ Ahead(r) = u * (a + Len(queue[r]))
  <2> TAKE r \in Ranks(dp)
  <2>1. Len(queue[r]) \in Nat
    BY <1>2, LenProperties
  <2>2. u * (a + Len(queue[r])) = u * a + u * Len(queue[r])
    BY <1>3, <2>1
  <2> QED
    BY <1>4, <2>1, <2>2 DEF Ahead
<1>6. \A r \in Ranks(dp) :
        /\ ~begun[r] => queue[r] = <<>> /\ pending[r] = <<>> /\ consumed[r] = position
        /\ pending[r] # <<>> => pending[r] = Pass(config, dp, r, Ahead(r))
        /\ \A k \in 1 .. Len(queue[r]) : queue[r][k] = batch(r, position + u * (k - 1))
  BY DEF LoadersInv
<1> HIDE DEF u, n, batch
<1>7. ASSUME NEW r \in Ranks(dp), BeginPass(r)
      PROVE  LoadersInv'
  <2>1. consumed[r] = Ahead(r)
    <3>1. CASE config.kind = "single"
      <4>1. queue[r] = <<>> /\ consumed[r] = position /\ Len(<<>>) = 0
        BY <1>6, <1>7, <3>1 DEF BeginPass
      <4>2. consumed[r] = u * (a + 0) /\ Ahead(r) = u * (a + 0)
        BY <1>4, <1>5, <4>1
      <4> QED
        BY <4>2
    <3>2. CASE config.kind # "single"
      BY <3>2 DEF SamplerInv, SamplerTracksTrainer, Ahead
    <3> QED
      BY <3>1, <3>2
  <2>2. /\ \A q \in Ranks(dp) : ~begun'[q] => ~begun[q] /\ q # r
        /\ \A q \in Ranks(dp) : q # r => pending'[q] = pending[q]
        /\ pending'[r] = Pass(config, dp, r, Ahead(r))
        /\ UNCHANGED <<config, dp, consumed, queue, position>>
    BY <1>2, <1>7, <2>1 DEF BeginPass
  <2>3. \A q \in Ranks(dp) : Ahead(q)' = Ahead(q)
    BY <2>2 DEF Ahead
  <2> QED
    BY <1>6, <2>2, <2>3 DEF LoadersInv, u, batch
<1>8. ASSUME NEW r \in Ranks(dp), Draw(r)
      PROVE  LoadersInv'
  <2> DEFINE l == Len(queue[r])
             next == Append(queue[r], Head(pending[r]))
  <2>1. pending[r] # <<>> /\ pending[r] = Pass(config, dp, r, u * (a + l)) /\ l \in Nat
    BY <1>5, <1>6, <1>8 DEF Draw
  <2>2. /\ Head(pending[r]) = batch(r, u * (a + l))
        /\ Tail(pending[r]) # <<>> =>
              Tail(pending[r]) = Pass(config, dp, r, u * ((a + l) + 1))
    BY <1>1, <1>5, <2>1, NextBatch DEF u, batch
  <2>3. Head(pending[r]) \in Batch
    BY <1>2, <2>1, HeadTailProperties
  <2>4. /\ Len(next) = l + 1 /\ next[l + 1] = Head(pending[r])
        /\ \A k \in 1 .. l : next[k] = queue[r][k]
    BY <1>2, <2>3, AppendProperties
  <2>5. /\ \A q \in Ranks(dp) : q # r => /\ pending'[q] = pending[q] /\ queue'[q] = queue[q]
                                         /\ consumed'[q] = consumed[q]
        /\ pending'[r] = Tail(pending[r]) /\ queue'[r] = next
        /\ UNCHANGED <<config, dp, begun, position>>
    BY <1>2, <1>8 DEF Draw
  <2>6. \A q \in Ranks(dp) : q # r => Ahead(q)' = Ahead(q)
    BY <2>5 DEF Ahead
  <2>7. Ahead(r)' = u * ((a + l) + 1)
    <3>1. Ahead(r)' = position + u * (l + 1)
      BY <2>4, <2>5 DEF Ahead, u
    <3>2. u * ((a + l) + 1) = u * a + u * (l + 1)
      <4>1. l \in Nat
        BY <2>1
      <4> HIDE DEF l
      <4>2. (a + l) + 1 = a + (l + 1) /\ u * (a + (l + 1)) = u * a + u * (l + 1)
        BY <1>3, <4>1
      <4> QED
        BY <4>2
    <3> QED
      BY <1>4, <3>1, <3>2
  <2> HIDE DEF l, next
  <2>8. \A k \in 1 .. Len(queue'[r]) : queue'[r][k] = batch(r, position + u * (k - 1))
    <3> TAKE k \in 1 .. Len(queue'[r])
    <3>1. k \in 1 .. l \/ k = l + 1
      BY <2>1, <2>4, <2>5
    <3>2. CASE k \in 1 .. l
      BY <1>6, <2>4, <2>5, <3>2 DEF l
    <3>3. CASE k = l + 1
      <4>1. position + u * (k - 1) = u * (a + l)
        <5>1. u * (a + l) = u * a + u * l /\ k - 1 = l
          BY <1>3, <2>1, <3>3
        <5> QED
          BY <1>4, <5>1
      <4> QED
        BY <2>2, <2>4, <2>5, <3>3, <4>1
    <3> QED
      BY <3>1, <3>2, <3>3
  <2>9. ASSUME NEW q \in Ranks(dp)
        PROVE  /\ ~begun'[q] => queue'[q] = <<>> /\ pending'[q] = <<>> /\ consumed'[q] = position'
               /\ pending'[q] # <<>> => pending'[q] = Pass(config, dp, q, Ahead(q)')
               /\ \A k \in 1 .. Len(queue'[q]) :
                     queue'[q][k] = batch(q, position + u * (k - 1))
    <3>1. CASE q = r
      <4>1. begun'[q]
        BY <1>2, <1>6, <2>1, <2>5, <3>1
      <4>2. pending'[q] # <<>> => pending'[q] = Pass(config, dp, q, Ahead(q)')
        BY <2>2, <2>5, <2>7, <3>1
      <4> QED
        BY <2>8, <3>1, <4>1, <4>2
    <3>2. CASE q # r
      BY <1>6, <2>5, <2>6, <3>2
    <3> QED
      BY <3>1, <3>2
  <2> QED
    BY <2>5, <2>9 DEF LoadersInv, u, batch
<1>9. ASSUME TrainStep
      PROVE  LoadersInv'
  <2>1. /\ UNCHANGED <<config, dp, consumed, begun, pending>>
        /\ position' = position + u * n
        /\ \A r \in Ranks(dp) : queue'[r] = From(queue[r], n) /\ Len(queue[r]) >= n
    BY <1>3, <1>9 DEF TrainStep, n
  <2>2. ASSUME NEW r \in Ranks(dp)
        PROVE  /\ begun'[r]
               /\ Ahead(r)' = Ahead(r)
               /\ \A k \in 1 .. Len(queue'[r]) : queue'[r][k] = batch(r, position' + u * (k - 1))
    <3> DEFINE l == Len(queue[r])
    <3>1. l \in Nat /\ n \in 0 .. l /\ l >= n
      BY <1>3, <1>5, <2>1
    <3>2. /\ Len(queue'[r]) = l - n
          /\ \A k \in 1 .. l - n : queue'[r][k] = queue[r][n + k]
      <4>1. queue[r] \in Seq(Batch) /\ n \in 0 .. Len(queue[r])
        BY <1>2, <3>1
      <4>2. /\ Len(From(queue[r], n)) = Len(queue[r]) - n
            /\ \A k \in 1 .. Len(queue[r]) - n : From(queue[r], n)[k] = queue[r][n + k]
        BY <4>1, FromAt
      <4> QED
        BY <2>1, <4>2
    <3>3. begun'[r]
      <4>1. l # 0 /\ Len(<<>>) = 0
        BY <1>3, <3>1
      <4> QED
        BY <1>2, <1>6, <2>1, <4>1
    <3>4. Ahead(r)' = Ahead(r)
      <4>1. Ahead(r)' = (position + u * n) + u * (l - n) /\ Ahead(r) = position + u * l
        BY <2>1, <3>2 DEF Ahead, u
      <4> HIDE DEF l
      <4>2. u * (l - n) = u * l - u * n /\ u * l \in Nat /\ u * n \in Nat /\ u * a \in Nat
        BY <1>3, <3>1
      <4> QED
        BY <1>4, <4>1, <4>2
    <3>5. ASSUME NEW k \in 1 .. l - n
          PROVE  queue'[r][k] = batch(r, position' + u * (k - 1))
      <4>1. n + k \in 1 .. l
        BY <1>3, <3>1
      <4>2. queue'[r][k] = batch(r, position + u * ((n + k) - 1))
        BY <1>6, <3>2, <4>1
      <4>3. u * ((n + k) - 1) = u * n + u * (k - 1) /\ u * n \in Nat /\ u * (k - 1) \in Int
        BY <1>3
      <4>4. position + u * ((n + k) - 1) = position' + u * (k - 1)
        <5>1. u * a \in Nat
          BY <1>3
        <5> QED
          BY <1>4, <2>1, <4>3, <5>1
      <4> QED
        BY <4>2, <4>4
    <3> QED
      BY <3>2, <3>3, <3>4, <3>5
  <2> QED
    BY <1>6, <2>1, <2>2 DEF LoadersInv, u, batch
<1>10. ASSUME SaveCheckpoint
       PROVE  LoadersInv'
  BY <1>10 DEF SaveCheckpoint, sampler, LoadersInv, Ahead
<1>11. ASSUME NEW d \in Sizes(config), Restart(d)
       PROVE  LoadersInv'
  <2>1. /\ dp' = d /\ position' = saved
        /\ consumed' = [r \in Ranks(d) |-> saved] /\ queue' = [r \in Ranks(d) |-> <<>>]
        /\ pending' = [r \in Ranks(d) |-> <<>>]
    BY <1>11 DEF Restart, NewLoaders
  <2>2. Len(<<>>) = 0
    OBVIOUS
  <2> QED
    BY <2>1, <2>2 DEF LoadersInv
<1>12. CASE UNCHANGED vars
  BY <1>12 DEF vars, LoadersInv, Ahead
<1> QED
  BY <1>7, <1>8, <1>9, <1>10, <1>11, <1>12 DEF Next

LEMMA TrainedInvNext ==
    ASSUME SamplerInv, LoadersInv, TrainedInv, [Next]_vars
    PROVE  TrainedInv'
<1> DEFINE u == Unit(config, dp)
           n == Draws(config, dp)
           batch(r, p) == BatchOf(config, dp, r, p)
<1>1. config \in Configs /\ dp \in Sizes(config)
  BY DEF SamplerInv, TypeOK
<1>2. queue \in [Ranks(dp) -> Seq(Batch)] /\ {position, saved} \subseteq Positions
  BY DEF SamplerInv, TypeOK, Batch, Positions
<1>3. /\ TrainIters(config) \in Nat /\ config.gbs \in Nat \ {0} /\ dp \in Nat \ {0}
      /\ n \in Nat \ {0}
  BY <1>1, TrainItersType, Configuration, UnitTimesDraws
<1>4. ASSUME TrainStep
      PROVE  TrainedInv'
  <2>1. PICK s \in 0 .. TrainIters(config) : position = s * config.gbs
    BY <1>2 DEF Positions
  <2>2. CurrentStep = s
    <3>1. (s * config.gbs) \div config.gbs = s
      BY <1>3, ExactDivision
    <3> QED
      BY <2>1, <3>1 DEF CurrentStep
  <2>3. /\ s \in 0 .. TrainIters(config) - 1 /\ s \in Nat
        /\ position' = position + config.gbs /\ UNCHANGED <<config, saved>>
        /\ trained' = [trained EXCEPT ![s] = [r \in Ranks(dp) |-> SubSeq(queue[r], 1, n)]]
        /\ \A r \in Ranks(dp) : Len(queue[r]) >= n
    BY <1>3, <1>4, <2>2 DEF TrainStep
  <2>4. ASSUME NEW r \in Ranks(dp)
        PROVE  SubSeq(queue[r], 1, n)
                  = [k \in 1 .. n |-> batch(r, s * config.gbs + u * (k - 1))]
    <3> DEFINE b == SubSeq(queue[r], 1, n)
               e(k) == batch(r, s * config.gbs + u * (k - 1))
    <3>1. Len(queue[r]) \in Nat /\ n <= Len(queue[r])
      BY <1>2, <2>3, LenProperties
    <3>2. \A k \in 1 .. Len(queue[r]) : queue[r][k] = e(k)
      BY <2>1 DEF LoadersInv
    <3> HIDE DEF e, n
    <3>3. \A k \in 1 .. n : queue[r][k] \in Batch
      BY <1>2, <1>3, <3>1, ElementOfSeq
    <3>4. /\ b \in Seq(Batch) /\ Len(b) = n
          /\ \A k \in 1 .. n : b[k] = queue[r][k]
      <4>1. /\ b \in Seq(Batch) /\ Len(b) = IF 1 <= n THEN n - 1 + 1 ELSE 0
            /\ \A k \in 1 .. n - 1 + 1 : b[k] = queue[r][1 + k - 1]
        BY <1>3, <3>3, SubSeqProperties
      <4> QED
        BY <1>3, <4>1
    <3>5. b \in [1 .. n -> Batch]
      BY <3>4, LenProperties
    <3> HIDE DEF b
    <3>6. b = [k \in 1 .. n |-> b[k]] /\ \A k \in 1 .. n : b[k] = e(k)
      BY <1>3, <3>1, <3>2, <3>4, <3>5
    <3>7. b = [k \in 1 .. n |-> e(k)]
      BY <3>6
    <3> QED
      BY <3>7 DEF b, e
  <2>5. [r \in Ranks(dp) |-> SubSeq(queue[r], 1, n)] = StepOf(config, dp, s)
    BY <2>4 DEF StepOf
  <2>6. trained' = [trained EXCEPT ![s] = StepOf(config, dp, s)]
    BY <2>3, <2>5
  <2> HIDE DEF u, n, batch
  <2>7. DOMAIN trained = 0 .. TrainIters(config) - 1 /\ DOMAIN trained' = DOMAIN trained
    BY <2>6 DEF TrainedInv
  <2>8. trained'[s] = StepOf(config, dp, s) /\ \A t \in DOMAIN trained : t # s => trained'[t] = trained[t]
    BY <2>3, <2>6, <2>7
  <2>9. trained'[s] # NotTrained
    BY <1>3, <2>8, StepIsTrained
  <2>10. ASSUME NEW t \in DOMAIN trained, t * config.gbs < position' \/ t * config.gbs < saved
         PROVE  trained'[t] # NotTrained
    <3>1. t \in Nat
      BY <1>3, <2>7
    <3>2. CASE t = s
      BY <2>9, <3>2
    <3>3. CASE t # s
      <4>1. t * config.gbs < position \/ t * config.gbs < saved
        <5> DEFINE g == config.gbs
                   v == t * g
                   w == s * g
        <5>1. v \in Nat /\ w \in Nat /\ g \in Nat \ {0} /\ w = position
          BY <1>3, <2>1, <2>3, <3>1
        <5>2. s < t => w + g <= v
          <6> SUFFICES ASSUME s < t PROVE w + g <= v
            OBVIOUS
          <6>1. (s + 1) * g <= t * g
            BY <1>3, <2>3, <3>1, Products
          <6>2. (s + 1) * g = w + g
            BY <1>3, <2>3
          <6> QED
            BY <6>1, <6>2
        <5>3. t < s => v < w
          <6> SUFFICES ASSUME t < s PROVE v < w
            OBVIOUS
          <6>1. (t + 1) * g <= s * g
            BY <1>3, <2>3, <3>1, Products
          <6>2. (t + 1) * g = v + g
            BY <1>3, <3>1
          <6> QED
            BY <5>1, <6>1, <6>2
        <5>4. v < w + g \/ v < saved
          BY <2>3, <2>10, <5>1
        <5> HIDE DEF v, w, g
        <5>5. v < w \/ v < saved
          BY <3>1, <2>3, <3>3, <5>1, <5>2, <5>3, <5>4
        <5> QED
          BY <5>1, <5>5 DEF v, g
      <4>2. trained[t] # NotTrained
        BY <2>7, <4>1 DEF TrainedInv, IsTrained
      <4> QED
        BY <2>8, <3>3, <4>2
    <3> QED
      BY <3>2, <3>3
  <2>11. ASSUME NEW t \in DOMAIN trained, trained'[t] # NotTrained
         PROVE  \E d \in Sizes(config) : trained'[t] = StepOf(config, d, t)
    <3>1. CASE t = s
      BY <1>1, <2>8, <3>1
    <3>2. CASE t # s
      BY <2>8, <2>11, <3>2 DEF TrainedInv, IsTrained
    <3> QED
      BY <3>1, <3>2
  <2> QED
    BY <2>3, <2>7, <2>10, <2>11 DEF TrainedInv, IsTrained
<1>5. ASSUME SaveCheckpoint \/ \E d \in Sizes(config) : Restart(d)
      PROVE  TrainedInv'
  <2>1. UNCHANGED <<config, trained>> /\ {position', saved'} \subseteq {position, saved}
    BY <1>5 DEF SaveCheckpoint, Restart
  <2> QED
    BY <2>1 DEF TrainedInv, IsTrained
<1>6. ASSUME UNCHANGED <<config, position, saved, trained>>
      PROVE  TrainedInv'
  BY <1>6 DEF TrainedInv, IsTrained
<1> QED
  BY <1>4, <1>5, <1>6 DEF Next, BeginPass, Draw, vars

\* The loaders' batches and the trained ones are those at their positions, in every state.
LEMMA BatchesAlways ==
    ASSUME OrdersAreIndices
    PROVE  Spec => [](SamplerInv /\ BatchesInv)
<1>1. SamplerInv /\ BatchesInv /\ [Next]_vars => SamplerInv' /\ BatchesInv'
  <2> SUFFICES ASSUME SamplerInv, BatchesInv, [Next]_vars, RanksAlike(config)'
               PROVE  SamplerInv' /\ LoadersInv' /\ TrainedInv'
    BY SamplerInvNext DEF BatchesInv
  <2>1. config' = config
    BY DEF Next, BeginPass, Draw, TrainStep, SaveCheckpoint, Restart, vars
  <2>2. RanksAlike(config)
    BY <2>1
  <2> QED
    BY <2>2, SamplerInvNext, LoadersInvNext, TrainedInvNext DEF BatchesInv
<1> QED
  BY <1>1, SamplerInvInit, BatchesInvInit, PTL DEF Spec

-----------------------------------------------------------------------------
(* A sample of a step by its place in the order of the data set. *)

PartSize(c, d) == IF c.kind = "batch" THEN c.gbs \div d ELSE c.mbs
AllSlots(c, d) == Ranks(d) \X (1 .. Draws(c, d)) \X (1 .. PartSize(c, d))

\* The place among the samples of one unit, and among all of the run.
Within(c, d, r, i) == IF c.kind = "single" THEN r * c.mbs + (i - 1) ELSE (i - 1) * d + r
Start(c, d, s, k)  == s * c.gbs + Unit(c, d) * (k - 1)
Place(c, d, s, x)  == Start(c, d, s, x[2]) + Within(c, d, x[1], x[3])

\* The sample at a place, where it does not depend on the rank.
Value(c, d, q) ==
    IF c.kind = "single" THEN q
    ELSE IF q % Active(c, d) < Shuffled(c)
         THEN Perm(Shuffled(c), q \div Active(c, d), (q % Active(c, d)) + 1) ELSE Pad

\* The slots and the samples of a step with batches b.
SlotsIn(b) ==
    UNION {UNION {{<<r, k, i>> : i \in DOMAIN b[r][k]} : k \in DOMAIN b[r]} : r \in DOMAIN b}
SamplesIn(b) == {b[x[1]][x[2]][x[3]] : x \in SlotsIn(b)}

LEMMA TwoDigits ==
    ASSUME NEW m \in Nat \ {0}, NEW n \in Nat \ {0}
    PROVE  /\ \A a \in 0 .. m - 1, b \in 0 .. n - 1 : a * n + b \in 0 .. m * n - 1
           /\ \A w \in 0 .. m * n - 1 : \E a \in 0 .. m - 1, b \in 0 .. n - 1 : w = a * n + b
<1>1. ASSUME NEW a \in 0 .. m - 1, NEW b \in 0 .. n - 1
      PROVE  a * n + b \in 0 .. m * n - 1
  <2>1. (a + 1) * n <= m * n /\ (a + 1) * n = a * n + n /\ a * n \in Nat /\ m * n \in Nat
    <3>1. (a + 1) * n <= m * n
      BY Products
    <3> QED
      BY <3>1
  <2> QED
    BY <2>1
<1>2. ASSUME NEW w \in 0 .. m * n - 1
      PROVE  \E a \in 0 .. m - 1, b \in 0 .. n - 1 : w = a * n + b
  <2> DEFINE q == w \div n
             t == w % n
  <2>1. w \in Nat /\ w < m * n /\ m * n \in Nat
    <3>1. m * n \in Nat
      OBVIOUS
    <3> QED
      BY <3>1
  <2>2. q \in Nat /\ t \in 0 .. n - 1 /\ w = n * q + t
    BY <2>1, Division
  <2> HIDE DEF q, t
  <2>3. n * q = q * n
    BY <2>2
  <2>4. q < m
    <3> SUFFICES ASSUME m <= q PROVE FALSE
      BY <2>2
    <3>1. m * n <= q * n
      BY <2>2, Products
    <3> QED
      BY <2>1, <2>2, <2>3, <3>1
  <2>5. q \in 0 .. m - 1 /\ w = q * n + t
    BY <2>2, <2>3, <2>4
  <2> QED
    BY <2>2, <2>5
<1> QED
  BY <1>1, <1>2

LEMMA UnitParts ==
    ASSUME NEW c \in Configs, NEW d \in Sizes(c)
    PROVE  /\ PartSize(c, d) \in Nat \ {0} /\ Unit(c, d) = PartSize(c, d) * d
           /\ d \in Nat \ {0} /\ c.mbs \in Nat \ {0}
           /\ c.kind = "single" => Unit(c, d) = d * c.mbs
<1>1. c.mbs \in Nat \ {0} /\ d \in Nat \ {0}
  BY Configuration
<1>2. c.gbs \div d \in Nat \ {0} /\ c.gbs = (c.gbs \div d) * d
  BY Geometry
<1>3. c.mbs * d = d * c.mbs
  BY <1>1
<1> QED
  BY <1>1, <1>2, <1>3 DEF PartSize, Unit

LEMMA PlacesOfUnit ==
    ASSUME NEW c \in Configs, NEW d \in Sizes(c)
    PROVE  /\ \A r \in Ranks(d), i \in 1 .. PartSize(c, d) :
                 Within(c, d, r, i) \in 0 .. Unit(c, d) - 1
           /\ \A r, q \in Ranks(d), i, k \in 1 .. PartSize(c, d) :
                 Within(c, d, r, i) = Within(c, d, q, k) => r = q /\ i = k
           /\ \A w \in 0 .. Unit(c, d) - 1 : \E r \in Ranks(d), i \in 1 .. PartSize(c, d) :
                 w = Within(c, d, r, i)
<1> DEFINE g == PartSize(c, d)
           m == c.mbs
<1>1. g \in Nat \ {0} /\ Unit(c, d) = g * d /\ d \in Nat \ {0}
  BY UnitParts
<1>2. CASE c.kind = "single"
  <2>1. g = m /\ Unit(c, d) = d * m /\ \A r, i : Within(c, d, r, i) = r * m + (i - 1)
    BY <1>2, UnitParts DEF PartSize, Within
  <2> HIDE DEF g, m
  <2>2. \A i \in 1 .. g : i - 1 \in 0 .. m - 1 /\ i \in Int
    BY <1>1, <2>1
  <2>3. /\ \A a \in 0 .. d - 1, b \in 0 .. m - 1 : a * m + b \in 0 .. d * m - 1
        /\ \A w \in 0 .. d * m - 1 : \E a \in 0 .. d - 1, b \in 0 .. m - 1 : w = a * m + b
    BY <1>1, <2>1, TwoDigits
  <2>4. \A r \in Ranks(d), i \in 1 .. g : Within(c, d, r, i) \in 0 .. Unit(c, d) - 1
    BY <2>1, <2>2, <2>3 DEF Ranks
  <2>5. ASSUME NEW r \in Ranks(d), NEW q \in Ranks(d), NEW i \in 1 .. g, NEW k \in 1 .. g,
               Within(c, d, r, i) = Within(c, d, q, k)
        PROVE  r = q /\ i = k
    <3>1. r \in Int /\ q \in Int /\ r * m + (i - 1) = q * m + (k - 1)
      BY <1>1, <2>1, <2>5 DEF Ranks
    <3>2. r = q /\ i - 1 = k - 1
      BY <1>1, <2>1, <2>2, <3>1, UniqueDigits
    <3> QED
      BY <2>2, <3>2
  <2>6. ASSUME NEW w \in 0 .. Unit(c, d) - 1
        PROVE  \E r \in Ranks(d), i \in 1 .. g : w = Within(c, d, r, i)
    <3>1. PICK a \in 0 .. d - 1, b \in 0 .. m - 1 : w = a * m + b
      BY <2>1, <2>3
    <3>2. b + 1 \in 1 .. g /\ (b + 1) - 1 = b
      BY <1>1, <2>1
    <3>3. w = Within(c, d, a, b + 1)
      BY <2>1, <3>1, <3>2
    <3> QED
      BY <3>2, <3>3 DEF Ranks
  <2> QED
    BY <2>4, <2>5, <2>6 DEF g
<1>3. CASE c.kind # "single"
  <2>1. \A r, i : Within(c, d, r, i) = (i - 1) * d + r
    BY <1>3 DEF Within
  <2> HIDE DEF g
  <2>2. \A i \in 1 .. g : i - 1 \in 0 .. g - 1 /\ i \in Int
    BY <1>1
  <2>3. /\ \A a \in 0 .. g - 1, b \in 0 .. d - 1 : a * d + b \in 0 .. g * d - 1
        /\ \A w \in 0 .. g * d - 1 : \E a \in 0 .. g - 1, b \in 0 .. d - 1 : w = a * d + b
    BY <1>1, TwoDigits
  <2>4. \A r \in Ranks(d), i \in 1 .. g : Within(c, d, r, i) \in 0 .. Unit(c, d) - 1
    BY <1>1, <2>1, <2>2, <2>3 DEF Ranks
  <2>5. ASSUME NEW r \in Ranks(d), NEW q \in Ranks(d), NEW i \in 1 .. g, NEW k \in 1 .. g,
               Within(c, d, r, i) = Within(c, d, q, k)
        PROVE  r = q /\ i = k
    <3>1. r \in 0 .. d - 1 /\ q \in 0 .. d - 1 /\ (i - 1) * d + r = (k - 1) * d + q
      BY <2>1, <2>5 DEF Ranks
    <3>2. i - 1 \in Int /\ k - 1 \in Int
      BY <2>2
    <3>3. i - 1 = k - 1 /\ r = q
      BY <1>1, <3>1, <3>2, UniqueDigits
    <3> QED
      BY <2>2, <3>3
  <2>6. ASSUME NEW w \in 0 .. Unit(c, d) - 1
        PROVE  \E r \in Ranks(d), i \in 1 .. g : w = Within(c, d, r, i)
    <3>1. PICK a \in 0 .. g - 1, b \in 0 .. d - 1 : w = a * d + b
      BY <1>1, <2>3
    <3>2. a + 1 \in 1 .. g /\ (a + 1) - 1 = a
      BY <1>1
    <3>3. w = Within(c, d, b, a + 1)
      BY <2>1, <3>1, <3>2
    <3> QED
      BY <3>2, <3>3 DEF Ranks
  <2> QED
    BY <2>4, <2>5, <2>6 DEF g
<1> QED
  BY <1>2, <1>3

LEMMA PlaceInStep ==
    ASSUME NEW c \in Configs, NEW d \in Sizes(c), NEW x \in AllSlots(c, d)
    PROVE  LET z == (x[2] - 1) * Unit(c, d) + Within(c, d, x[1], x[3])
           IN  /\ z \in 0 .. c.gbs - 1
               /\ \A s \in Nat : Place(c, d, s, x) = s * c.gbs + z /\ Place(c, d, s, x) \in Nat
<1> DEFINE u == Unit(c, d)
           n == Draws(c, d)
           k == x[2]
           w == Within(c, d, x[1], x[3])
           z == (k - 1) * u + w
<1>1. u \in Nat \ {0} /\ n \in Nat \ {0} /\ u * n = c.gbs /\ n * u = c.gbs /\ c.gbs \in Nat \ {0}
  BY UnitTimesDraws, Configuration
<1>2. x[1] \in Ranks(d) /\ k \in 1 .. n /\ x[3] \in 1 .. PartSize(c, d)
  BY DEF AllSlots
<1>3. w \in 0 .. u - 1
  BY <1>2, PlacesOfUnit
<1> HIDE DEF u, n, w
<1>4. k - 1 \in 0 .. n - 1 /\ k \in Nat \ {0}
  BY <1>1, <1>2
<1>5. z \in 0 .. c.gbs - 1
  <2>1. \A a \in 0 .. n - 1, b \in 0 .. u - 1 : a * u + b \in 0 .. n * u - 1
    BY <1>1, TwoDigits
  <2> QED
    BY <1>1, <1>3, <1>4, <2>1
<1>6. ASSUME NEW s \in Nat
      PROVE  Place(c, d, s, x) = s * c.gbs + z /\ Place(c, d, s, x) \in Nat
  <2> DEFINE g == s * c.gbs
             v == (k - 1) * u
  <2>1. g \in Nat /\ v \in Nat /\ u * (k - 1) = v
    BY <1>1, <1>4
  <2>2. Place(c, d, s, x) = (g + v) + w
    BY <2>1 DEF Place, Start, u, w
  <2> HIDE DEF g, v
  <2>3. w \in Nat
    BY <1>1, <1>3
  <2>4. (g + v) + w = g + (v + w) /\ g + (v + w) \in Nat
    BY <2>1, <2>3
  <2> QED
    BY <2>2, <2>4 DEF g, v
<1> QED
  BY <1>5, <1>6 DEF u, w

\* No two samples of a run share a place, whatever the ranks of their steps.
LEMMA PlaceUnique ==
    ASSUME NEW c \in Configs, NEW d \in Sizes(c), NEW e \in Sizes(c), NEW s \in Nat, NEW t \in Nat,
           NEW x \in AllSlots(c, d), NEW y \in AllSlots(c, e),
           Place(c, d, s, x) = Place(c, e, t, y)
    PROVE  s = t /\ (d = e => x = y)
<1> DEFINE u == Unit(c, d)
           z == (x[2] - 1) * Unit(c, d) + Within(c, d, x[1], x[3])
           v == (y[2] - 1) * Unit(c, e) + Within(c, e, y[1], y[3])
<1>1. c.gbs \in Nat \ {0} /\ u \in Nat \ {0}
  BY Configuration, UnitTimesDraws
<1>2. z \in 0 .. c.gbs - 1 /\ v \in 0 .. c.gbs - 1 /\ s * c.gbs + z = t * c.gbs + v
  BY PlaceInStep
<1>3. s = t /\ z = v
  <2> HIDE DEF z, v
  <2> QED
    BY <1>1, <1>2, UniqueDigits
<1>4. ASSUME d = e
      PROVE  x = y
  <2>1. /\ x[1] \in Ranks(d) /\ x[2] \in 1 .. Draws(c, d) /\ x[3] \in 1 .. PartSize(c, d)
        /\ y[1] \in Ranks(d) /\ y[2] \in 1 .. Draws(c, d) /\ y[3] \in 1 .. PartSize(c, d)
        /\ x = <<x[1], x[2], x[3]>> /\ y = <<y[1], y[2], y[3]>>
    BY <1>4 DEF AllSlots
  <2>2. /\ Within(c, d, x[1], x[3]) \in 0 .. u - 1
        /\ Within(c, d, y[1], y[3]) \in 0 .. u - 1
    BY <2>1, PlacesOfUnit
  <2>3. x[2] - 1 \in Int /\ y[2] - 1 \in Int /\ x[2] \in Int /\ y[2] \in Int
    BY <2>1, UnitTimesDraws
  <2>4. (x[2] - 1) * u + Within(c, d, x[1], x[3]) = (y[2] - 1) * u + Within(c, d, y[1], y[3])
    BY <1>3, <1>4
  <2>5. x[2] - 1 = y[2] - 1 /\ Within(c, d, x[1], x[3]) = Within(c, d, y[1], y[3])
    <3> DEFINE a == x[2] - 1
               b == y[2] - 1
               v1 == Within(c, d, x[1], x[3])
               v2 == Within(c, d, y[1], y[3])
    <3>1. a \in Int /\ b \in Int /\ v1 \in 0 .. u - 1 /\ v2 \in 0 .. u - 1
          /\ a * u + v1 = b * u + v2
      BY <2>2, <2>3, <2>4
    <3> HIDE DEF u, a, b, v1, v2
    <3>2. a = b /\ v1 = v2
      BY <1>1, <3>1, UniqueDigits
    <3> QED
      BY <3>2 DEF a, b, v1, v2
  <2>6. x[1] = y[1] /\ x[3] = y[3]
    BY <2>1, <2>5, PlacesOfUnit
  <2> QED
    BY <2>1, <2>3, <2>5, <2>6
<1> QED
  BY <1>3, <1>4

\* Every place of a step is that of one of its samples.
LEMMA PlaceExists ==
    ASSUME NEW c \in Configs, NEW d \in Sizes(c), NEW s \in Nat, NEW z \in 0 .. c.gbs - 1
    PROVE  \E x \in AllSlots(c, d) : Place(c, d, s, x) = s * c.gbs + z
<1> DEFINE u == Unit(c, d)
           n == Draws(c, d)
<1>1. u \in Nat \ {0} /\ n \in Nat \ {0} /\ u * n = c.gbs /\ n * u = c.gbs
  BY UnitTimesDraws
<1>2. PICK a \in 0 .. n - 1, w \in 0 .. u - 1 : z = a * u + w
  <2> HIDE DEF u, n
  <2>1. z \in 0 .. n * u - 1
    BY <1>1
  <2> QED
    BY <1>1, <2>1, TwoDigits
<1>3. PICK r \in Ranks(d), i \in 1 .. PartSize(c, d) : w = Within(c, d, r, i)
  BY PlacesOfUnit
<1> DEFINE x == <<r, a + 1, i>>
<1>4. x \in AllSlots(c, d) /\ x[2] - 1 = a
  BY <1>1 DEF AllSlots
<1>5. Place(c, d, s, x) = s * c.gbs + ((x[2] - 1) * u + Within(c, d, x[1], x[3]))
  BY <1>4, PlaceInStep
<1> QED
  BY <1>2, <1>3, <1>4, <1>5

\* A unit lies in one epoch.
LEMMA PlaceInEpoch ==
    ASSUME NEW c \in Configs, NEW d \in Sizes(c), NEW j \in Nat, c.kind # "single",
           NEW w \in 0 .. Unit(c, d) - 1
    PROVE  LET o == Unit(c, d) * j
           IN  /\ (o + w) \div Active(c, d) = o \div Active(c, d)
               /\ (o + w) % Active(c, d) = (o % Active(c, d)) + w
               /\ o % Active(c, d) \in Nat
<1> DEFINE u == Unit(c, d)
           n == Units(c, d)
           A == Active(c, d)
           h == j % n
           o == u * j
<1>1. u \in Nat \ {0} /\ n \in Nat \ {0} /\ A = u * n
  BY Geometry
<1>2. o % A = u * h /\ h \in 0 .. n - 1
  BY PassStart
<1> HIDE DEF u, n, A, h
<1>3. h \in Nat /\ h + 1 <= n
  BY <1>1, <1>2
<1>4. (h + 1) * u <= n * u /\ (h + 1) * u = h * u + u /\ h * u \in Nat
      /\ n * u = u * n /\ h * u = u * h
  <2>1. (h + 1) * u <= n * u
    BY <1>1, <1>3, Products
  <2> QED
    BY <1>1, <1>3, <2>1
<1>5. w \in Nat /\ w < u /\ A \in Nat \ {0} /\ o \in Nat
  <2>1. w \in 0 .. u - 1
    BY DEF u
  <2>2. u * n \in Nat \ {0} /\ u * j \in Nat
    BY <1>1
  <2> QED
    BY <1>1, <2>1, <2>2
<1> HIDE DEF o
<1>6. (o % A) + w < A /\ o % A \in Nat
  <2>1. o % A = h * u /\ A = n * u
    BY <1>1, <1>2, <1>4
  <2> QED
    BY <1>1, <1>4, <1>5, <2>1
<1>7. (o + w) \div A = o \div A /\ (o + w) % A = (o % A) + w
  BY <1>5, <1>6, SameEpoch
<1> QED
  BY <1>6, <1>7 DEF o, u, A

\* Where an order is not sharded, its samples are those at their places.
LEMMA SampleAtPlace ==
    ASSUME NEW c \in Configs, NEW d \in Sizes(c), NEW s \in Nat, NEW x \in AllSlots(c, d)
    PROVE  LET p == Start(c, d, s, x[2])
               q == Place(c, d, s, x)
           IN  /\ p \in Nat /\ q \in Nat
               /\ c.kind # "single" =>
                     /\ q \div Active(c, d) = p \div Active(c, d)
                     /\ q % Active(c, d) = (p % Active(c, d)) + Within(c, d, x[1], x[3])
               /\ c.kind # "cyclic" \/ ~c.sharding =>
                     SampleOf(c, d, x[1], p, x[3]) = Value(c, d, q)
<1> DEFINE u == Unit(c, d)
           n == Units(c, d)
           p == Start(c, d, s, x[2])
           q == Place(c, d, s, x)
           w == Within(c, d, x[1], x[3])
           A == Active(c, d)
<1>1. u \in Nat \ {0} /\ (c.kind # "single" => n \in Nat \ {0} /\ A = u * n)
  BY Geometry
<1>2. x[1] \in Ranks(d) /\ x[2] \in 1 .. Draws(c, d) /\ x[3] \in 1 .. PartSize(c, d)
  BY DEF AllSlots
<1>3. x[2] - 1 \in Nat /\ x[2] \in Int
  BY <1>2, UnitTimesDraws
<1>4. w \in 0 .. u - 1 /\ q = p + w
  BY <1>2, PlacesOfUnit DEF Place
<1>5. PICK j \in Nat : p = u * j
  <2> DEFINE a == s * Draws(c, d)
             b == x[2] - 1
  <2>1. a \in Nat /\ s * c.gbs = u * a
    BY PositionInUnits
  <2>2. p = u * a + u * b /\ b \in Nat
    BY <1>3, <2>1 DEF Start
  <2> HIDE DEF a, b, u
  <2>3. u * (a + b) = u * a + u * b
    BY <1>1, <2>1, <2>2
  <2> QED
    BY <2>1, <2>2, <2>3
<1> HIDE DEF u, n, w, A, p, q
<1>6. p \in Nat /\ q \in Nat
  <2>1. u * j \in Nat
    BY <1>1
  <2> QED
    BY <1>1, <1>4, <1>5, <2>1
<1>7. ASSUME c.kind # "single"
      PROVE  q \div A = p \div A /\ q % A = (p % A) + w /\ p % A \in Nat
  <2>1. w \in 0 .. Unit(c, d) - 1
    BY <1>4 DEF u
  <2>2. LET o == Unit(c, d) * j
        IN  /\ (o + w) \div Active(c, d) = o \div Active(c, d)
            /\ (o + w) % Active(c, d) = (o % Active(c, d)) + w
            /\ o % Active(c, d) \in Nat
    BY <1>7, <2>1, PlaceInEpoch
  <2> QED
    BY <1>4, <1>5, <2>2 DEF A, u
<1>8. ASSUME c.kind # "cyclic" \/ ~c.sharding
      PROVE  SampleOf(c, d, x[1], p, x[3]) = Value(c, d, q)
  <2>0. x[1] \in Nat /\ x[3] \in Nat /\ d \in Nat /\ c.mbs \in Nat
    BY <1>2, UnitParts DEF Ranks
  <2>1. CASE c.kind = "single"
    <3>1. w = x[1] * c.mbs + (x[3] - 1)
      BY <2>1 DEF w, Within
    <3> QED
      BY <1>4, <2>1, <3>1 DEF SampleOf, Value
  <2>2. CASE c.kind # "single"
    <3>1. w = (x[3] - 1) * d + x[1]
      BY <2>2 DEF w, Within
    <3>2. (p % A) + (x[1] + (x[3] - 1) * d) = q % A
      <4>1. (x[3] - 1) * d \in Int
        BY <2>0
      <4> QED
        BY <1>7, <2>0, <2>2, <3>1, <4>1
    <3> QED
      BY <1>7, <1>8, <2>2, <3>2 DEF SampleOf, Value, A
  <2> QED
    BY <2>1, <2>2
<1> QED
  BY <1>6, <1>7, <1>8 DEF p, q, w, A

-----------------------------------------------------------------------------
(* The samples of a step. *)

LEMMA StepSlots ==
    ASSUME NEW c \in Configs, NEW d \in Sizes(c), NEW s \in Nat, NEW b, b = StepOf(c, d, s)
    PROVE  /\ \A x \in SlotsIn(b) :
                 /\ x \in AllSlots(c, d)
                 /\ b[x[1]][x[2]][x[3]] = SampleOf(c, d, x[1], Start(c, d, s, x[2]), x[3])
           /\ \A x \in AllSlots(c, d) :
                 x \in SlotsIn(b) <=> (c.kind = "single" => Place(c, d, s, x) < c.total)
<1> DEFINE n == Draws(c, d)
           p(k) == Start(c, d, s, k)
           size(r, k) == BatchSize(c, d, r, p(k))
<1>0. /\ c.mbs \in Nat \ {0} /\ d \in Nat \ {0} /\ c.total \in Nat /\ n \in Nat \ {0}
      /\ PartSize(c, d) \in Nat \ {0} /\ c.gbs \div d \in Nat
  BY Configuration, UnitTimesDraws, UnitParts, Geometry
<1>1. /\ DOMAIN b = Ranks(d)
      /\ \A r \in Ranks(d) : DOMAIN b[r] = 1 .. n
      /\ \A r \in Ranks(d), k \in 1 .. n :
            /\ DOMAIN b[r][k] = 1 .. size(r, k)
            /\ \A i \in 1 .. size(r, k) : b[r][k][i] = SampleOf(c, d, r, p(k), i)
  BY DEF StepOf, BatchOf, Start
<1>2. \A x : x \in SlotsIn(b) <=>
          \E r \in Ranks(d) : \E k \in 1 .. n : \E i \in 1 .. size(r, k) : x = <<r, k, i>>
  <2>1. ASSUME NEW x, x \in SlotsIn(b)
        PROVE  \E r \in Ranks(d) : \E k \in 1 .. n : \E i \in 1 .. size(r, k) : x = <<r, k, i>>
    <3>1. PICK r \in DOMAIN b :
                 x \in UNION {{<<r, k, i>> : i \in DOMAIN b[r][k]} : k \in DOMAIN b[r]}
      BY <2>1 DEF SlotsIn
    <3>2. PICK k \in DOMAIN b[r] : x \in {<<r, k, i>> : i \in DOMAIN b[r][k]}
      BY <3>1
    <3>3. PICK i \in DOMAIN b[r][k] : x = <<r, k, i>>
      BY <3>2
    <3>4. r \in Ranks(d) /\ k \in 1 .. n /\ i \in 1 .. size(r, k)
      BY <1>1
    <3> QED
      BY <3>3, <3>4
  <2>2. ASSUME NEW r \in Ranks(d), NEW k \in 1 .. n, NEW i \in 1 .. size(r, k)
        PROVE  <<r, k, i>> \in SlotsIn(b)
    <3>1. r \in DOMAIN b /\ k \in DOMAIN b[r] /\ i \in DOMAIN b[r][k]
      BY <1>1
    <3> HIDE DEF n, size
    <3> QED
      BY <3>1 DEF SlotsIn
  <2> HIDE DEF n, size
  <2> QED
    BY <2>1, <2>2
<1>3. ASSUME NEW r \in Ranks(d), NEW k \in 1 .. n
      PROVE  /\ size(r, k) \in Nat /\ size(r, k) <= PartSize(c, d)
             /\ c.kind # "single" => size(r, k) = PartSize(c, d)
             /\ c.kind = "single" => \A i \in 1 .. PartSize(c, d) :
                   i <= size(r, k) <=> p(k) + Within(c, d, r, i) < c.total
  <2>1. CASE c.kind # "single"
    <3>1. size(r, k) = PartSize(c, d)
      BY <2>1, Configuration DEF BatchSize, PartSize
    <3> QED
      BY <1>0, <2>1, <3>1
  <2>2. CASE c.kind = "single"
    <3> DEFINE o == r * c.mbs
               m == c.mbs
               total == c.total
               left == total - (p(k) + o)
               z == p(k)
    <3>1. o \in Nat /\ z \in Nat
      <4>1. r \in Nat /\ k - 1 \in Nat
        BY <1>0 DEF Ranks
      <4>2. s * c.gbs \in Nat
        BY Configuration
      <4>3. Unit(c, d) * (k - 1) \in Nat
        BY <4>1, UnitTimesDraws
      <4>4. o \in Nat
        BY <1>0, <4>1
      <4> QED
        BY <4>2, <4>3, <4>4 DEF Start
    <3>2. /\ size(r, k) = (IF left >= m THEN m ELSE IF left > 0 THEN left ELSE 0)
          /\ PartSize(c, d) = m
          /\ \A i : Within(c, d, r, i) = o + (i - 1)
      BY <2>2 DEF BatchSize, PartSize, Within
    <3> DEFINE y == size(r, k)
    <3> HIDE DEF o, m, p, size, z, total
    <3>3. left = total - (z + o) /\ left \in Int /\ m \in Nat \ {0} /\ total \in Nat
      BY <1>0, <3>1 DEF z, m, total
    <3> HIDE DEF left
    <3>4. y \in Nat /\ y <= m /\ y = (IF left >= m THEN m ELSE IF left > 0 THEN left ELSE 0)
      BY <3>2, <3>3
    <3> HIDE DEF y
    <3>5. \A i \in 1 .. m : i <= y <=> z + (o + (i - 1)) < total
      BY <3>1, <3>3, <3>4
    <3> QED
      BY <2>2, <3>2, <3>4, <3>5 DEF y, z, total
  <2> QED
    BY <2>1, <2>2
<1>4. ASSUME NEW x \in SlotsIn(b)
      PROVE  /\ x \in AllSlots(c, d)
             /\ b[x[1]][x[2]][x[3]] = SampleOf(c, d, x[1], Start(c, d, s, x[2]), x[3])
  <2>1. PICK r \in Ranks(d), k \in 1 .. n : \E i \in 1 .. size(r, k) : x = <<r, k, i>>
    BY <1>2
  <2>2. PICK i \in 1 .. size(r, k) : x = <<r, k, i>>
    BY <2>1
  <2>3. i \in 1 .. PartSize(c, d)
    <3> HIDE DEF size
    <3> QED
      BY <1>0, <1>3
  <2> HIDE DEF n, size
  <2>4. x \in AllSlots(c, d)
    BY <2>2, <2>3 DEF AllSlots, n
  <2>5. b[r][k][i] = SampleOf(c, d, r, p(k), i)
    BY <1>1
  <2> QED
    BY <2>2, <2>4, <2>5
<1>5. ASSUME NEW x \in AllSlots(c, d)
      PROVE  x \in SlotsIn(b) <=> (c.kind = "single" => Place(c, d, s, x) < c.total)
  <2> DEFINE r == x[1]
             k == x[2]
             i == x[3]
  <2>1. r \in Ranks(d) /\ k \in 1 .. n /\ i \in 1 .. PartSize(c, d) /\ x = <<r, k, i>>
    BY DEF AllSlots
  <2>2. Place(c, d, s, x) = p(k) + Within(c, d, r, i)
    BY DEF Place
  <2>3. x \in SlotsIn(b) <=> i \in 1 .. size(r, k)
    <3> HIDE DEF size, n
    <3> QED
      BY <1>2, <2>1
  <2>4. i \in 1 .. size(r, k) <=> i <= size(r, k)
    <3> HIDE DEF size
    <3> QED
      BY <1>0, <1>3, <2>1
  <2> HIDE DEF size, n, p
  <2> QED
    BY <1>3, <2>1, <2>2, <2>3, <2>4
<1> QED
  BY <1>4, <1>5

LEMMA SizeOfStep ==
    ASSUME NEW c \in Configs, NEW d \in Sizes(c), NEW s
    PROVE  Cardinality(DOMAIN StepOf(c, d, s)) = d
<1>1. d \in Nat \ {0}
  BY Configuration
<1>2. Cardinality(0 .. d - 1) = d
  BY <1>1, FS_Interval
<1> QED
  BY <1>2 DEF StepOf, Ranks

\* The samples of a step that is not sharded are those of its global batch.
LEMMA SamplesOfStep ==
    ASSUME NEW c \in Configs, NEW d \in Sizes(c), NEW s \in Nat, c.kind # "cyclic" \/ ~c.sharding
    PROVE  \A v : v \in SamplesIn(StepOf(c, d, s)) <=>
              \E z \in 0 .. c.gbs - 1 : /\ c.kind = "single" => s * c.gbs + z < c.total
                                        /\ v = Value(c, d, s * c.gbs + z)
<1> DEFINE b == StepOf(c, d, s)
           q(x) == Place(c, d, s, x)
<1>1. /\ \A x \in SlotsIn(b) : /\ x \in AllSlots(c, d)
                               /\ b[x[1]][x[2]][x[3]] = Value(c, d, q(x))
      /\ \A x \in AllSlots(c, d) :
            x \in SlotsIn(b) <=> (c.kind = "single" => q(x) < c.total)
  <2>1. /\ \A x \in SlotsIn(b) :
             /\ x \in AllSlots(c, d)
             /\ b[x[1]][x[2]][x[3]] = SampleOf(c, d, x[1], Start(c, d, s, x[2]), x[3])
        /\ \A x \in AllSlots(c, d) :
             x \in SlotsIn(b) <=> (c.kind = "single" => q(x) < c.total)
    BY StepSlots
  <2>2. \A x \in AllSlots(c, d) :
           SampleOf(c, d, x[1], Start(c, d, s, x[2]), x[3]) = Value(c, d, q(x))
    BY SampleAtPlace
  <2> HIDE DEF q, b
  <2> QED
    BY <2>1, <2>2
<1>2. \A x \in AllSlots(c, d) : \E z \in 0 .. c.gbs - 1 : q(x) = s * c.gbs + z
  BY PlaceInStep
<1>3. \A z \in 0 .. c.gbs - 1 : \E x \in AllSlots(c, d) : q(x) = s * c.gbs + z
  BY PlaceExists
<1> HIDE DEF b, q
<1>4. \A v : v \in SamplesIn(b) <=> \E x \in SlotsIn(b) : v = Value(c, d, q(x))
  BY <1>1 DEF SamplesIn
<1> DEFINE P(v) == \E z \in 0 .. c.gbs - 1 : /\ c.kind = "single" => s * c.gbs + z < c.total
                                             /\ v = Value(c, d, s * c.gbs + z)
<1>5. ASSUME NEW v, v \in SamplesIn(b)
      PROVE  P(v)
  BY <1>1, <1>2, <1>4, <1>5
<1>6. ASSUME NEW v, NEW z \in 0 .. c.gbs - 1, c.kind = "single" => s * c.gbs + z < c.total,
             v = Value(c, d, s * c.gbs + z)
      PROVE  v \in SamplesIn(b)
  BY <1>1, <1>3, <1>4, <1>6
<1> QED
  BY <1>5, <1>6 DEF b

\* One size means the samples of another by a position where the order is the same.
LEMMA SameValue ==
    ASSUME NEW c \in Configs, NEW d, NEW e, SameOrder(c, d, e),
           c.kind # "cyclic" \/ ~c.sharding, NEW q
    PROVE  Value(c, d, q) = Value(c, e, q) /\ (c.kind # "single" => Active(c, d) = Active(c, e))
<1>1. CASE c.kind = "single"
  BY <1>1 DEF Value
<1>2. CASE c.kind # "single"
  <2>1. Active(c, d) = Active(c, e)
    BY <1>2 DEF SameOrder, Active
  <2> QED
    BY <1>2, <2>1 DEF Value
<1> QED
  BY <1>1, <1>2

\* What a step trains again is what it trained.
Repeats ==
    \A s \in DOMAIN trained : IsTrained(s) =>
          /\ SizeAt(s)' = SizeAt(s) => trained'[s] = trained[s]
          /\ SameOrder(config, SizeAt(s), SizeAt(s)') => Samples(s)' = Samples(s)

LEMMA StepsRepeat ==
    ASSUME OrdersAreIndices, \A c \in Configs : RanksAlike(c),
           SamplerInv, BatchesInv, [Next]_vars
    PROVE  Repeats
<1>1. SamplerInv' /\ TrainedInv /\ TrainedInv' /\ config \in Configs /\ config' = config
  <2>1. config \in Configs
    BY DEF SamplerInv, TypeOK
  <2>2. config' = config
    BY DEF Next, BeginPass, Draw, TrainStep, SaveCheckpoint, Restart, vars
  <2>3. LoadersInv /\ TrainedInv
    BY <2>1 DEF BatchesInv
  <2> QED
    BY <2>1, <2>2, <2>3, SamplerInvNext, TrainedInvNext
<1>2. SUFFICES ASSUME NEW s \in DOMAIN trained, IsTrained(s)
               PROVE  /\ SizeAt(s)' = SizeAt(s) => trained'[s] = trained[s]
                      /\ SameOrder(config, SizeAt(s), SizeAt(s)') => Samples(s)' = Samples(s)
  BY DEF Repeats
<1>3. PICK d \in Sizes(config) : trained[s] = StepOf(config, d, s)
  BY <1>1, <1>2 DEF TrainedInv
<1>4. s \in Nat /\ dp \in Sizes(config) /\ dp \in Nat \ {0} /\ DOMAIN trained' = DOMAIN trained
  <2>1. DOMAIN trained = 0 .. TrainIters(config) - 1 /\ DOMAIN trained' = 0 .. TrainIters(config) - 1
    BY <1>1 DEF TrainedInv
  <2>2. TrainIters(config) \in Nat /\ dp \in Sizes(config)
    BY <1>1, TrainItersType DEF SamplerInv, TypeOK
  <2> QED
    BY <1>1, <2>1, <2>2, Configuration
<1>5. trained'[s] # NotTrained
  <2>1. CASE trained' = trained
    BY <1>2, <2>1 DEF IsTrained
  <2>2. CASE TrainStep
    <3> DEFINE step == [r \in Ranks(dp) |-> SubSeq(queue[r], 1, Draws(config, dp))]
    <3>1. step # NotTrained
      <4>1. 0 \in DOMAIN step /\ DOMAIN <<>> = {}
        BY <1>4 DEF Ranks
      <4> HIDE DEF step
      <4> QED
        BY <4>1 DEF NotTrained
    <3>2. trained' = [trained EXCEPT ![CurrentStep] = step]
      BY <2>2 DEF TrainStep
    <3> HIDE DEF step
    <3>3. trained'[s] = step \/ trained'[s] = trained[s]
      BY <3>2
    <3> QED
      BY <1>2, <3>1, <3>3 DEF IsTrained
  <2> QED
    BY <2>1, <2>2 DEF Next, BeginPass, Draw, SaveCheckpoint, Restart, vars
<1>6. PICK e \in Sizes(config) : trained'[s] = StepOf(config, e, s)
  BY <1>1, <1>4, <1>5 DEF TrainedInv, IsTrained
<1>7. SizeAt(s) = d /\ SizeAt(s)' = e
  BY <1>1, <1>3, <1>6, SizeOfStep DEF SizeAt
<1>8. Samples(s) = SamplesIn(trained[s]) /\ Samples(s)' = SamplesIn(trained'[s])
  BY DEF Samples, SamplesIn, Slots, SlotsIn, SampleAt
<1>9. ASSUME SameOrder(config, d, e)
      PROVE  Samples(s)' = Samples(s)
  <2>1. CASE config.kind = "cyclic" /\ config.sharding
    BY <1>3, <1>6, <1>8, <1>9, <2>1 DEF SameOrder
  <2>2. CASE config.kind # "cyclic" \/ ~config.sharding
    <3> DEFINE inside(z) == config.kind = "single" => s * config.gbs + z < config.total
    <3>1. \A v : v \in Samples(s) <=>
              \E z \in 0 .. config.gbs - 1 :
                  inside(z) /\ v = Value(config, d, s * config.gbs + z)
      <4>1. Samples(s) = SamplesIn(StepOf(config, d, s))
        BY <1>3, <1>8
      <4> QED
        BY <1>1, <1>4, <2>2, <4>1, SamplesOfStep
    <3>2. \A v : v \in Samples(s)' <=>
              \E z \in 0 .. config.gbs - 1 :
                  inside(z) /\ v = Value(config, e, s * config.gbs + z)
      BY <1>1, <1>4, <1>6, <1>8, <2>2, SamplesOfStep
    <3>3. \A q : Value(config, d, q) = Value(config, e, q)
      BY <1>1, <1>9, <2>2, SameValue
    <3> HIDE DEF inside
    <3>4. \A v : v \in Samples(s)' <=> v \in Samples(s)
      BY <3>1, <3>2, <3>3
    <3> QED
      BY <3>4
  <2> QED
    BY <2>1, <2>2
<1> QED
  BY <1>3, <1>6, <1>7, <1>9

\* A step that is trained again after a crash is trained on the batches it had, rank by
\* rank, if the number of ranks is the same, and on the same samples whatever the number.
THEOREM RestartsRepeatSteps ==
    ASSUME OrdersArePermutations, \A c \in Configs : RanksAlike(c)
    PROVE  Spec => RunsRepeat
<1>1. OrdersAreIndices
  BY ShufflesAreIndices
<1>2. SamplerInv /\ BatchesInv /\ [Next]_vars => [Repeats]_vars
  BY <1>1, StepsRepeat
<1>3. Spec => [](SamplerInv /\ BatchesInv)
  BY <1>1, BatchesAlways
<1> QED
  BY <1>2, <1>3, PTL DEF Spec, RunsRepeat, Repeats

-----------------------------------------------------------------------------
(* Samples are distinct within an epoch. *)

LEMMA PermAt ==
    ASSUME OrdersArePermutations, NEW n \in Nat, NEW seed \in Nat, NEW i \in 1 .. n
    PROVE  /\ Perm(n, seed, i) \in 0 .. n - 1
           /\ \A j \in 1 .. n : Perm(n, seed, i) = Perm(n, seed, j) => i = j
<1>1. Shuffles(n, seed)
  BY DEF OrdersArePermutations
<1> QED
  BY <1>1 DEF Shuffles

LEMMA PermOnto ==
    ASSUME OrdersArePermutations, NEW n \in Nat, NEW seed \in Nat, NEW v \in 0 .. n - 1
    PROVE  \E i \in 1 .. n : Perm(n, seed, i) = v
<1>1. Shuffles(n, seed)
  BY DEF OrdersArePermutations
<1> QED
  BY <1>1 DEF Shuffles

\* The place of a sample in the bucket of its rank.
LEMMA BucketPlace ==
    ASSUME NEW c \in Configs, NEW d \in Sizes(c), NEW s \in Nat, NEW x \in AllSlots(c, d),
           c.kind = "cyclic", c.sharding
    PROVE  LET p == Start(c, d, s, x[2])
               v == ((p % Active(c, d)) \div d) + x[3]
           IN  /\ v \in 1 .. Bucket(c, d) /\ Bucket(c, d) \in Nat
               /\ \E h \in Nat : /\ p = Active(c, d) * (p \div Active(c, d)) + Unit(c, d) * h
                                 /\ v = h * c.mbs + x[3]
<1> DEFINE u == Unit(c, d)
           n == Units(c, d)
           m == c.mbs
           p == Start(c, d, s, x[2])
           A == Active(c, d)
           i == x[3]
<1>1. /\ u \in Nat \ {0} /\ n \in Nat \ {0} /\ A = u * n /\ u = m * d
      /\ m \in Nat \ {0} /\ d \in Nat \ {0}
  BY Geometry, Configuration DEF Unit
<1>2. Bucket(c, d) = n * m
  BY DEF Bucket, Units, Unit
<1>3. x[2] \in 1 .. Draws(c, d) /\ i \in 1 .. m
  BY DEF AllSlots, PartSize
<1>4. PICK j \in Nat : p = u * j
  <2> DEFINE a == s * Draws(c, d)
             b == x[2] - 1
  <2>1. a \in Nat /\ s * c.gbs = u * a
    BY PositionInUnits
  <2>2. p = u * a + u * b /\ b \in Nat
    BY <1>3, <2>1, UnitTimesDraws DEF Start
  <2> HIDE DEF a, b, u
  <2>3. u * (a + b) = u * a + u * b
    BY <1>1, <2>1, <2>2
  <2> QED
    BY <2>1, <2>2, <2>3
<1> DEFINE h == j % n
<1>5. (u * j) % A = u * h /\ h \in 0 .. n - 1 /\ (u * j) \div A \in Nat
  BY PassStart
<1> HIDE DEF u, n, p, A, h, i
<1>6. h \in Nat /\ h + 1 <= n
  BY <1>1, <1>5
<1>7. (u * h) \div d = h * m /\ h * m \in Nat
  <2>1. u * h = (h * m) * d /\ h * m \in Nat
    BY <1>1, <1>6
  <2> QED
    BY <1>1, <2>1, ExactDivision
<1>8. (h + 1) * m <= n * m /\ (h + 1) * m = h * m + m /\ n * m \in Nat
  <2>1. m \in Nat /\ n \in Nat
    BY <1>1
  <2> HIDE DEF m
  <2>2. (h + 1) * m <= n * m
    BY <1>6, <2>1, Products
  <2>3. (h + 1) * m = h * m + m /\ n * m \in Nat
    BY <1>6, <2>1
  <2> QED
    BY <2>2, <2>3
<1>9. h * m + i \in 1 .. n * m
  <2> DEFINE w == h * m
             z == n * m
  <2>1. w \in Nat /\ z \in Nat /\ w + m <= z /\ i \in 1 .. m /\ m \in Nat
    BY <1>1, <1>3, <1>7, <1>8
  <2> HIDE DEF w, z, m
  <2>2. w + i \in 1 .. z
    BY <2>1
  <2> QED
    BY <2>2 DEF w, z
<1>10. p = A * (p \div A) + u * h
  <2>1. p \in Nat /\ A \in Nat \ {0}
    BY <1>1, <1>4
  <2>2. p = A * (p \div A) + (p % A)
    BY <2>1, Division
  <2> QED
    BY <1>4, <1>5, <2>2
<1>11. ((p % A) \div d) + i = h * m + i
  BY <1>4, <1>5, <1>7
<1> QED
  BY <1>2, <1>6, <1>8, <1>9, <1>10, <1>11 DEF p, A, u, i

LEMMA DistinctInBuckets ==
    ASSUME OrdersArePermutations, NEW c \in Configs, NEW d \in Sizes(c), NEW s \in Nat, NEW t \in Nat,
           NEW x \in AllSlots(c, d), NEW y \in AllSlots(c, d), c.kind = "cyclic", c.sharding,
           Start(c, d, s, x[2]) \div Active(c, d) = Start(c, d, t, y[2]) \div Active(c, d),
           SampleOf(c, d, x[1], Start(c, d, s, x[2]), x[3])
             = SampleOf(c, d, y[1], Start(c, d, t, y[2]), y[3])
    PROVE  s = t /\ x = y
<1> DEFINE p == Start(c, d, s, x[2])
           q == Start(c, d, t, y[2])
           A == Active(c, d)
           E == p \div A
           B == Bucket(c, d)
           v == ((p % A) \div d) + x[3]
           w == ((q % A) \div d) + y[3]
           u == Unit(c, d)
           m == c.mbs
<1>1. /\ v \in 1 .. B /\ B \in Nat
      /\ \E h \in Nat : p = A * (p \div A) + u * h /\ v = h * m + x[3]
  BY BucketPlace
<1>2. /\ w \in 1 .. B
      /\ \E h \in Nat : q = A * (q \div A) + u * h /\ w = h * m + y[3]
  BY BucketPlace
<1>3. /\ x[1] \in 0 .. d - 1 /\ x[3] \in 1 .. m /\ y[1] \in 0 .. d - 1 /\ y[3] \in 1 .. m
      /\ d \in Nat \ {0} /\ m \in Nat \ {0}
  BY Configuration DEF AllSlots, PartSize, Ranks
<1>4. /\ SampleOf(c, d, x[1], p, x[3]) = x[1] * B + Perm(B, E, v)
      /\ SampleOf(c, d, y[1], q, y[3]) = y[1] * B + Perm(B, E, w)
  BY DEF SampleOf
<1>5. E \in Nat
  <2>1. p \in Nat /\ A \in Nat \ {0}
    BY SampleAtPlace, EpochNotEmpty
  <2> HIDE DEF p, A
  <2> QED
    BY <2>1, Division
<1>6. p \div A = E /\ q \div A = E
  OBVIOUS
<1>7. x[1] * B + Perm(B, E, v) = y[1] * B + Perm(B, E, w)
  BY <1>4
<1> HIDE DEF p, q, A, E, B, v, w, u, m
<1>8. Perm(B, E, v) \in 0 .. B - 1 /\ Perm(B, E, w) \in 0 .. B - 1 /\ B \in Nat \ {0}
  <2>1. Perm(B, E, v) \in 0 .. B - 1 /\ Perm(B, E, w) \in 0 .. B - 1
    BY <1>1, <1>2, <1>5, PermAt
  <2>2. B \in Nat \ {0}
    <3>1. v \in 1 .. B /\ B \in Nat
      BY <1>1
    <3> QED
      BY <3>1
  <2> QED
    BY <2>1, <2>2
<1>9. x[1] = y[1] /\ Perm(B, E, v) = Perm(B, E, w)
  <2> DEFINE f == x[1]
             g == y[1]
             a == Perm(B, E, v)
             b == Perm(B, E, w)
  <2>1. f \in Int /\ g \in Int
    BY <1>3
  <2>2. a \in 0 .. B - 1 /\ b \in 0 .. B - 1 /\ f * B + a = g * B + b
    BY <1>7, <1>8
  <2> HIDE DEF f, g, a, b
  <2>3. f = g /\ a = b
    BY <1>8, <2>1, <2>2, UniqueDigits
  <2> QED
    BY <2>3 DEF f, g, a, b
<1>10. v = w
  BY <1>1, <1>2, <1>5, <1>9, PermAt
<1>11. PICK h \in Nat : p = A * E + u * h /\ v = h * m + x[3]
  BY <1>1, <1>6
<1>12. PICK k \in Nat : q = A * E + u * k /\ w = k * m + y[3]
  BY <1>2, <1>6
<1>13. h = k /\ x[3] = y[3]
  <2>1. x[3] - 1 \in 0 .. m - 1 /\ y[3] - 1 \in 0 .. m - 1 /\ h \in Int /\ k \in Int
    BY <1>3
  <2>2. h * m + (x[3] - 1) = k * m + (y[3] - 1)
    <3> DEFINE a == h * m
               b == k * m
    <3>1. a \in Nat /\ b \in Nat /\ a + x[3] = b + y[3] /\ x[3] \in Int /\ y[3] \in Int
      <4>1. h * m + x[3] = k * m + y[3]
        BY <1>10, <1>11, <1>12
      <4>2. h * m \in Nat /\ k * m \in Nat
        BY <1>3, Products
      <4>3. x[3] \in Int /\ y[3] \in Int
        BY <1>3
      <4> QED
        BY <4>1, <4>2, <4>3
    <3> HIDE DEF a, b
    <3>2. a + (x[3] - 1) = b + (y[3] - 1)
      BY <3>1
    <3> QED
      BY <3>2 DEF a, b
  <2>3. h = k /\ x[3] - 1 = y[3] - 1
    <3> DEFINE f == x[3] - 1
               g == y[3] - 1
    <3> HIDE DEF f, g
    <3>1. f \in 0 .. m - 1 /\ g \in 0 .. m - 1 /\ h * m + f = k * m + g
      BY <2>1, <2>2 DEF f, g
    <3>2. h = k /\ f = g
      BY <1>3, <2>1, <3>1, UniqueDigits
    <3> QED
      BY <3>2 DEF f, g
  <2> QED
    BY <1>3, <2>3
<1>14. Place(c, d, s, x) = Place(c, d, t, y)
  <2>1. p = q
    BY <1>11, <1>12, <1>13
  <2> QED
    BY <1>9, <1>13, <2>1 DEF Place, p, q
<1> QED
  BY <1>14, PlaceUnique

LEMMA DistinctSamples ==
    ASSUME OrdersArePermutations, NEW c \in Configs, NEW d \in Sizes(c), NEW e \in Sizes(c),
           SameOrder(c, d, e), NEW s \in Nat, NEW t \in Nat,
           NEW x \in AllSlots(c, d), NEW y \in AllSlots(c, e),
           c.kind = "single" \/ Start(c, d, s, x[2]) \div Active(c, d)
                                  = Start(c, e, t, y[2]) \div Active(c, e),
           SampleOf(c, d, x[1], Start(c, d, s, x[2]), x[3])
             = SampleOf(c, e, y[1], Start(c, e, t, y[2]), y[3]),
           SampleOf(c, d, x[1], Start(c, d, s, x[2]), x[3]) # Pad
    PROVE  s = t /\ (d = e => x = y)
<1>1. CASE c.kind = "cyclic" /\ c.sharding
  <2>1. d = e
    BY <1>1 DEF SameOrder
  <2> QED
    BY <1>1, <2>1, DistinctInBuckets
<1>2. CASE c.kind # "cyclic" \/ ~c.sharding
  <2> DEFINE p == Place(c, d, s, x)
             q == Place(c, e, t, y)
             A == Active(c, d)
             size == Shuffled(c)
  <2>1. /\ p \in Nat /\ q \in Nat
        /\ Value(c, d, p) = Value(c, e, q) /\ Value(c, d, p) # Pad
        /\ c.kind # "single" =>
              p \div Active(c, d) = Start(c, d, s, x[2]) \div Active(c, d)
        /\ c.kind # "single" =>
              q \div Active(c, e) = Start(c, e, t, y[2]) \div Active(c, e)
    BY <1>2, SampleAtPlace
  <2>2. c.kind # "single" => Active(c, e) = A
    BY <1>2, SameValue
  <2>3. p = q
    <3>1. CASE c.kind = "single"
      BY <2>1, <3>1 DEF Value
    <3>2. CASE c.kind # "single"
      <4> DEFINE E == p \div A
                 a == p % A
                 b == q % A
      <4>0. A \in Nat \ {0}
        BY <3>2, EpochNotEmpty
      <4>1. q \div A = E
        BY <2>1, <2>2, <3>2
      <4>2. /\ Value(c, d, p) = IF a < size THEN Perm(size, E, a + 1) ELSE Pad
            /\ Value(c, e, q) = IF b < size THEN Perm(size, E, b + 1) ELSE Pad
        BY <2>2, <3>2, <4>1 DEF Value
      <4>3. size \in Nat
        <5>1. c.total \in Nat /\ c.mbs \in Nat \ {0}
          BY Configuration
        <5>2. (c.total \div c.mbs) * c.mbs \in Nat
          BY <5>1, Division, Products
        <5> QED
          BY <5>1, <5>2 DEF Shuffled
      <4> HIDE DEF p, q, A, size
      <4>4. E \in Nat /\ a \in Nat /\ p = A * E + a
        BY <2>1, <4>0, Division
      <4>5. b \in Nat /\ q = A * E + b
        BY <2>1, <4>0, <4>1, Division
      <4> HIDE DEF E, a, b
      <4>6. a < size
        BY <2>1, <4>2
      <4>7. Perm(size, E, a + 1) \in 0 .. size - 1 /\ a + 1 \in 1 .. size
        <5>1. a + 1 \in 1 .. size
          BY <4>3, <4>4, <4>6
        <5> QED
          BY <4>3, <4>4, <5>1, PermAt
      <4>8. b < size /\ Perm(size, E, a + 1) = Perm(size, E, b + 1)
        BY <2>1, <4>2, <4>6
      <4>9. b + 1 \in 1 .. size
        BY <4>3, <4>5, <4>8
      <4>10. a + 1 = b + 1
        BY <4>3, <4>4, <4>7, <4>8, <4>9, PermAt
      <4> QED
        BY <4>4, <4>5, <4>10
    <3> QED
      BY <3>1, <3>2
  <2> QED
    BY <2>3, PlaceUnique
<1> QED
  BY <1>1, <1>2

LEMMA EpochOfPlace ==
    ASSUME NEW c \in Configs, NEW d \in Sizes(c), NEW s \in Nat, NEW x \in AllSlots(c, d)
    PROVE  s * c.gbs + (x[2] - 1) * c.mbs * d = Start(c, d, s, x[2])
<1>1. c.mbs \in Nat /\ d \in Nat /\ c.gbs \in Nat /\ c.mbs * d \in Nat
  BY Configuration
<1>2. x[2] \in 1 .. Draws(c, d) /\ x[2] \in Int
  BY UnitTimesDraws DEF AllSlots
<1>3. CASE c.kind = "batch"
  <2>1. x[2] - 1 = 0
    BY <1>2, <1>3 DEF Draws
  <2>2. (x[2] - 1) * c.mbs * d = 0 /\ Unit(c, d) * (x[2] - 1) = 0
    BY <1>1, <1>3, <2>1 DEF Unit
  <2> QED
    BY <2>2 DEF Start
<1>4. CASE c.kind # "batch"
  <2> DEFINE k == x[2] - 1
             m == c.mbs
  <2>1. k \in Int /\ m \in Nat /\ d \in Nat
    BY <1>1, <1>2
  <2> HIDE DEF k, m
  <2>2. k * m * d = (m * d) * k
    BY <2>1
  <2> QED
    BY <1>4, <2>2 DEF Start, Unit, k, m
<1> QED
  BY <1>3, <1>4

\* What a trained step holds.
LEMMA TrainedStep ==
    ASSUME SamplerInv, TrainedInv, NEW s \in DOMAIN trained, IsTrained(s)
    PROVE  /\ s \in Nat /\ config \in Configs
           /\ SizeAt(s) \in Sizes(config) /\ trained[s] = StepOf(config, SizeAt(s), s)
           /\ \A x \in Slots(s) :
                 /\ x \in AllSlots(config, SizeAt(s))
                 /\ SampleAt(s, x) = SampleOf(config, SizeAt(s), x[1],
                                              Start(config, SizeAt(s), s, x[2]), x[3])
                 /\ EpochOf(s, x)
                      = Start(config, SizeAt(s), s, x[2]) \div Active(config, SizeAt(s))
           /\ \A x \in AllSlots(config, SizeAt(s)) :
                 config.kind # "single" => x \in Slots(s)
<1>1. config \in Configs
  BY DEF SamplerInv, TypeOK
<1>2. s \in Nat
  BY <1>1, TrainItersType DEF TrainedInv
<1>3. PICK d \in Sizes(config) : trained[s] = StepOf(config, d, s)
  BY DEF TrainedInv
<1>4. SizeAt(s) = d
  BY <1>1, <1>3, SizeOfStep DEF SizeAt
<1>5. Slots(s) = SlotsIn(trained[s]) /\ \A x : SampleAt(s, x) = trained[s][x[1]][x[2]][x[3]]
  BY DEF Slots, SlotsIn, SampleAt
<1>6. /\ \A x \in SlotsIn(trained[s]) :
            /\ x \in AllSlots(config, d)
            /\ trained[s][x[1]][x[2]][x[3]]
                 = SampleOf(config, d, x[1], Start(config, d, s, x[2]), x[3])
      /\ \A x \in AllSlots(config, d) : x \in SlotsIn(trained[s])
            <=> (config.kind = "single" => Place(config, d, s, x) < config.total)
  BY <1>1, <1>2, <1>3, StepSlots
<1>7. \A x \in AllSlots(config, d) :
         EpochOf(s, x) = Start(config, d, s, x[2]) \div Active(config, d)
  BY <1>1, <1>2, <1>4, EpochOfPlace DEF EpochOf
<1>8. ASSUME NEW x \in Slots(s)
      PROVE  /\ x \in AllSlots(config, d)
             /\ SampleAt(s, x) = SampleOf(config, d, x[1], Start(config, d, s, x[2]), x[3])
             /\ EpochOf(s, x) = Start(config, d, s, x[2]) \div Active(config, d)
  BY <1>5, <1>6, <1>7
<1>9. ASSUME NEW x \in AllSlots(config, d), config.kind # "single"
      PROVE  x \in Slots(s)
  BY <1>5, <1>6, <1>9
<1> QED
  BY <1>1, <1>2, <1>3, <1>4, <1>8, <1>9

LEMMA SamplesAreDistinct ==
    ASSUME OrdersArePermutations, SamplerInv, TrainedInv
    PROVE  NoSampleTwice
<1> SUFFICES ASSUME NEW s \in DOMAIN trained, NEW t \in DOMAIN trained,
                    IsTrained(s), IsTrained(t), SameOrder(config, SizeAt(s), SizeAt(t)),
                    NEW x \in Slots(s), NEW y \in Slots(t), <<s, x>> # <<t, y>>,
                    config.kind = "single" \/ EpochOf(s, x) = EpochOf(t, y),
                    SampleAt(s, x) = SampleAt(t, y), SampleAt(s, x) # Pad
             PROVE  FALSE
  BY DEF NoSampleTwice
<1> DEFINE c == config
           d == SizeAt(s)
           e == SizeAt(t)
<1>1. /\ s \in Nat /\ c \in Configs /\ d \in Sizes(c) /\ x \in AllSlots(c, d)
      /\ SampleAt(s, x) = SampleOf(c, d, x[1], Start(c, d, s, x[2]), x[3])
      /\ EpochOf(s, x) = Start(c, d, s, x[2]) \div Active(c, d)
  BY TrainedStep
<1>2. /\ t \in Nat /\ e \in Sizes(c) /\ y \in AllSlots(c, e)
      /\ SampleAt(t, y) = SampleOf(c, e, y[1], Start(c, e, t, y[2]), y[3])
      /\ EpochOf(t, y) = Start(c, e, t, y[2]) \div Active(c, e)
  BY TrainedStep
<1>3. s = t => d = e
  OBVIOUS
<1>4. /\ SameOrder(c, d, e)
      /\ c.kind = "single" \/ Start(c, d, s, x[2]) \div Active(c, d)
                                  = Start(c, e, t, y[2]) \div Active(c, e)
      /\ SampleOf(c, d, x[1], Start(c, d, s, x[2]), x[3])
           = SampleOf(c, e, y[1], Start(c, e, t, y[2]), y[3])
      /\ SampleOf(c, d, x[1], Start(c, d, s, x[2]), x[3]) # Pad
  BY <1>1, <1>2
<1> HIDE DEF c, d, e
<1>5. s = t /\ (d = e => x = y)
  BY <1>1, <1>2, <1>4, DistinctSamples
<1> QED
  BY <1>3, <1>5

\* Within an epoch no sample is trained twice, by one rank or by two, around a restart in
\* the middle of it or not, for every data set, batch size and number of ranks.
THEOREM SamplesTrainedOnce ==
    ASSUME OrdersArePermutations, \A c \in Configs : RanksAlike(c)
    PROVE  Spec => []NoSampleTwice
<1>1. OrdersAreIndices
  BY ShufflesAreIndices
<1>2. SamplerInv /\ BatchesInv => NoSampleTwice
  BY SamplesAreDistinct DEF BatchesInv, SamplerInv, TypeOK
<1>3. Spec => [](SamplerInv /\ BatchesInv)
  BY <1>1, BatchesAlways
<1> QED
  BY <1>2, <1>3, PTL

-----------------------------------------------------------------------------
(* Epochs are whole. *)

\* In a job configured by epochs, an epoch is so many steps and holds the data set.
LEMMA StepsOfEpoch ==
    ASSUME NEW c \in Configs, c.epochs > 0
    PROVE  LET n == CeilDiv(c.total, c.gbs)
           IN  /\ c.kind = "batch" /\ ~c.drop /\ c.epochs \in Nat \ {0} /\ c.gbs \in Nat \ {0}
               /\ n \in Nat \ {0} /\ TrainIters(c) = c.epochs * n
               /\ \A d : Active(c, d) = n * c.gbs
               /\ c.total \in Nat /\ c.total <= n * c.gbs
<1> DEFINE g == c.gbs
           total == c.total
           n == CeilDiv(total, g)
<1>1. /\ c.kind = "batch" /\ ~c.drop /\ c.epochs \in Nat \ {0}
      /\ g \in Nat \ {0} /\ total \in Nat \ {0}
  BY SamplerConstants DEF SamplerConstants
<1>2. TrainIters(c) = c.epochs * n /\ \A d : Active(c, d) = n * g
  BY <1>1 DEF TrainIters, Active
<1> HIDE DEF g, total
<1>3. n \in Nat /\ \A i \in Int : i <= n <=> (i - 1) * g < total
  BY <1>1, CeilOf
<1> HIDE DEF n
<1>4. n # 0
  <2>1. (1 - 1) * g = 0 /\ 0 < total /\ 1 \in Int
    BY <1>1
  <2>2. 1 <= n
    BY <1>3, <2>1
  <2> QED
    BY <2>2
<1>5. total <= n * g
  <2>1. n + 1 \in Int /\ ~(n + 1 <= n) /\ (n + 1) - 1 = n
    BY <1>3
  <2>2. ~(n * g < total)
    BY <1>3, <2>1
  <2>3. n * g \in Nat
    BY <1>1, <1>3
  <2> QED
    BY <1>1, <2>2, <2>3
<1> QED
  BY <1>1, <1>2, <1>3, <1>4, <1>5 DEF n, g, total

LEMMA EpochsAreWhole ==
    ASSUME OrdersArePermutations, SamplerInv, TrainedInv
    PROVE  EpochsTrainEverySample
<1> DEFINE Seen(i) == UNION {{<<s, x>> : x \in {y \in Slots(s) : SampleAt(s, y) = i}}
                                : s \in DOMAIN trained}
<1> SUFFICES ASSUME TrainingDone, config.epochs > 0, NEW i \in 0 .. config.total - 1
             PROVE  config.epochs = Cardinality(Seen(i))
  BY DEF EpochsTrainEverySample
<1> DEFINE c == config
           g == c.gbs
           n == CeilDiv(c.total, g)
           E == c.epochs
           Z == Seen(i)
<1>1. /\ c \in Configs /\ c.kind = "batch" /\ ~c.drop
      /\ E \in Nat \ {0} /\ g \in Nat \ {0} /\ n \in Nat \ {0}
      /\ TrainIters(c) = E * n /\ \A d : Active(c, d) = n * g
      /\ c.total \in Nat /\ c.total <= n * g /\ Shuffled(c) = c.total
  <2>1. c \in Configs
    BY DEF SamplerInv, TypeOK
  <2> QED
    BY <2>1, StepsOfEpoch DEF Shuffled
<1>2. DOMAIN trained = 0 .. E * n - 1 /\ E * n \in Nat
  <2>1. DOMAIN trained = 0 .. E * n - 1
    BY <1>1 DEF TrainedInv
  <2>2. E * n \in Nat
    <3> HIDE DEF E, n
    <3> QED
      BY <1>1
  <2> QED
    BY <2>1, <2>2
<1>3. \A s \in DOMAIN trained : IsTrained(s)
  <2> TAKE s \in DOMAIN trained
  <2>1. PICK t \in 0 .. TrainIters(c) : position = t * g
    BY DEF SamplerInv, TypeOK
  <2>2. t = TrainIters(c)
    <3>1. t \in Nat
      BY <1>1, TrainItersType
    <3>2. (t * g) \div g = t
      BY <1>1, <3>1, ExactDivision
    <3> QED
      BY <2>1, <3>2 DEF TrainingDone, CurrentStep
  <2>3. s * g < position
    <3> DEFINE k == E * n
    <3> HIDE DEF E, n, g, c, k
    <3>1. s \in Nat /\ s + 1 <= k /\ k \in Nat
      BY <1>2 DEF k
    <3>2. (s + 1) * g <= k * g
      BY <1>1, <3>1, Products
    <3>3. (s + 1) * g = s * g + g /\ s * g \in Nat /\ k * g \in Nat
      BY <1>1, <3>1
    <3>4. position = k * g
      BY <1>1, <2>1, <2>2 DEF k
    <3> QED
      BY <1>1, <3>2, <3>3, <3>4
  <2> QED
    BY <2>3 DEF TrainedInv
<1>4. \A z : z \in Z <=>
          \E s \in DOMAIN trained : \E x \in Slots(s) : SampleAt(s, x) = i /\ z = <<s, x>>
  <2>1. ASSUME NEW z, z \in Z
        PROVE  \E s \in DOMAIN trained : \E x \in Slots(s) : SampleAt(s, x) = i /\ z = <<s, x>>
    <3>1. PICK s \in DOMAIN trained :
                 z \in {<<s, x>> : x \in {y \in Slots(s) : SampleAt(s, y) = i}}
      BY <2>1
    <3> QED
      BY <3>1
  <2>2. ASSUME NEW s \in DOMAIN trained, NEW x \in Slots(s), SampleAt(s, x) = i
        PROVE  <<s, x>> \in Z
    <3>1. <<s, x>> \in {<<s, w>> : w \in {y \in Slots(s) : SampleAt(s, y) = i}}
      BY <2>2
    <3> QED
      BY <3>1
  <2> HIDE DEF Z
  <2> QED
    BY <2>1, <2>2
\* The epoch of a sample is that of its step.
<1>5. ASSUME NEW s \in DOMAIN trained, NEW x \in Slots(s)
      PROVE  EpochOf(s, x) = s \div n
  <2> DEFINE d == SizeAt(s)
  <2>1. /\ s \in Nat /\ d \in Sizes(c) /\ x \in AllSlots(c, d)
        /\ EpochOf(s, x) = Start(c, d, s, x[2]) \div Active(c, d)
    BY <1>3, TrainedStep
  <2>2. x[2] = 1
    BY <1>1, <2>1 DEF AllSlots, Draws
  <2>3. Start(c, d, s, x[2]) = g * s
    <3>1. Start(c, d, s, x[2]) = s * g + g * (1 - 1)
      BY <1>1, <2>2 DEF Start, Unit
    <3> HIDE DEF g
    <3>2. s * g + g * (1 - 1) = g * s
      BY <1>1, <2>1
    <3> QED
      BY <3>1, <3>2
  <2>4. Active(c, d) = g * n
    <3> HIDE DEF g, n, d
    <3> QED
      BY <1>1
  <2>5. (g * s) \div (g * n) = s \div n
    <3> HIDE DEF g, n
    <3> QED
      BY <1>1, <2>1, UnitsOfEpoch
  <2> QED
    BY <2>1, <2>3, <2>4, <2>5
<1> DEFINE f == [z \in Z |-> z[1] \div n]
<1>6. f \in [Z -> 0 .. E - 1]
  <2>1. ASSUME NEW z \in Z
        PROVE  z[1] \div n \in 0 .. E - 1
    <3>1. PICK s \in DOMAIN trained : z[1] = s
      BY <1>4
    <3> HIDE DEF E, n, c
    <3>2. PICK a \in 0 .. E - 1, b \in 0 .. n - 1 : s = a * n + b
      <4>1. s \in 0 .. E * n - 1
        BY <1>2
      <4>2. E \in Nat \ {0} /\ n \in Nat \ {0}
        BY <1>1
      <4> QED
        BY <4>1, <4>2, TwoDigits
    <3>3. a \in Nat
      BY <1>1
    <3>4. (a * n + b) \div n = a
      BY <1>1, <3>3, Quotient
    <3> QED
      BY <3>1, <3>2, <3>4
  <2> HIDE DEF Z, n, E
  <2> QED
    BY <2>1
<1>7. ASSUME NEW z \in Z, NEW w \in Z, f[z] = f[w]
      PROVE  z = w
  <2> HIDE DEF Z
  <2>8. PICK s \in DOMAIN trained :
               \E x \in Slots(s) : SampleAt(s, x) = i /\ z = <<s, x>>
    BY <1>4
  <2>1. PICK x \in Slots(s) : SampleAt(s, x) = i /\ z = <<s, x>>
    BY <2>8
  <2>7. PICK t \in DOMAIN trained :
               \E y \in Slots(t) : SampleAt(t, y) = i /\ w = <<t, y>>
    BY <1>4
  <2>2. PICK y \in Slots(t) : SampleAt(t, y) = i /\ w = <<t, y>>
    BY <2>7
  <2>3. EpochOf(s, x) = EpochOf(t, y)
    <3>1. EpochOf(s, x) = s \div n /\ EpochOf(t, y) = t \div n
      BY <1>5
    <3>2. f[z] = s \div n /\ f[w] = t \div n
      BY <2>1, <2>2
    <3> HIDE DEF f, n
    <3> QED
      BY <1>7, <3>1, <3>2
  <2>4. i # Pad
    BY <1>1 DEF Pad
  <2>5. SameOrder(config, SizeAt(s), SizeAt(t))
    BY <1>1 DEF SameOrder
  <2>6. NoSampleTwice
    BY SamplesAreDistinct
  <2> QED
    BY <1>3, <2>1, <2>2, <2>3, <2>4, <2>5, <2>6 DEF NoSampleTwice
<1>8. ASSUME NEW a \in 0 .. E - 1
      PROVE  \E z \in Z : f[z] = a
  <2>0. a \in Nat /\ c.total \in Nat
    BY <1>1
  <2>1. PICK v \in 1 .. c.total : Perm(c.total, a, v) = i
    BY <2>0, PermOnto
  <2>2. v - 1 \in 0 .. n * g - 1 /\ (v - 1) + 1 = v /\ v - 1 \in Nat /\ v - 1 < c.total
    <3> DEFINE k == n * g
               total == c.total
    <3>1. k \in Nat
      <4> HIDE DEF n, g
      <4> QED
        BY <1>1
    <3>2. total <= k /\ v \in 1 .. total /\ total \in Nat
      BY <1>1
    <3> HIDE DEF k, total
    <3>3. v - 1 \in 0 .. k - 1 /\ (v - 1) + 1 = v /\ v - 1 \in Nat /\ v - 1 < total
      BY <3>1, <3>2
    <3> QED
      BY <3>3 DEF k, total
  <2> DEFINE u == v - 1
  <2> HIDE DEF n, g, E, c, Z, u
  <2>3. PICK b \in 0 .. n - 1, o \in 0 .. g - 1 : u = b * g + o
    BY <1>1, <2>2, TwoDigits DEF u
  <2> DEFINE s == a * n + b
  <2>4. s \in DOMAIN trained
    <3>1. a * n + b \in 0 .. E * n - 1
      BY <1>1, TwoDigits
    <3> QED
      BY <1>2, <3>1
  <2>5. s \in Nat /\ s \div n = a
    BY <1>1, <2>0, Quotient
  <2>6. s * g + o = a * (n * g) + u
    <3>1. s * g = (a * n) * g + b * g /\ (a * n) * g = a * (n * g)
      BY <1>1, <2>0
    <3>2. (a * n) * g \in Nat /\ b * g \in Nat /\ o \in Nat
      BY <1>1, <2>0
    <3> QED
      BY <2>3, <3>1, <3>2
  <2> DEFINE d == SizeAt(s)
  <2> HIDE DEF s
  <2>7. /\ d \in Sizes(c)
        /\ \A x \in Slots(s) :
              SampleAt(s, x) = SampleOf(c, d, x[1], Start(c, d, s, x[2]), x[3])
        /\ \A x \in AllSlots(c, d) : x \in Slots(s)
    BY <1>1, <1>3, <2>4, TrainedStep DEF c
  <2> HIDE DEF d
  <2>8. PICK x \in AllSlots(c, d) : Place(c, d, s, x) = s * g + o
    BY <1>1, <2>5, <2>7, PlaceExists DEF g
  <2>9. SampleOf(c, d, x[1], Start(c, d, s, x[2]), x[3]) = Value(c, d, a * (n * g) + u)
    BY <1>1, <2>5, <2>6, <2>7, <2>8, SampleAtPlace
  <2>10. Value(c, d, a * (n * g) + u) = i
    <3> DEFINE A == n * g
    <3>1. A \in Nat \ {0} /\ u \in 0 .. A - 1
      BY <1>1, <2>2 DEF u
    <3>2. Active(c, d) = A /\ Shuffled(c) = c.total
      BY <1>1
    <3> HIDE DEF A
    <3>3. (a * A + u) \div A = a /\ (a * A + u) % A = u
      BY <2>0, <3>1, Quotient
    <3>4. u < c.total /\ u + 1 = v
      BY <2>2 DEF u
    <3>5. Value(c, d, a * A + u) = Perm(c.total, a, v)
      BY <1>1, <3>2, <3>3, <3>4 DEF Value
    <3> QED
      BY <2>1, <3>5 DEF A
  <2>11. x \in Slots(s) /\ SampleAt(s, x) = i
    BY <2>7, <2>8, <2>9, <2>10
  <2>12. <<s, x>> \in Z
    BY <1>4, <2>4, <2>11
  <2>13. f[<<s, x>>] = a
    BY <2>5, <2>12
  <2> QED
    BY <2>12, <2>13
<1> HIDE DEF f, Z, E
<1>9. f \in Injection(Z, 0 .. E - 1) /\ f \in Surjection(Z, 0 .. E - 1)
  BY <1>6, <1>7, <1>8 DEF Injection, IsInjective, Surjection
<1>10. IsFiniteSet(0 .. E - 1) /\ Cardinality(0 .. E - 1) = E
  <2>1. E \in Nat \ {0} /\ E - 1 \in Int
    BY <1>1
  <2>2. IsFiniteSet(0 .. E - 1) /\ Cardinality(0 .. E - 1) = IF 0 > E - 1 THEN 0 ELSE E - 1 - 0 + 1
    BY <2>1, FS_Interval
  <2> QED
    BY <2>1, <2>2
<1>11. Cardinality(Z) = Cardinality(0 .. E - 1)
  BY <1>9, <1>10, FS_Injection
<1> QED
  BY <1>10, <1>11 DEF Z, E

\* A job configured by epochs has, when it is done, trained every sample of the data set
\* once per epoch: with any remainder of the data set, any batch sizes and any restarts.
THEOREM EpochsAreComplete ==
    ASSUME OrdersArePermutations
    PROVE  Spec => []EpochsTrainEverySample
<1>1. OrdersAreIndices
  BY ShufflesAreIndices
<1>2. SamplerInv /\ BatchesInv => EpochsTrainEverySample
  <2> SUFFICES ASSUME SamplerInv, BatchesInv, config.epochs > 0
               PROVE  EpochsTrainEverySample
    BY DEF EpochsTrainEverySample
  <2>1. config \in Configs
    BY DEF SamplerInv, TypeOK
  <2>2. RanksAlike(config)
    BY <2>1, StepsOfEpoch DEF RanksAlike
  <2> QED
    BY <2>2, EpochsAreWhole DEF BatchesInv
<1>3. Spec => [](SamplerInv /\ BatchesInv)
  BY <1>1, BatchesAlways
<1> QED
  BY <1>2, <1>3, PTL
=============================================================================
