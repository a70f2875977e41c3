----------------------------- MODULE WeightLayouts -----------------------------
(***************************************************************************)
(* How a weight of a HuggingFace checkpoint is laid out over the ranks of  *)
(* a tensor-parallel group, and back (models/conversion/param_mapping.py). *)
(*                                                                         *)
(* A tensor is the sequence of its slices along the dimension that is      *)
(* split: the rows of a column-parallel weight, the columns of a           *)
(* row-parallel one, the heads of an attention projection.                 *)
(***************************************************************************)
EXTENDS Integers, Sequences

Zero == <<"zero">>    \* the slices that padding adds

\* torch.chunk into n equal parts, counted from 0, and torch.cat of equal parts.
Part(s, n, k) == [i \in 1 .. Len(s) \div n |-> s[k * (Len(s) \div n) + i]]
Cat(part, n)  == LET m == Len(part[0])
                 IN  [i \in 1 .. n * m |-> part[(i - 1) \div m][((i - 1) % m) + 1]]

PadRight(s, n) == [i \in 1 .. n |-> IF i <= Len(s) THEN s[i] ELSE Zero]

-----------------------------------------------------------------------------
\* Attention.  h heads in g groups; with an output gate (gated) the rows of a query head
\* are followed by the rows of its gate.

HeadsPerGroup(h, g) == h \div g
GroupWidth(h, g, gated) == (IF gated THEN 2 * HeadsPerGroup(h, g) ELSE HeadsPerGroup(h, g)) + 2

QueryRow(gated, head) == IF gated THEN 2 * head + 1 ELSE head + 1

\* Group after group: its queries, the gates of its queries, its key, its value.
MergeQKV(h, g, gated, q, k, v) ==
    LET n == HeadsPerGroup(h, g)
        w == GroupWidth(h, g, gated)
    IN  [i \in 1 .. g * w |->
            LET group == (i - 1) \div w
                place == (i - 1) % w
            IN  IF place < n THEN q[QueryRow(gated, group * n + place)]
                ELSE IF place < w - 2 THEN q[QueryRow(gated, group * n + place - n) + 1]
                ELSE IF place = w - 2 THEN k[group + 1] ELSE v[group + 1]]

\* Where head number `head' is in the merged tensor.
QuerySlice(h, g, gated, head) ==
    GroupWidth(h, g, gated) * (head \div HeadsPerGroup(h, g)) + (head % HeadsPerGroup(h, g)) + 1

SplitQ(h, g, gated, qkv) ==
    IF gated
    THEN [i \in 1 .. 2 * h |-> LET at == QuerySlice(h, g, gated, (i - 1) \div 2)
                               IN  IF i % 2 = 1 THEN qkv[at] ELSE qkv[at + HeadsPerGroup(h, g)]]
    ELSE [i \in 1 .. h |-> qkv[QuerySlice(h, g, gated, i - 1)]]

SplitK(h, g, gated, qkv) == [i \in 1 .. g |-> qkv[i * GroupWidth(h, g, gated) - 1]]
SplitV(h, g, gated, qkv) == [i \in 1 .. g |-> qkv[i * GroupWidth(h, g, gated)]]

-----------------------------------------------------------------------------
\* The gated MLP.

\* Mutant: the fused tensor is chunked as a whole.
GatedShardFused(gate, up, n, k) == Part(gate \o up, n, k)

\* The shard of rank k: its part of the gate, then its part of the up projection.
GatedShard(gate, up, n, k) == Part(gate, n, k) \o Part(up, n, k)

Halves(shards, n, half) == Cat([k \in 0 .. n - 1 |-> Part(shards[k], 2, half)], n)

\* Gate and up, each put together from the halves of the shards.
UngatedShards(shards, n) == Halves(shards, n, 0) \o Halves(shards, n, 1)
=============================================================================
