-------------------------- MODULE WeightLayouts_proofs --------------------------
(***************************************************************************)
(* What scatter and merge take apart, gather and split put together again: *)
(* for tensors of every size, any number of ranks, heads and groups.       *)
(***************************************************************************)
EXTENDS WeightLayouts, SequenceTheorems, TLAPS

-----------------------------------------------------------------------------
\* Arithmetic.

LEMMA Quotient ==
    ASSUME NEW w \in Nat \ {0}, NEW a \in Nat, NEW b \in 0 .. w - 1
    PROVE  (w * a + b) \div w = a /\ (w * a + b) % w = b
<1> DEFINE x == w * a + b
           q == x \div w
           r == x % w
<1>1. x \in Nat /\ w * a \in Nat
  OBVIOUS
<1>2. q \in Int /\ r \in 0 .. w - 1 /\ x = w * q + r
  <2> HIDE DEF x
  <2> QED
    BY <1>1
<1> HIDE DEF q, r
<1>3. w * a + b = w * q + r
  BY <1>2
<1>4. w * (a - q) = w * a - w * q
  BY <1>2
<1>5. w * (a - q) = r - b
  BY <1>2, <1>3, <1>4, <1>1
<1>6. ~(a - q >= 1)
  <2>1. SUFFICES ASSUME a - q >= 1 PROVE FALSE
    OBVIOUS
  <2>2. w * (a - q) >= w
    BY <2>1, <1>2
  <2> QED
    BY <2>2, <1>5, <1>2
<1>7. ~(a - q <= -1)
  <2>1. SUFFICES ASSUME a - q <= -1 PROVE FALSE
    OBVIOUS
  <2>2. w * (a - q) <= -w
    BY <2>1, <1>2
  <2> QED
    BY <2>2, <1>5, <1>2
<1>8. q = a
  BY <1>6, <1>7, <1>2
<1>9. r = b
  BY <1>8, <1>3, <1>1, <1>2
<1> QED
  BY <1>8, <1>9 DEF q, r, x

\* Position i - 1 of a sequence of n blocks of m, as a block and a place in it.
LEMMA BlockAndPlace ==
    ASSUME NEW n \in Nat \ {0}, NEW m \in Nat \ {0}, NEW i \in 1 .. n * m
    PROVE  /\ (i - 1) \div m \in 0 .. n - 1
           /\ (i - 1) % m \in 0 .. m - 1
           /\ ((i - 1) \div m) * m + ((i - 1) % m) = i - 1
<1> DEFINE q == (i - 1) \div m
           r == (i - 1) % m
<1>1. i - 1 \in Nat /\ n * m \in Nat /\ i - 1 < n * m
  OBVIOUS
<1>2. q \in Int /\ r \in 0 .. m - 1 /\ i - 1 = m * q + r
  BY <1>1
<1> HIDE DEF q, r
<1>3. q >= 0
  <2>1. SUFFICES ASSUME q <= -1 PROVE FALSE
    BY <1>2
  <2>2. m * q <= -m
    BY <2>1, <1>2
  <2> QED
    BY <2>2, <1>2, <1>1
<1>4. q <= n - 1
  <2>1. SUFFICES ASSUME q >= n PROVE FALSE
    BY <1>2
  <2>2. m * q >= m * n
    BY <2>1, <1>2
  <2> QED
    BY <2>2, <1>2, <1>1
<1>5. q * m = m * q
  BY <1>2
<1> QED
  BY <1>2, <1>3, <1>4, <1>5 DEF q, r

LEMMA ExactQuotient ==
    ASSUME NEW n \in Nat \ {0}, NEW m \in Nat
    PROVE  (n * m) \div n = m
<1>1. n * m + 0 = n * m /\ 0 \in 0 .. n - 1
  OBVIOUS
<1> QED
  BY <1>1, Quotient

-----------------------------------------------------------------------------
\* Parts of a tensor.

LEMMA PartType ==
    ASSUME NEW S, NEW s \in Seq(S), NEW n \in Nat \ {0}, NEW m \in Nat \ {0},
           Len(s) = n * m, NEW k \in 0 .. n - 1
    PROVE  /\ Part(s, n, k) \in Seq(S)
           /\ Len(Part(s, n, k)) = m
           /\ \A i \in 1 .. m : Part(s, n, k)[i] = s[k * m + i]
<1>1. Len(s) \div n = m
  BY ExactQuotient
<1>2. Part(s, n, k) = [i \in 1 .. m |-> s[k * m + i]]
  BY <1>1 DEF Part
<1>3. ASSUME NEW i \in 1 .. m
      PROVE  s[k * m + i] \in S
  <2>1. k * m \in Nat /\ (k + 1) * m <= n * m /\ (k + 1) * m = k * m + m
    OBVIOUS
  <2>2. k * m + i \in 1 .. Len(s)
    BY <2>1
  <2> QED
    BY <2>2, ElementOfSeq
<1>4. [i \in 1 .. m |-> s[k * m + i]] \in Seq(S)
  BY <1>3, IsASeq
<1> QED
  BY <1>2, <1>4

\* What the ranks of a tensor-parallel group hold of a column- or row-parallel weight,
\* gathered in the order of the ranks, is the weight (param_mapping.py:1003, 1040).
THEOREM CatOfParts ==
    ASSUME NEW S, NEW s \in Seq(S), NEW n \in Nat \ {0}, NEW m \in Nat \ {0}, Len(s) = n * m
    PROVE  Cat([k \in 0 .. n - 1 |-> Part(s, n, k)], n) = s
<1> DEFINE part == [k \in 0 .. n - 1 |-> Part(s, n, k)]
<1>1. Len(part[0]) = m
  BY PartType
<1>2. \A k \in 0 .. n - 1, i \in 1 .. m : part[k][i] = s[k * m + i]
  BY PartType
<1> HIDE DEF part
<1>3. Cat(part, n) = [i \in 1 .. n * m |-> part[(i - 1) \div m][((i - 1) % m) + 1]]
  BY <1>1 DEF Cat
<1>4. ASSUME NEW i \in 1 .. n * m
      PROVE  part[(i - 1) \div m][((i - 1) % m) + 1] = s[i]
  <2> DEFINE q == (i - 1) \div m
             r == (i - 1) % m
  <2>1. q \in 0 .. n - 1 /\ r \in 0 .. m - 1 /\ q * m + r = i - 1
    BY BlockAndPlace
  <2> HIDE DEF q, r
  <2>2. part[q][r + 1] = s[q * m + (r + 1)]
    BY <2>1, <1>2
  <2>3. q * m + (r + 1) = i
    BY <2>1
  <2> QED
    BY <2>2, <2>3 DEF q, r
<1>5. [i \in 1 .. n * m |-> s[i]] = s
  <2>1. s = [i \in 1 .. Len(s) |-> s[i]]
    BY SeqDef, LenProperties
  <2> QED
    BY <2>1
<1> QED
  BY <1>3, <1>4, <1>5 DEF part

-----------------------------------------------------------------------------
\* The gated MLP.

LEMMA HalvesOfShard ==
    ASSUME NEW S, NEW a \in Seq(S), NEW b \in Seq(S), NEW m \in Nat \ {0},
           Len(a) = m, Len(b) = m
    PROVE  Part(a \o b, 2, 0) = a /\ Part(a \o b, 2, 1) = b
<1> DEFINE c == a \o b
<1>1. c \in Seq(S) /\ Len(c) = 2 * m
  BY ConcatProperties
<1>2. \A i \in 1 .. m : c[i] = a[i] /\ c[m + i] = b[i]
  BY ConcatProperties
<1> HIDE DEF c
<1>3. Len(c) \div 2 = m
  BY <1>1, ExactQuotient
<1>4. Part(c, 2, 0) = [i \in 1 .. m |-> a[i]] /\ Part(c, 2, 1) = [i \in 1 .. m |-> b[i]]
  BY <1>2, <1>3 DEF Part
<1>5. a = [i \in 1 .. m |-> a[i]] /\ b = [i \in 1 .. m |-> b[i]]
  BY SeqDef, LenProperties
<1> QED
  BY <1>4, <1>5 DEF c

\* The gate of a rank, then its up projection.
LEMMA TwoParts ==
    ASSUME NEW S, NEW n \in Nat \ {0}, NEW m \in Nat \ {0}, NEW k \in 0 .. n - 1
    PROVE  \A a, b \in Seq(S) : Len(a) = n * m /\ Len(b) = n * m =>
              /\ GatedShard(a, b, n, k) \in Seq(S) /\ Len(GatedShard(a, b, n, k)) = 2 * m
              /\ \A i \in 1 .. m : /\ GatedShard(a, b, n, k)[i] = a[k * m + i]
                                  /\ GatedShard(a, b, n, k)[m + i] = b[k * m + i]
                                  /\ k * m + i \in 1 .. n * m
<1>p. ASSUME NEW c \in Seq(S), Len(c) = n * m
      PROVE  /\ Part(c, n, k) \in Seq(S) /\ Len(Part(c, n, k)) = m
             /\ \A i \in 1 .. m : Part(c, n, k)[i] = c[k * m + i]
  <2>1. Len(c) \div n = m
    BY <1>p, ExactQuotient
  <2>2. Part(c, n, k) = [i \in 1 .. m |-> c[k * m + i]]
    BY <2>1 DEF Part
  <2>3. ASSUME NEW i \in 1 .. m PROVE c[k * m + i] \in S
    <3>1. k * m \in Nat /\ (k + 1) * m <= n * m /\ (k + 1) * m = k * m + m
      OBVIOUS
    <3>2. k * m + i \in 1 .. Len(c)
      BY <1>p, <3>1
    <3> QED BY <3>2, ElementOfSeq
  <2>4. [i \in 1 .. m |-> c[k * m + i]] \in Seq(S)
    BY <2>3, IsASeq
  <2> QED BY <2>2, <2>4
<1> SUFFICES ASSUME NEW a \in Seq(S), NEW b \in Seq(S), Len(a) = n * m, Len(b) = n * m
             PROVE  /\ GatedShard(a, b, n, k) \in Seq(S) /\ Len(GatedShard(a, b, n, k)) = 2 * m
                    /\ \A i \in 1 .. m : /\ GatedShard(a, b, n, k)[i] = a[k * m + i]
                                        /\ GatedShard(a, b, n, k)[m + i] = b[k * m + i]
                                        /\ k * m + i \in 1 .. n * m
  BY Zenon
<1>1. /\ Part(a, n, k) \in Seq(S) /\ Len(Part(a, n, k)) = m
      /\ \A i \in 1 .. m : Part(a, n, k)[i] = a[k * m + i]
  BY <1>p
<1>6. /\ Part(b, n, k) \in Seq(S) /\ Len(Part(b, n, k)) = m
      /\ \A i \in 1 .. m : Part(b, n, k)[i] = b[k * m + i]
  BY <1>p
<1> DEFINE x == Part(a, n, k)
           y == Part(b, n, k)
           z == x \o y
<1>2. GatedShard(a, b, n, k) = z
  BY DEF GatedShard
<1>s. x \in Seq(S) /\ y \in Seq(S) /\ Len(x) = m /\ Len(y) = m
  BY <1>1, <1>6
<1>r. \A i \in 1 .. m : x[i] = a[k * m + i] /\ y[i] = b[k * m + i]
  BY <1>1, <1>6
<1> HIDE DEF x, y
<1>3. /\ z \in Seq(S) /\ Len(z) = Len(x) + Len(y)
      /\ \A i \in 1 .. Len(x) + Len(y) : z[i] = IF i <= Len(x) THEN x[i] ELSE y[i - Len(x)]
  BY <1>s, ConcatProperties, Zenon
<1> HIDE DEF z
<1>7. Len(z) = 2 * m
  BY <1>3, <1>s
<1>4. ASSUME NEW i \in 1 .. m PROVE z[i] = x[i] /\ z[m + i] = y[i]
  <2>1. i \in 1 .. m + m /\ m + i \in 1 .. m + m /\ ~(m + i <= m) /\ m + i - m = i
    OBVIOUS
  <2> QED BY <2>1, <1>3, <1>s
<1>5. ASSUME NEW i \in 1 .. m PROVE k * m + i \in 1 .. n * m
  <2>1. k * m \in Nat /\ (n - 1 - k) * m \in Nat /\ k * m + (n - 1 - k) * m + m = n * m
    OBVIOUS
  <2> QED BY <2>1
<1>8. \A i \in 1 .. m : z[i] = a[k * m + i] /\ z[m + i] = b[k * m + i] /\ k * m + i \in 1 .. n * m
  BY <1>r, <1>4, <1>5
<1> QED BY <1>2, <1>3, <1>7, <1>8

\* The shards of the ranks, each its part of the gate and its part of the up projection,
\* give back the gate and the up projection (param_mapping.py:2654 and 2695).
THEOREM GatedRoundTrip ==
    ASSUME NEW S, NEW gate \in Seq(S), NEW up \in Seq(S),
           NEW n \in Nat \ {0}, NEW m \in Nat \ {0}, Len(gate) = n * m, Len(up) = n * m
    PROVE  UngatedShards([k \in 0 .. n - 1 |-> GatedShard(gate, up, n, k)], n) = gate \o up
<1> DEFINE shards == [k \in 0 .. n - 1 |-> GatedShard(gate, up, n, k)]
<1>1. ASSUME NEW k \in 0 .. n - 1
      PROVE  /\ Part(shards[k], 2, 0) = Part(gate, n, k)
             /\ Part(shards[k], 2, 1) = Part(up, n, k)
  <2> DEFINE g == Part(gate, n, k)
             u == Part(up, n, k)
  <2>1. /\ g \in Seq(S) /\ Len(g) = m
        /\ u \in Seq(S) /\ Len(u) = m
    BY PartType
  <2>2. shards[k] = g \o u
    BY DEF GatedShard
  <2> HIDE DEF g, u, shards
  <2>3. Part(g \o u, 2, 0) = g /\ Part(g \o u, 2, 1) = u
    BY <2>1, HalvesOfShard
  <2> QED
    BY <2>2, <2>3 DEF g, u
<1> HIDE DEF shards
<1>2. /\ Halves(shards, n, 0) = Cat([k \in 0 .. n - 1 |-> Part(gate, n, k)], n)
      /\ Halves(shards, n, 1) = Cat([k \in 0 .. n - 1 |-> Part(up, n, k)], n)
  <2>1. /\ [k \in 0 .. n - 1 |-> Part(shards[k], 2, 0)] = [k \in 0 .. n - 1 |-> Part(gate, n, k)]
        /\ [k \in 0 .. n - 1 |-> Part(shards[k], 2, 1)] = [k \in 0 .. n - 1 |-> Part(up, n, k)]
    BY <1>1
  <2> QED
    BY <2>1 DEF Halves
<1>3. Halves(shards, n, 0) = gate /\ Halves(shards, n, 1) = up
  BY <1>2, CatOfParts
<1> QED
  BY <1>3 DEF UngatedShards, shards

-----------------------------------------------------------------------------
\* Attention: g groups of c query heads each.

LEMMA Grouping ==
    ASSUME NEW c \in Nat \ {0}, NEW g \in Nat \ {0}, NEW gated \in BOOLEAN, NEW h, h = c * g
    PROVE  /\ HeadsPerGroup(h, g) = c
           /\ GroupWidth(h, g, gated) = IF gated THEN 2 * c + 2 ELSE c + 2
<1>1. h = g * c
  OBVIOUS
<1>2. (g * c) \div g = c
  BY ExactQuotient
<1> QED
  BY <1>1, <1>2 DEF HeadsPerGroup, GroupWidth

LEMMA WidthOfGroup ==
    ASSUME NEW c \in Nat \ {0}, NEW g \in Nat \ {0}, NEW gated \in BOOLEAN, NEW h, h = c * g
    PROVE  /\ GroupWidth(h, g, gated) \in Nat \ {0}
           /\ GroupWidth(h, g, gated) - 2 >= c
           /\ GroupWidth(h, g, gated) - 2 \in Nat
<1>1. HeadsPerGroup(h, g) = c /\ (GroupWidth(h, g, gated) = IF gated THEN 2 * c + 2 ELSE c + 2)
  BY Grouping
<1> QED
  BY <1>1

\* What place p of a group holds, with `first' the number of the first head of the group.
PlaceOfGroup(c, w, gated, q, k, v, b, p) ==
    IF p < c THEN q[QueryRow(gated, b * c + p)]
    ELSE IF p < w - 2 THEN q[QueryRow(gated, b * c + p - c) + 1]
    ELSE IF p = w - 2 THEN k[b + 1] ELSE v[b + 1]

\* What is at place p of group b of the merged tensor.
LEMMA MergedAt ==
    ASSUME NEW c \in Nat \ {0}, NEW g \in Nat \ {0}, NEW gated \in BOOLEAN, NEW h, h = c * g,
           NEW w \in Nat \ {0}, w = GroupWidth(h, g, gated), NEW q, NEW k, NEW v
    PROVE  \A b \in 0 .. g - 1 : \A p \in 0 .. w - 1 : \A i \in Int :
               i = w * b + p + 1 =>
                   MergeQKV(h, g, gated, q, k, v)[i] = PlaceOfGroup(c, w, gated, q, k, v, b, p)
<1> DEFINE at(j) == PlaceOfGroup(c, w, gated, q, k, v, (j - 1) \div w, (j - 1) % w)
<1>1. HeadsPerGroup(h, g) = c
  BY Grouping
<1>2. MergeQKV(h, g, gated, q, k, v) = [j \in 1 .. g * w |-> at(j)]
  BY <1>1 DEF MergeQKV, PlaceOfGroup
<1> SUFFICES ASSUME NEW b \in 0 .. g - 1, NEW p \in 0 .. w - 1, NEW i \in Int, i = w * b + p + 1
             PROVE  MergeQKV(h, g, gated, q, k, v)[i] = PlaceOfGroup(c, w, gated, q, k, v, b, p)
  OBVIOUS
<1>4. w * b \in Nat /\ w * (b + 1) <= g * w /\ w * (b + 1) = w * b + w
  OBVIOUS
<1>5. i \in 1 .. g * w /\ i - 1 = w * b + p
  BY <1>4
<1>6. (w * b + p) \div w = b /\ (w * b + p) % w = p
  <2> HIDE DEF at
  <2>1. w \in Nat \ {0} /\ b \in Nat /\ p \in Nat /\ p < w
    OBVIOUS
  <2> QED
    BY <2>1, Quotient
<1>7. MergeQKV(h, g, gated, q, k, v)[i] = at(i)
  BY <1>2, <1>5
<1>8. (i - 1) \div w = b /\ (i - 1) % w = p
  BY <1>5, <1>6
<1> QED
  BY <1>7, <1>8

\* Groups of w rows, each laid out by PlaceOfGroup.
LaidOut(c, g, w, gated, q, k, v, merged) ==
    \A b \in 0 .. g - 1 : \A p \in 0 .. w - 1 :
        merged[w * b + p + 1] = PlaceOfGroup(c, w, gated, q, k, v, b, p)

LEMMA MergeLaysOut ==
    ASSUME NEW c \in Nat \ {0}, NEW g \in Nat \ {0}, NEW gated \in BOOLEAN, NEW h, h = c * g,
           NEW w, w = GroupWidth(h, g, gated), NEW q, NEW k, NEW v
    PROVE  LaidOut(c, g, w, gated, q, k, v, MergeQKV(h, g, gated, q, k, v))
<1>1. w \in Nat \ {0}
  BY WidthOfGroup
<1>2. ASSUME NEW b \in 0 .. g - 1, NEW p \in 0 .. w - 1
      PROVE  MergeQKV(h, g, gated, q, k, v)[w * b + p + 1] = PlaceOfGroup(c, w, gated, q, k, v, b, p)
  <2> DEFINE i == w * b + p + 1
  <2>1. i \in Int
    BY <1>1
  <2> QED BY <1>1, <2>1, MergedAt
<1> QED BY <1>2 DEF LaidOut

\* Keys and values come back from the merged tensor (param_mapping.py:3300).
LEMMA KeysAndValues ==
    ASSUME NEW S, NEW c \in Nat \ {0}, NEW g \in Nat \ {0}, NEW gated \in BOOLEAN,
           NEW h, h = c * g,
           NEW q, NEW k \in Seq(S), NEW v \in Seq(S), Len(k) = g, Len(v) = g
    PROVE  /\ SplitK(h, g, gated, MergeQKV(h, g, gated, q, k, v)) = k
           /\ SplitV(h, g, gated, MergeQKV(h, g, gated, q, k, v)) = v
<1> DEFINE w == GroupWidth(h, g, gated)
           merged == MergeQKV(h, g, gated, q, k, v)
<1>1. w \in Nat \ {0} /\ w - 2 >= c /\ w - 2 \in Nat
  BY WidthOfGroup
<1>2. \A b \in 0 .. g - 1 : \A p \in 0 .. w - 1 : \A i \in Int :
          i = w * b + p + 1 => merged[i] = PlaceOfGroup(c, w, gated, q, k, v, b, p)
  BY <1>1, MergedAt
<1> HIDE DEF w, merged
<1>3. ASSUME NEW i \in 1 .. g
      PROVE  merged[i * w - 1] = k[i] /\ merged[i * w] = v[i]
  <2>1. /\ i - 1 \in 0 .. g - 1 /\ w - 2 \in 0 .. w - 1 /\ w - 1 \in 0 .. w - 1
        /\ i * w \in Int /\ i * w - 1 \in Int /\ (i - 1) + 1 = i
    BY <1>1
  <2>2. i * w - 1 = w * (i - 1) + (w - 2) + 1 /\ i * w = w * (i - 1) + (w - 1) + 1
    BY <1>1
  <2>3. /\ PlaceOfGroup(c, w, gated, q, k, v, i - 1, w - 2) = k[i]
        /\ PlaceOfGroup(c, w, gated, q, k, v, i - 1, w - 1) = v[i]
    BY <1>1, <2>1 DEF PlaceOfGroup
  <2>4. /\ merged[i * w - 1] = PlaceOfGroup(c, w, gated, q, k, v, i - 1, w - 2)
        /\ merged[i * w] = PlaceOfGroup(c, w, gated, q, k, v, i - 1, w - 1)
    BY <1>2, <2>1, <2>2
  <2> QED
    BY <2>3, <2>4
<1>4. /\ SplitK(h, g, gated, merged) = [i \in 1 .. g |-> k[i]]
      /\ SplitV(h, g, gated, merged) = [i \in 1 .. g |-> v[i]]
  BY <1>3 DEF SplitK, SplitV, w
<1>5. k = [i \in 1 .. g |-> k[i]] /\ v = [i \in 1 .. g |-> v[i]]
  BY SeqDef, LenProperties
<1> QED
  BY <1>4, <1>5 DEF merged

\* A query head, and its gate, where the split looks for them.
LEMMA QueryAt ==
    ASSUME NEW c \in Nat \ {0}, NEW g \in Nat \ {0}, NEW gated \in BOOLEAN, NEW h, h = c * g,
           NEW q, NEW k, NEW v
    PROVE  \A head \in 0 .. h - 1 :
               LET at == QuerySlice(h, g, gated, head)
               IN  /\ MergeQKV(h, g, gated, q, k, v)[at] = q[QueryRow(gated, head)]
                   /\ gated => MergeQKV(h, g, gated, q, k, v)[at + c] = q[QueryRow(gated, head) + 1]
<1> DEFINE w == GroupWidth(h, g, gated)
           merged == MergeQKV(h, g, gated, q, k, v)
<1>1. HeadsPerGroup(h, g) = c /\ (w = IF gated THEN 2 * c + 2 ELSE c + 2)
  BY Grouping
<1>2. w \in Nat \ {0} /\ w >= c + 2 /\ (gated => w = 2 * c + 2)
  <2> HIDE DEF w
  <2> QED
    BY <1>1
<1>3. \A b \in 0 .. g - 1 : \A p \in 0 .. w - 1 : \A i \in Int :
          i = w * b + p + 1 => merged[i] = PlaceOfGroup(c, w, gated, q, k, v, b, p)
  BY <1>2, MergedAt
<1> SUFFICES ASSUME NEW head \in 0 .. h - 1
             PROVE  LET at == QuerySlice(h, g, gated, head)
                    IN  /\ merged[at] = q[QueryRow(gated, head)]
                        /\ gated => merged[at + c] = q[QueryRow(gated, head) + 1]
  OBVIOUS
<1> DEFINE b == head \div c
           p == head % c
<1>4. QuerySlice(h, g, gated, head) = w * b + p + 1
  BY <1>1 DEF QuerySlice
<1>5. b \in 0 .. g - 1 /\ p \in 0 .. c - 1 /\ b * c + p = head
  <2>1. g * c = h /\ head + 1 \in 1 .. g * c
    OBVIOUS
  <2>2. (head + 1) - 1 = head
    OBVIOUS
  <2> QED
    BY <2>1, <2>2, BlockAndPlace
<1> HIDE DEF b, p, w, merged
<1>6. w * b + p + 1 \in Int
  BY <1>2, <1>5
<1>7. merged[w * b + p + 1] = q[QueryRow(gated, head)]
  <2>1. p \in 0 .. w - 1 /\ p < c
    BY <1>2, <1>5
  <2>2. PlaceOfGroup(c, w, gated, q, k, v, b, p) = q[QueryRow(gated, head)]
    BY <2>1, <1>5 DEF PlaceOfGroup
  <2> QED
    BY <2>1, <2>2, <1>3, <1>5, <1>6
<1>8. ASSUME gated
      PROVE  merged[w * b + p + 1 + c] = q[QueryRow(gated, head) + 1]
  <2>1. p + c \in 0 .. w - 1 /\ ~(p + c < c) /\ p + c < w - 2
    BY <1>2, <1>5, <1>8
  <2>2. /\ w * b + p + 1 + c \in Int
        /\ w * b + p + 1 + c = w * b + (p + c) + 1
        /\ b * c + (p + c) - c = head
    BY <1>2, <1>5
  <2>3. PlaceOfGroup(c, w, gated, q, k, v, b, p + c) = q[QueryRow(gated, head) + 1]
    BY <2>1, <2>2 DEF PlaceOfGroup
  <2> QED
    BY <2>1, <2>2, <2>3, <1>3, <1>5
<1> QED
  BY <1>4, <1>7, <1>8

\* Queries, their gates, keys and values, merged group by group and split again, are what
\* they were, for any number of heads, groups and with or without an output gate
\* (merge_qkv_weights and split_qkv_weights, param_mapping.py:3127 and 3232).
THEOREM AttentionRoundTrip ==
    ASSUME NEW S, NEW c \in Nat \ {0}, NEW g \in Nat \ {0}, NEW gated \in BOOLEAN,
           NEW h, h = c * g,
           NEW q \in Seq(S), NEW k \in Seq(S), NEW v \in Seq(S),
           Len(q) = (IF gated THEN 2 * h ELSE h), Len(k) = g, Len(v) = g
    PROVE  LET merged == MergeQKV(h, g, gated, q, k, v)
           IN  /\ SplitQ(h, g, gated, merged) = q
               /\ SplitK(h, g, gated, merged) = k
               /\ SplitV(h, g, gated, merged) = v
<1> DEFINE merged == MergeQKV(h, g, gated, q, k, v)
<1>1. h \in Nat /\ HeadsPerGroup(h, g) = c
  BY Grouping
<1>2. \A head \in 0 .. h - 1 :
          /\ merged[QuerySlice(h, g, gated, head)] = q[QueryRow(gated, head)]
          /\ gated => merged[QuerySlice(h, g, gated, head) + c] = q[QueryRow(gated, head) + 1]
  BY QueryAt
<1>3. SplitK(h, g, gated, merged) = k /\ SplitV(h, g, gated, merged) = v
  BY KeysAndValues
<1> HIDE DEF merged
<1>4. q = [i \in 1 .. Len(q) |-> q[i]]
  BY SeqDef, LenProperties
<1>5. CASE ~gated
  <2>1. \A i \in 1 .. h : merged[QuerySlice(h, g, gated, i - 1)] = q[i]
    <3>1. SUFFICES ASSUME NEW i \in 1 .. h
                   PROVE  merged[QuerySlice(h, g, gated, i - 1)] = q[i]
      OBVIOUS
    <3>2. i - 1 \in 0 .. h - 1 /\ QueryRow(gated, i - 1) = i
      BY <1>1, <1>5 DEF QueryRow
    <3> QED
      BY <3>2, <1>2
  <2>2. SplitQ(h, g, gated, merged) = [i \in 1 .. h |-> q[i]]
    BY <2>1, <1>5 DEF SplitQ
  <2> QED
    BY <2>2, <1>3, <1>4, <1>5 DEF merged
<1>6. CASE gated
  <2> DEFINE at(i) == QuerySlice(h, g, gated, (i - 1) \div 2)
             row(i) == IF i % 2 = 1 THEN merged[at(i)] ELSE merged[at(i) + c]
  <2>1. ASSUME NEW i \in 1 .. 2 * h
        PROVE  row(i) = q[i]
    <3> DEFINE head == (i - 1) \div 2
    <3>1. head \in 0 .. h - 1 /\ (IF i % 2 = 1 THEN i = 2 * head + 1 ELSE i = 2 * head + 2)
      BY <1>1
    <3>2. at(i) = QuerySlice(h, g, gated, head)
      OBVIOUS
    <3> HIDE DEF head, at
    <3>3. merged[at(i)] = q[2 * head + 1] /\ merged[at(i) + c] = q[(2 * head + 1) + 1]
      BY <3>1, <3>2, <1>2, <1>6 DEF QueryRow
    <3>4. (2 * head + 1) + 1 = 2 * head + 2
      BY <3>1, <1>1
    <3> QED
      BY <3>1, <3>3, <3>4
  <2>2. SplitQ(h, g, gated, merged) = [i \in 1 .. 2 * h |-> row(i)]
    BY <1>1, <1>6 DEF SplitQ
  <2> HIDE DEF row
  <2>3. SplitQ(h, g, gated, merged) = [i \in 1 .. 2 * h |-> q[i]]
    BY <2>1, <2>2
  <2> QED
    BY <2>3, <1>3, <1>4, <1>6 DEF merged
<1> QED
  BY <1>5, <1>6
=============================================================================
