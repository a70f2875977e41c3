-------------------------------- MODULE HfExport --------------------------------
(***************************************************************************)
(* A HuggingFace checkpoint loaded into a model that is spread over        *)
(* pipeline stages, tensor-parallel and expert-parallel ranks, and         *)
(* exported again into safetensors files                                   *)
(* (models/conversion/model_bridge.py, param_mapping.py, auto_bridge.py,   *)
(* models/hf_pretrained/state.py).                                         *)
(*                                                                         *)
(* Every rank walks a task list of its own and enters the collectives of   *)
(* each task.  A collective carries no name: it runs as soon as every      *)
(* member of its group has entered one of its kind, on whatever each of    *)
(* them is working on.  That the ranks meet on the same weight rests on    *)
(* their lists being in the same order.                                    *)
(***************************************************************************)
EXTENDS WeightLayouts, FiniteSets, Functions

CONSTANTS
    Jobs,                   \* the jobs to choose from, see the assumption
    Heads, Groups,          \* attention heads and query groups
    Inner, Hidden, Vocab,   \* sizes of the MLP, the hidden state, the vocabulary
    Layers,
    Files, FileOf(_)        \* the shards of the source, and the shard of each of its tensors

\* pp, tp, ep: parallel sizes; experts: of the last layer, 0 for a dense model; gated:
\* attention output gate; tied: embeddings and output share their weight; dist, every,
\* strict: arguments of save_hf_weights; absent: tensors of the architecture that the
\* source lacks; surplus: tensors of the source that no parameter maps to; leftover:
\* shards that an earlier export left in the output directory.
ASSUME ExportConstants ==
    /\ {Heads, Groups, Inner, Hidden, Vocab, Layers} \subseteq Nat \ {0}
    /\ Heads % Groups = 0
    /\ \A j \in Jobs :
          /\ {j.pp, j.tp, j.ep, j.every} \subseteq Nat \ {0} /\ j.experts \in Nat
          /\ {j.gated, j.tied, j.dist, j.strict} \subseteq BOOLEAN
          /\ Groups % j.tp = 0 /\ Inner % j.tp = 0 /\ Hidden % j.tp = 0
          /\ j.experts % j.ep = 0 /\ j.pp <= Layers
          /\ j.leftover \subseteq Files

VARIABLES
    job,
    stage,     \* where each rank is
    position,  \* the task of each rank, of those it loads and then of those it exports
    todo,      \* the collectives left of that task
    held,      \* the tensors in hand: one, or one of each expert-parallel rank
    param,     \* the shards of each rank's parameters
    buffer,    \* tensors each rank holds to be written
    disk,      \* the tensors of each file of the output directory
    index      \* the names in model.safetensors.index.json

vars == <<job, stage, position, todo, held, param, buffer, disk, index>>
output == <<buffer, disk, index>>

NoTensor == <<>>
NoIndex  == {"none"}
Nothing  == <<>>          \* a file or a buffer without tensors

-----------------------------------------------------------------------------
\* The ranks: stage, expert-parallel and tensor-parallel rank.

Ranks(j) == (0 .. j.pp - 1) \X (0 .. j.ep - 1) \X (0 .. j.tp - 1)
Number(j, r) == (r[1] * j.ep + r[2]) * j.tp + r[3]

GroupOf(j, r, c) == {s \in Ranks(j) :
    IF c = "tp" THEN s[1] = r[1] /\ s[2] = r[2]
    ELSE IF c = "ep" THEN s[1] = r[1] /\ s[3] = r[3]
    ELSE s[2] = r[2] /\ s[3] = r[3]}

\* The collectives over a pipeline group: of an object, or of a tensor.
OfObject == {"config", "type", "experts"}
OfStage  == OfObject \cup {"tensor"}

-----------------------------------------------------------------------------
\* Parameters by their global names <<layer, expert, weight>>, and the tensors of the
\* source <<weight, layer, expert>> they map to.

None == -1
Embedding == <<None, None, "embed">>
Output    == <<None, None, "out">>
LmHead    == <<"lm_head", None, None>>

ExpertsPerRank(j) == j.experts \div j.ep

LayerParams(j, l, e) ==
    {<<l, None, "qkv">>, <<l, None, "proj">>} \cup
    (IF j.experts > 0 /\ l = Layers - 1
     THEN {<<l, e * ExpertsPerRank(j) + x, "experts">> : x \in 0 .. ExpertsPerRank(j) - 1}
     ELSE {<<l, None, "fc1">>})

\* The parameters of stage p on expert-parallel rank e.  A tied output layer has a weight
\* of its own where it is on another stage than the embedding.
Params(j, p, e) ==
    (IF p = 0 THEN {Embedding} ELSE {}) \cup
    (IF p = j.pp - 1
     THEN {<<None, None, "norm">>} \cup (IF j.tied /\ j.pp = 1 THEN {} ELSE {Output})
     ELSE {}) \cup
    UNION {LayerParams(j, l, e) : l \in {m \in 0 .. Layers - 1 : (m * j.pp) \div Layers = p}}

Tensors(t) ==
    IF t[3] = "qkv" THEN {<<"q", t[1], t[2]>>, <<"k", t[1], t[2]>>, <<"v", t[1], t[2]>>}
    ELSE IF t[3] \in {"fc1", "experts"} THEN {<<"gate", t[1], t[2]>>, <<"up", t[1], t[2]>>}
    ELSE IF t[3] = "out" THEN {LmHead}
    ELSE {<<t[3], t[1], t[2]>>}

NamesOf(j, e) ==
    (UNION {Params(j, p, e) : p \in 0 .. j.pp - 1}) \ (IF j.tied THEN {Output} ELSE {})

Expected(j) ==
    ((UNION {UNION {Tensors(t) : t \in NamesOf(j, e)} : e \in 0 .. j.ep - 1}) \ j.absent)
        \cup j.surplus

\* Each tensor of the source has its shard, and the shards have numbers to be dealt out by.
ASSUME ShardsOfSource ==
    Files \subseteq Nat /\ \A j \in Jobs : \A n \in Expected(j) : FileOf(n) \in Files

\* Names sort by layer, then expert, then name.
Weights == <<"norm", "embed", "out", "fc1", "experts", "proj", "qkv">>
PlaceOf(w) == CHOOSE i \in DOMAIN Weights : Weights[i] = w
Before(t, u) ==
    \/ t[1] < u[1]
    \/ t[1] = u[1] /\ t[2] < u[2]
    \/ t[1] = u[1] /\ t[2] = u[2] /\ PlaceOf(t[3]) < PlaceOf(u[3])

\* The sequence of the elements of S in the order `before'.
Ordered(S, before(_, _)) ==
    [i \in 1 .. Cardinality(S) |->
        CHOOSE t \in S : Cardinality({u \in S : before(u, t)}) = i - 1]

\* Mutant: the names of the own stage first.
TasksOwnFirst(j, r) ==
    LET mine(t) == t \in Params(j, r[1], r[2])
        before(t, u) == (mine(t) /\ ~mine(u)) \/ (mine(t) = mine(u) /\ Before(t, u))
    IN  Ordered(NamesOf(j, r[2]), before)

\* The parameters of all stages, as an expert-parallel rank has them: gathered and sorted
\* once.
SortedNames == [j \in Jobs |-> [e \in 0 .. j.ep - 1 |-> Ordered(NamesOf(j, e), Before)]]

\* The conversion tasks of a rank.
Tasks(j, r) == SortedNames[j][r[2]]

\* A rank works on its own parameter if the source has its tensors; else it receives.
Owns(j, r, t) == t \in Params(j, r[1], r[2]) /\ Tensors(t) \cap j.absent = {}

LoadTasks(j, r) == Ordered({t \in NamesOf(j, r[2]) : Owns(j, r, t)}, Before)

-----------------------------------------------------------------------------
\* The shards of a parameter.

Rows(j, n) ==
    IF n[1] = "q" THEN IF j.gated THEN 2 * Heads ELSE Heads
    ELSE IF n[1] \in {"k", "v"} THEN Groups
    ELSE IF n[1] \in {"gate", "up"} THEN Inner
    ELSE IF n[1] \in {"embed", "lm_head"} THEN Vocab ELSE Hidden

Source(j, n) == [i \in 1 .. Rows(j, n) |-> <<n, i>>]

PaddedVocab(j) == ((Vocab + j.tp - 1) \div j.tp) * j.tp

\* The shard of tensor-parallel rank k of parameter t.
Shard(j, t, k) ==
    LET src(w) == Source(j, <<w, t[1], t[2]>>)
        pad(s) == PadRight(s, PaddedVocab(j))
    IN  CASE t[3] = "qkv" -> Part(MergeQKV(Heads, Groups, j.gated, src("q"), src("k"), src("v")),
                                  j.tp, k)
          [] t[3] \in {"fc1", "experts"} -> GatedShard(src("gate"), src("up"), j.tp, k)
          [] t[3] = "embed" -> Part(pad(src("embed")), j.tp, k)
          [] t[3] = "out"   -> Part(pad(Source(j, LmHead)), j.tp, k)
          [] t[3] = "proj"  -> Part(src("proj"), j.tp, k)
          [] OTHER          -> src(t[3])

-----------------------------------------------------------------------------
\* The collectives of an export task.

\* The size of the group that a collective runs in; a group of one has nothing to do.
SizeOf(j, c) == IF c = "tp" THEN j.tp ELSE IF c = "ep" THEN j.ep ELSE j.pp

InGroup(j, c) == IF SizeOf(j, c) > 1 THEN <<c>> ELSE <<>>

\* What remains when the kind of module that owns the weight is known.
AfterType(j, t) ==
    InGroup(j, "tensor") \o (IF t[3] = "norm" THEN <<>> ELSE InGroup(j, "tp"))

\* The collectives a rank enters for task t.  A task that a sole stage does not own is
\* skipped.
StartOf(j, r, t) ==
    IF j.pp = 1 /\ ~Owns(j, r, t) THEN <<>>
    ELSE IF t[3] = "experts" /\ j.ep > 1
         THEN AfterType(j, t) \o InGroup(j, "experts") \o InGroup(j, "ep")
    ELSE IF t[3] \in {"fc1", "experts"} \/ j.pp = 1 THEN AfterType(j, t)
    ELSE IF t[3] = "qkv" THEN <<"config", "type">> ELSE <<"type">>

\* Mutant: the shards of a gated weight are put together as they are.
GatheredPlain(t, shards, n) == Cat(shards, n)

Gathered(t, shards, n) ==
    IF t[3] \in {"fc1", "experts"} THEN UngatedShards(shards, n) ELSE Cat(shards, n)

\* The tensors a task ends with, by name.
Converted(j, t, h) ==
    IF h = NoTensor THEN Nothing
    ELSE CASE t[3] = "qkv" ->
                  [n \in Tensors(t) |->
                      IF n[1] = "q" THEN SplitQ(Heads, Groups, j.gated, h[1])
                      ELSE IF n[1] = "k" THEN SplitK(Heads, Groups, j.gated, h[1])
                      ELSE SplitV(Heads, Groups, j.gated, h[1])]
           [] t[3] = "fc1" -> [n \in Tensors(t) |-> Part(h[1], 2, IF n[1] = "gate" THEN 0 ELSE 1)]
           [] t[3] = "experts" ->
                  \* Each rank of the group holds the expert at the same local place.
                  LET local == t[2] % ExpertsPerRank(j)
                      expert(i) == IF j.ep = 1 THEN t[2] ELSE local + ExpertsPerRank(j) * (i - 1)
                  IN  [n \in {<<w, t[1], expert(i)>> : w \in {"gate", "up"}, i \in DOMAIN h} |->
                          LET i == CHOOSE k \in DOMAIN h : expert(k) = n[3]
                          IN  Part(h[i], 2, IF n[1] = "gate" THEN 0 ELSE 1)]
           [] t[3] = "embed" /\ j.tied /\ LmHead \in Expected(j) ->
                  [n \in Tensors(t) \cup {LmHead} |-> h[1]]
           [] OTHER -> [n \in Tensors(t) |-> h[1]]

-----------------------------------------------------------------------------
\* Writing.

World(j)   == j.pp * j.tp * j.ep
IsSaver(j, r) == IF j.dist THEN Number(j, r) % j.every = 0 ELSE Number(j, r) = 0
Savers(j)  == (World(j) + j.every - 1) \div j.every

\* The files rank r writes: all of them by rank 0, or dealt out to the savers.
Assigned(j, r) ==
    IF ~IsSaver(j, r) THEN {}
    ELSE IF j.dist THEN {f \in Files : f % Savers(j) = Number(j, r) \div j.every}
    ELSE Files

NamesIn(j, f) == {n \in Expected(j) : FileOf(n) = f}

Old == <<>>           \* a tensor of an earlier export

\* Mutant: what a file should have counts as saved.
SavedInByFile(j, d) == {n \in Expected(j) : d[FileOf(n)] # Nothing}

\* Names whose tensor this export has written in its file.
SavedIn(j, d) == {n \in Expected(j) : n \in DOMAIN d[FileOf(n)] /\ d[FileOf(n)][n] # Old}

\* The directory d after the files fs are written with the tensors of b.
Written(j, d, fs, b) ==
    [f \in Files |-> IF f \in fs THEN Restrict(b, NamesIn(j, f) \cap DOMAIN b) ELSE d[f]]

InitialParam(j, r) == [t \in Params(j, r[1], r[2]) |-> NoTensor]

Init ==
    /\ job \in Jobs
    /\ stage    = [r \in Ranks(job) |-> "load"]
    /\ position = [r \in Ranks(job) |-> 1]
    /\ todo     = [r \in Ranks(job) |-> <<>>]
    /\ held     = [r \in Ranks(job) |-> NoTensor]
    /\ param    = [r \in Ranks(job) |-> InitialParam(job, r)]
    /\ buffer   = [r \in Ranks(job) |-> Nothing]
    /\ disk  = [f \in Files |-> IF f \in job.leftover THEN [n \in NamesIn(job, f) |-> Old]
                                ELSE Nothing]
    /\ index = NoIndex

-----------------------------------------------------------------------------
\* Loading.

\* A tensor-parallel group scatters what its first rank has made of the source.
Load(lead) ==
    LET g == GroupOf(job, lead, "tp")
        task(r) == LoadTasks(job, r)[position[r]]
    IN  /\ lead[3] = 0
        /\ \A r \in g : stage[r] = "load" /\ position[r] <= Len(LoadTasks(job, r))
        /\ param' = [r \in Ranks(job) |->
                        IF r \in g THEN [param[r] EXCEPT ![task(r)] = Shard(job, task(lead), r[3])]
                        ELSE param[r]]
        /\ position' = [r \in Ranks(job) |-> IF r \in g THEN position[r] + 1 ELSE position[r]]
        /\ UNCHANGED <<job, stage, todo, held, output>>

FinishLoad(r) ==
    /\ stage[r] = "load" /\ position[r] > Len(LoadTasks(job, r))
    /\ stage' = [stage EXCEPT ![r] =
                    IF job.tied /\ job.pp > 1 /\ r[1] \in {0, job.pp - 1} THEN "share" ELSE "loaded"]
    /\ UNCHANGED <<job, position, todo, held, param, output>>

\* Mutant: the broadcast is left out.
ShareEmbeddingSkipped(first) ==
    LET last == <<job.pp - 1, first[2], first[3]>>
    IN  /\ first[1] = 0 /\ stage[first] = "share" /\ stage[last] = "share"
        /\ stage' = [stage EXCEPT ![first] = "loaded", ![last] = "loaded"]
        /\ UNCHANGED <<job, position, todo, held, param, output>>

\* The tied output layer of the last stage becomes the embedding of the first.
ShareEmbedding(first) ==
    LET last == <<job.pp - 1, first[2], first[3]>>
    IN  /\ first[1] = 0 /\ stage[first] = "share" /\ stage[last] = "share"
        /\ param' = [param EXCEPT ![last][Output] = param[first][Embedding]]
        /\ stage' = [stage EXCEPT ![first] = "loaded", ![last] = "loaded"]
        /\ UNCHANGED <<job, position, todo, held, output>>

-----------------------------------------------------------------------------
\* Exporting.

TodoAt(j, r, i) == IF i <= Len(Tasks(j, r)) THEN StartOf(j, r, Tasks(j, r)[i]) ELSE <<>>
HeldAt(j, r, i) == IF i <= Len(Tasks(j, r)) /\ Owns(j, r, Tasks(j, r)[i])
                   THEN <<param[r][Tasks(j, r)[i]]>> ELSE NoTensor

\* The barrier at the start of save_hf_weights.
StartExport ==
    /\ \A r \in Ranks(job) : stage[r] = "loaded"
    /\ stage'    = [r \in Ranks(job) |-> "export"]
    /\ position' = [r \in Ranks(job) |-> 1]
    /\ todo'     = [r \in Ranks(job) |-> TodoAt(job, r, 1)]
    /\ held'     = [r \in Ranks(job) |-> HeldAt(job, r, 1)]
    /\ UNCHANGED <<job, param, output>>

TaskOf(r) == Tasks(job, r)[position[r]]

\* Every member of g waits in a collective of the kinds cs.
AllEnter(g, cs) == \A r \in g : stage[r] = "export" /\ todo[r] # <<>> /\ Head(todo[r]) \in cs

Owners(g) == {r \in g : Owns(job, r, TaskOf(r))}
FirstOwner(g) == CHOOSE r \in Owners(g) : \A s \in Owners(g) : r[1] <= s[1]

\* A pipeline group finds the first stage that has the object or the tensor, and that
\* stage broadcasts it.  Without an owner all members raise.
StageCollective(r) ==
    LET g == GroupOf(job, r, "pp")
    IN  /\ r[1] = 0
        /\ AllEnter(g, OfObject) \/ AllEnter(g, {"tensor"})
        /\ IF Owners(g) = {}
           THEN /\ stage' = [s \in Ranks(job) |-> IF s \in g THEN "failed" ELSE stage[s]]
                /\ UNCHANGED <<todo, held>>
           ELSE /\ todo' = [s \in Ranks(job) |->
                               IF s \notin g THEN todo[s]
                               ELSE IF Head(todo[s]) = "type"
                               THEN AfterType(job, TaskOf(FirstOwner(g)))
                               ELSE Tail(todo[s])]
                /\ held' = [s \in Ranks(job) |->
                               IF s \in g /\ Head(todo[s]) = "tensor" THEN held[FirstOwner(g)]
                               ELSE held[s]]
                /\ stage' = stage
        /\ UNCHANGED <<job, position, param, output>>

\* A tensor-parallel group gathers its shards.
GatherShards(r) ==
    LET g == GroupOf(job, r, "tp")
        shards == [k \in 0 .. job.tp - 1 |-> held[<<r[1], r[2], k>>][1]]
    IN  /\ r[3] = 0
        /\ AllEnter(g, {"tp"})
        /\ held' = [s \in Ranks(job) |-> IF s \in g THEN <<Gathered(TaskOf(s), shards, job.tp)>>
                                         ELSE held[s]]
        /\ todo' = [s \in Ranks(job) |-> IF s \in g THEN Tail(todo[s]) ELSE todo[s]]
        /\ UNCHANGED <<job, stage, position, param, output>>

\* An expert-parallel group gathers the experts its members work on.
GatherExperts(r) ==
    LET g == GroupOf(job, r, "ep")
    IN  /\ r[2] = 0
        /\ AllEnter(g, {"ep"})
        /\ held' = [s \in Ranks(job) |->
                       IF s \in g THEN [i \in 1 .. job.ep |-> held[<<r[1], i - 1, r[3]>>][1]]
                       ELSE held[s]]
        /\ todo' = [s \in Ranks(job) |-> IF s \in g THEN Tail(todo[s]) ELSE todo[s]]
        /\ UNCHANGED <<job, stage, position, param, output>>

NextTask(r) ==
    /\ position' = [position EXCEPT ![r] = @ + 1]
    /\ todo' = [todo EXCEPT ![r] = TodoAt(job, r, position[r] + 1)]
    /\ held' = [held EXCEPT ![r] = HeldAt(job, r, position[r] + 1)]

\* A rank consumes the tensors of a task.  Only a saver keeps those of its files; a sole
\* saver writes each file when it has all its tensors.  If strict, a rank that looks at the
\* names raises over one that the source does not have.
Consume(r) ==
    LET new  == Converted(job, TaskOf(r), held[r])
        kept == {n \in DOMAIN new \cap Expected(job) : FileOf(n) \in Assigned(job, r)}
        b == [n \in kept \cup DOMAIN buffer[r] |-> IF n \in kept THEN new[n] ELSE buffer[r][n]]
        full == IF job.dist THEN {}
                ELSE {f \in {FileOf(n) : n \in kept} : NamesIn(job, f) \subseteq DOMAIN b}
        refused == job.strict /\ (job.dist \/ IsSaver(job, r)) /\ ~(DOMAIN new \subseteq Expected(job))
    IN  /\ stage[r] = "export" /\ position[r] <= Len(Tasks(job, r)) /\ todo[r] = <<>>
        /\ IF refused
           THEN stage' = [stage EXCEPT ![r] = "failed"] /\ UNCHANGED <<position, todo, held, disk, buffer>>
           ELSE /\ disk' = Written(job, disk, full, b)
                /\ buffer' = [buffer EXCEPT ![r] = Restrict(b, {n \in DOMAIN b : FileOf(n) \notin full})]
                /\ NextTask(r)
                /\ stage' = stage
        /\ UNCHANGED <<job, param, index>>

AtEnd(r) == stage[r] = "export" /\ position[r] > Len(Tasks(job, r))

\* Without distributed saving a rank ends on its own.  If strict, rank 0 raises when a
\* tensor is missing; if not, it writes what it has of the files that remain.
EndAlone(r) ==
    LET rest  == IF job.strict \/ ~IsSaver(job, r) THEN {}
                 ELSE {f \in Files : f \in {FileOf(n) : n \in Expected(job) \ SavedIn(job, disk)}}
        saved == SavedIn(job, disk')
    IN  /\ ~job.dist /\ AtEnd(r)
        /\ disk' = Written(job, disk, rest, buffer[r])
        /\ IF IsSaver(job, r) /\ job.strict /\ saved # Expected(job)
           THEN stage' = [stage EXCEPT ![r] = "failed"] /\ index' = index
           ELSE /\ stage' = [stage EXCEPT ![r] = "barrier"]
                /\ index' = IF IsSaver(job, r) /\ saved # {} THEN saved ELSE index
        /\ UNCHANGED <<job, position, todo, held, param, buffer>>

\* With it, each saver writes its files, unless it has no tensor of them.
WriteAssigned(r) ==
    /\ job.dist /\ AtEnd(r)
    /\ disk' = Written(job, disk,
                       {f \in Assigned(job, r) : NamesIn(job, f) \cap DOMAIN buffer[r] # {}}, buffer[r])
    /\ stage' = [stage EXCEPT ![r] = "status"]
    /\ UNCHANGED <<job, position, todo, held, param, buffer, index>>

\* Names that their savers have not written.
Unsaved == UNION {{n \in Expected(job) : FileOf(n) \in Assigned(job, r)} \ DOMAIN buffer[r]
                  : r \in Ranks(job)}

\* Mutant: a rank raises for the tensors it is missing itself.
AgreeOnStatusAlone ==
    /\ \A r \in Ranks(job) : stage[r] = "status"
    /\ stage' = [r \in Ranks(job) |->
                    IF job.strict /\ \E n \in Unsaved : FileOf(n) \in Assigned(job, r)
                    THEN "failed" ELSE "barrier"]
    /\ index' = IF job.strict /\ Unsaved # {} THEN index
                ELSE {n \in Expected(job) : n \in DOMAIN disk[FileOf(n)]}
    /\ UNCHANGED <<job, position, todo, held, param, buffer, disk>>

\* All ranks learn how many tensors are missing, and raise together if strict.  Else rank
\* 0 makes the index from the files it finds.
AgreeOnStatus ==
    /\ \A r \in Ranks(job) : stage[r] = "status"
    /\ IF job.strict /\ Unsaved # {}
       THEN stage' = [r \in Ranks(job) |-> "failed"] /\ index' = index
       ELSE /\ stage' = [r \in Ranks(job) |-> "barrier"]
            /\ index' = {n \in Expected(job) : n \in DOMAIN disk[FileOf(n)]}
    /\ UNCHANGED <<job, position, todo, held, param, buffer, disk>>

Leave ==
    /\ \A r \in Ranks(job) : stage[r] = "barrier"
    /\ stage' = [r \in Ranks(job) |-> "done"]
    /\ UNCHANGED <<job, position, todo, held, param, output>>

Next ==
    \/ \E r \in Ranks(job) : Load(r) \/ FinishLoad(r) \/ ShareEmbedding(r)
    \/ StartExport
    \/ \E r \in Ranks(job) : StageCollective(r) \/ GatherShards(r) \/ GatherExperts(r)
    \/ \E r \in Ranks(job) : Consume(r) \/ EndAlone(r) \/ WriteAssigned(r)
    \/ AgreeOnStatus \/ Leave

Spec == Init /\ [][Next]_vars /\ WF_vars(Next)

-----------------------------------------------------------------------------
(***************************************************************************)
(*                              Properties                                 *)
(***************************************************************************)

\* The position in the source of the i-th row of a shard.
RowOf(s, i) == s[i][2]

\* Block b of an attention shard is one group: queries, their gates, key and value.
IsGroup(s, b) ==
    LET n  == HeadsPerGroup(Heads, Groups)
        w  == GroupWidth(Heads, Groups, job.gated)
        at(o) == s[b * w + o]
        g  == at(w)[2]
    IN  /\ at(w)[1][1] = "v" /\ at(w - 1)[1][1] = "k" /\ at(w - 1)[2] = g
        /\ \A o \in 1 .. w - 2 : at(o)[1][1] = "q"
        /\ \A o \in 1 .. n : at(o)[2] = QueryRow(job.gated, (g - 1) * n + o - 1)
        /\ job.gated => \A o \in 1 .. n : at(n + o)[2] = at(o)[2] + 1

\* A shard can be computed with alone: an attention shard holds whole query groups, each
\* query with its gate and with the key and value it attends with, and an MLP shard pairs
\* each row of the gate with the same row of the up projection, for all parallel sizes.
ShardsComputeAlone ==
    \A r \in Ranks(job) : \A t \in Params(job, r[1], r[2]) :
        LET s == param[r][t]
            m == Len(s) \div 2
        IN  s # NoTensor =>
              /\ t[3] = "qkv" =>
                    /\ Len(s) * job.tp = Groups * GroupWidth(Heads, Groups, job.gated)
                    /\ \A b \in 0 .. (Groups \div job.tp) - 1 : IsGroup(s, b)
              /\ t[3] \in {"fc1", "experts"} =>
                    \A i \in 1 .. m : /\ s[i][1][1] = "gate" /\ s[m + i][1][1] = "up"
                                      /\ RowOf(s, i) = RowOf(s, m + i)

\* The ranks of a group that wait in a collective work on the same weight, at the same
\* place: the same parameter in a pipeline or tensor-parallel group, and in an
\* expert-parallel group experts at the same local place.  Nothing in the collectives
\* tells them apart ("casually re-order will cause a hang", model_bridge.py:833).
PeersMeet ==
    \A r, s \in Ranks(job) :
        /\ stage[r] = "export" /\ stage[s] = "export" /\ todo[r] # <<>> /\ todo[s] # <<>>
        /\ s \in GroupOf(job, r, Head(todo[r])) /\ r \in GroupOf(job, s, Head(todo[s]))
        => LET t == TaskOf(r)
               u == TaskOf(s)
           IN  /\ position[r] = position[s]
               /\ Head(todo[r]) = Head(todo[s]) \/ r = s
               /\ <<t[1], t[3]>> = <<u[1], u[3]>>
               /\ IF r[2] = s[2] THEN t = u
                  ELSE t[2] - u[2] = (r[2] - s[2]) * ExpertsPerRank(job)

\* What the checkpoint that is loaded says of a name; a tied output is the embedding.
Reference(n) ==
    IF n[1] \in {"embed", "lm_head"}
    THEN PadRight(Source(job, IF job.tied THEN <<"embed", None, None>> ELSE n), PaddedVocab(job))
    ELSE Source(job, n)

\* Every tensor that an export writes is the tensor the source had under its name, through
\* scatter and gather, interleaving and splitting, expert renumbering and tying; the
\* vocabulary keeps the rows that padding added.
TensorsRoundTrip ==
    \A f \in Files : \A n \in DOMAIN disk[f] : disk[f][n] \in {Reference(n), Old}

\* A model with tied embeddings computes its output with the embedding: when loading is
\* over, the copy on the last stage is the shard of the first (model_bridge.py:1552).
TiedCopiesAgree ==
    job.tied /\ job.pp > 1 =>
        \A r \in Ranks(job) :
            r[1] = job.pp - 1 /\ stage[r] \notin {"load", "share"} =>
                param[r][Output] = param[<<0, r[2], r[3]>>][Embedding]

\* The index names only tensors that are in their files, and with strict all the tensors of
\* the source.  "Build weight_map only from actually saved keys" (state.py:1103) is less than
\* it says: a distributed export that is not strict takes the files it finds
\* (state.py:1085), so a file of an earlier export is indexed as it was, but only one of
\* which no rank has a tensor.  Every other name is of a tensor this export has saved.
IndexNamesSaved ==
    index # NoIndex =>
        /\ \A n \in index :
              /\ n \in DOMAIN disk[FileOf(n)]
              /\ disk[FileOf(n)][n] = Old =>
                    /\ job.dist /\ ~job.strict
                    /\ \A r \in Ranks(job) : NamesIn(job, FileOf(n)) \cap DOMAIN buffer[r] = {}
        /\ job.strict => index = Expected(job)

\* Rank 0, the sole saver of a strict export, has raised over a tensor (state.py:773, 865)
\* and the others do not know: they wait for it in a collective or at the barrier.
SaverAlone ==
    /\ ~job.dist /\ job.strict
    /\ \A r \in Ranks(job) : IF IsSaver(job, r) THEN stage[r] = "failed"
                            ELSE stage[r] \in {"export", "barrier"}

\* Where the model and the source have the same tensors all ranks finish.  Where they do
\* not, all finish, or all raise, or the sole saver of a strict export raises alone and
\* leaves the others waiting (auto_bridge.py:1204).  A distributed export never ends so.
ExportEnds ==
    <>[](\/ \A r \in Ranks(job) : stage[r] = "done"
         \/ /\ job.absent \cup job.surplus # {}
            /\ (\A r \in Ranks(job) : stage[r] = "failed") \/ SaverAlone)

=============================================================================
