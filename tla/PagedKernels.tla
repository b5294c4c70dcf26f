---------------------------- MODULE PagedKernels ----------------------------
(***************************************************************************)
(* The paged attention kernels, below the engine: what a batch staged for   *)
(* decode or for a prefill chunk writes into the pools, and what each       *)
(* attention backend reads back for every row, query and head.             *)
(*                                                                         *)
(* A cell of a pool holds the identity of the vector stored there, <<layer, *)
(* owner, position, KV head>>.  Key and value pools are addressed alike and *)
(* are one pool here; a scaled pool keeps the scale apart from the vector.  *)
(* The value of a key is its own unit vector, so the accumulator of a       *)
(* softmax says which keys were seen, how often and with which weight; the  *)
(* weight of score s is 2^s, kept as an integer relative to the maximum.    *)
(***************************************************************************)
EXTENDS Integers, Sequences, SequencesExt, FiniteSets, FiniteSetsExt

CONSTANTS BlockSize, Pages, MaxBlocks,   \* tokens per page, the pool, the table width
          QHeads, KVHeads,
          KVLayers,
          ChunkSize, DecodeBuckets,      \* prefill_chunk_size, cuda_graph_batch_sizes
          DummySlots,                    \* reserved <<page, slot>> of padded decode rows
          TileM,                         \* BLOCK_M of the tiled kernel
          Multiprocessors,
          MaxScore, Score(_, _, _),      \* of a query head, a query position and a key
          Batches                        \* what the engine asks for (see BatchOK)

VARIABLES batch, pool, scales, cache, layer, out, stray

kernelVars == <<batch, pool, scales, cache, layer, out, stray>>

NoPage == -1
NegInf == -1
None == <<>>
Heads == 0..KVHeads - 1
Repeat == QHeads \div KVHeads
CeilDiv(a, b) == (a + b - 1) \div b

\* A row has a table of MaxBlocks entries, the tokens already in its pages, and the
\* tokens of this step (one for decode); an inert row has none.
RowOK(row) ==
    /\ DOMAIN row.table = 1..MaxBlocks
    /\ row.start \in Nat /\ row.chunk \in Nat /\ row.real \in BOOLEAN
    /\ row.shared <= row.start                  \* leading tokens shared with other rows

BatchOK(b) ==
    /\ b.kind \in {"decode", "prefill"}
    /\ b.backend \in {"per_head", "gqa", "split_k", "flash",
                      "per_token", "tiled", "sdpa", "flash_dense", "int8", "fp8"}
    /\ \A r \in DOMAIN b.rows : RowOK(b.rows[r])
    /\ b.tile \in Nat \ {0}                     \* BLOCK_N
    /\ b.graph \in BOOLEAN                      \* CUDA graphs are on

ASSUME SizesOK ==
    /\ QHeads % KVHeads = 0
    /\ \A b \in Batches : BatchOK(b)

Rows(b) == DOMAIN b.rows

----------------------------------------------------------------------------
(* Staging: graphs fix the shape, so the batch is padded to it.            *)

\* A padded decode row writes its own reserved slot; the rest of its table is stale.
DummyRow(i, rows) ==
    [table |-> [rows[1].table EXCEPT ![1] = DummySlots[i][1]], start |-> DummySlots[i][2],
     chunk |-> 1, real |-> FALSE, shared |-> 0]

InertRow == [table |-> [i \in 1..MaxBlocks |-> NoPage], start |-> 0, chunk |-> 0,
             real |-> FALSE, shared |-> 0]

Bucket(n) == Min({d \in DecodeBuckets : d >= n})

Longest(b) == Max({b.rows[r].start + b.rows[r].chunk : r \in Rows(b)})

ContextBucket(t) == Min({BlockSize * 2^k : k \in {j \in 0..8 : BlockSize * 2^j >= t}})

\* Flash is not graph safe.
UseGraph(b) == b.graph /\ b.backend \notin {"flash", "flash_dense"}

Padded(b) ==
    LET n == Len(b.rows)
        pad(i) == IF b.kind = "decode" THEN DummyRow(i, b.rows) ELSE InertRow
    IN  IF UseGraph(b) THEN b.rows \o [i \in 1..Bucket(n) - n |-> pad(i)] ELSE b.rows

\* width: staged queries per row; total: gathered context; bound: longest row.
Planned(b) ==
    [kind |-> b.kind, backend |-> b.backend, tile |-> b.tile, rows |-> Padded(b),
     width |-> IF b.kind = "decode" THEN 1
               ELSE IF UseGraph(b) THEN ChunkSize
               ELSE Max({b.rows[r].chunk : r \in Rows(b)}),
     total |-> IF UseGraph(b) /\ b.backend = "sdpa" THEN ContextBucket(Longest(b)) ELSE Longest(b),
     bound |-> Longest(b)]

----------------------------------------------------------------------------
(* Storage.                                                                *)

Cells == Pages \X (0..BlockSize - 1) \X Heads

Entry(table, p) ==
    IF p \div BlockSize < MaxBlocks THEN table[p \div BlockSize + 1] ELSE NoPage

Scaled(b) == b.backend \in {"int8", "fp8"}

\* The bounds-checked destination of the unscaled decode writer.
DecodeDestination(row, h) ==
    LET page == Entry(row.table, row.start)
    IN  IF page \in Pages THEN {<<page, row.start % BlockSize, h>>} ELSE {}

\* The same for token t of a chunk; a padding token has none.
ChunkDestination(row, t, h) ==
    LET p == row.start + t
        page == Entry(row.table, p)
    IN  IF t < row.chunk /\ page \in Pages THEN {<<page, p % BlockSize, h>>} ELSE {}

\* The scaled writers follow the table wherever it leads; padding tokens are masked.
ScaledDecodeDestination(row, h) ==
    {<<Entry(row.table, row.start), row.start % BlockSize, h>>}

ScaledChunkDestination(row, t, h) ==
    LET p == row.start + t
    IN  IF t < row.chunk THEN {<<Entry(row.table, p), p % BlockSize, h>>} ELSE {}

Key(l, b, r, p, h) == <<l, IF p < b.rows[r].shared THEN 0 ELSE r, p, h>>

\* One program per row and KV head.
DecodeWrites(l, b) ==
    UNION {{<<c, Key(l, b, r, b.rows[r].start, h)>> :
              c \in IF Scaled(b) THEN ScaledDecodeDestination(b.rows[r], h)
                    ELSE DecodeDestination(b.rows[r], h)} : r \in Rows(b), h \in Heads}

\* One program per row, staged token and KV head.
ChunkWrites(l, b) ==
    UNION {{<<c, Key(l, b, r, b.rows[r].start + t, h)>> :
              c \in IF Scaled(b) THEN ScaledChunkDestination(b.rows[r], t, h)
                    ELSE ChunkDestination(b.rows[r], t, h)} :
           r \in Rows(b), t \in 0..b.width - 1, h \in Heads}

Written(l, b) == IF b.kind = "decode" THEN DecodeWrites(l, b) ELSE ChunkWrites(l, b)

Stored(l, b, old) ==
    [c \in Cells |-> IF \E w \in Written(l, b) : w[1] = c
                     THEN (CHOOSE w \in Written(l, b) : w[1] = c)[2] ELSE old[c]]

\* The pages before the step: each row's history, and what earlier owners left.
History(l, b) ==
    [c \in Cells |->
        LET keys == {Key(l, b, r, p, c[3]) :
                       <<r, p>> \in {x \in Rows(b) \X (0..MaxBlocks * BlockSize - 1) :
                           /\ b.rows[x[1]].real /\ x[2] < b.rows[x[1]].start
                           /\ Entry(b.rows[x[1]].table, x[2]) = c[1] /\ x[2] % BlockSize = c[2]}}
        IN  IF keys = {} THEN <<l, -1, c[1] * BlockSize + c[2], c[3]>>
            ELSE CHOOSE k \in keys : TRUE]

\* A load through the block table; a scaled load multiplies by the scale stored at the
\* same address, and is garbled unless both come from one vector.
Load(l, b, r, p, h) ==
    LET page == Entry(b.rows[r].table, p)
        c == <<page, p % BlockSize, h>>
    IN  IF page \notin Pages THEN <<l, -2, p, h>>
        ELSE IF Scaled(b) /\ scales'[l][c] # pool'[l][c] THEN <<l, -3, p, h>>
        ELSE pool'[l][c]

----------------------------------------------------------------------------
(* Softmax.                                                                *)

Empty == [m |-> NegInf, l |-> 0, acc |-> None, nan |-> FALSE]

Rescaled(w, from, to) == IF from = NegInf THEN 0 ELSE (w * 2^from) \div 2^to

WeightOf(acc, k) == IF k \in DOMAIN acc THEN acc[k] ELSE 0

\* One tile of the online softmax over a set of <<position, key>>.  With -inf as the mask
\* a tile before any key was seen is exp(-inf - -inf); the finite sentinel avoids it.
\* at: the <<head, position>> of the query.
TileStep(st, keys, at, sentinel) ==
    LET score(x) == Score(at[1], at[2], x[2])
        m == Max({st.m} \cup {score(x) : x \in keys})
        w(x) == 2^(score(x) - m + MaxScore)
    IN  [m |-> m,
         l |-> Rescaled(st.l, st.m, m) + MapThenSumSet(w, keys),
         acc |-> [k \in DOMAIN st.acc \cup {x[2] : x \in keys} |->
                    Rescaled(WeightOf(st.acc, k), st.m, m)
                      + MapThenSumSet(w, {x \in keys : x[2] = k})],
         nan |-> st.nan \/ (m = NegInf /\ ~ sentinel)]

\* for start_n in range(lo, hi, n), over the positions below hi that keys holds
Walk(lo, hi, n, keys, at, sentinel) ==
    LET starts == [i \in 1..CeilDiv(Max({hi - lo, 0}), n) |-> lo + (i - 1) * n]
        tile(s) == {<<p, keys[p]>> : p \in {x \in DOMAIN keys : s <= x /\ x < Min({s + n, hi})}}
    IN  FoldLeft(LAMBDA st, s : TileStep(st, tile(s), at, sentinel), Empty, starts)

\* _merge_splits_kernel: slices that saw no key are ignored.
MergeSplits(slices) ==
    LET m == Max({s.m : s \in Range(slices)})
        seen == {i \in DOMAIN slices : slices[i].l > 0}
        part(i, k) == Rescaled(WeightOf(slices[i].acc, k), slices[i].m, m)
    IN  [m |-> m,
         l |-> MapThenSumSet(LAMBDA i : Rescaled(slices[i].l, slices[i].m, m), seen),
         acc |-> [k \in UNION {DOMAIN slices[i].acc : i \in seen} |->
                    MapThenSumSet(LAMBDA i : part(i, k), seen)],
         nan |-> FALSE]

\* External: softmax over a set of <<position, key>>, NaN over the empty one.
Softmax(keys, at) == TileStep(Empty, keys, at, FALSE)

----------------------------------------------------------------------------
(* Attention of one query token t of row r at query head q.                *)

KVHead(q) == q \div Repeat

\* Keys of a row at a KV head, as the block table leads to them.
RowKeys(b, r, h, positions) == [p \in positions |-> Load(layer', b, r, p, h)]

PerHead(b, r, h, n, at) ==
    LET total == b.rows[r].start + 1
    IN  Walk(0, total, n, RowKeys(b, r, h, 0..total - 1), at, FALSE)

\* One program per KV head serves query heads 2h and 2h + 1 from the same tiles.
GQA(b, r, q, n, at) ==
    LET h == CHOOSE x \in Heads : q \in {2 * x, 2 * x + 1}
    IN  PerHead(b, r, h, n, at)

ChooseSplits(rows, bound, n) ==
    LET wanted == Max({1, CeilDiv(2 * Multiprocessors, rows * QHeads)})
        most == Min({wanted, Max({1, bound \div n}), 16})
    IN  Max({2^k : k \in 0..4} \cap 1..most)

SplitSlice(b, r, q, n, k, slice, at) ==
    LET hi == Min({b.rows[r].start + 1, (k + 1) * slice})
    IN  Walk(k * slice, hi, n, RowKeys(b, r, KVHead(q), k * slice..hi - 1), at, FALSE)

SplitK(b, r, q, n, at) ==
    LET splits == ChooseSplits(Len(b.rows), b.bound, n)
        slice == CeilDiv(b.bound, splits)
    IN  IF splits <= 1 THEN PerHead(b, r, KVHead(q), n, at)
        ELSE MergeSplits([k \in 1..splits |-> SplitSlice(b, r, q, n, k - 1, slice, at)])

\* External: flash aligns the last query to the last key (causal, bottom right).
FlashKernel(t, queries, total, keys, at) ==
    Softmax({<<p, keys[p]>> : p \in 0..total - queries + t}, at)

FlashDecode(b, r, q, at) ==
    LET total == b.rows[r].start + 1
    IN  FlashKernel(0, 1, total, RowKeys(b, r, KVHead(q), 0..total - 1), at)

PerToken(b, r, t, q, at) ==
    LET kvLen == IF t < b.rows[r].chunk THEN b.rows[r].start + t + 1 ELSE 0
    IN  Walk(0, kvLen, b.tile, RowKeys(b, r, KVHead(q), 0..kvLen - 1), at, FALSE)

\* A tile of queries walks the keys its last real query may see.
Tiled(b, r, t, q, at) ==
    LET row == b.rows[r]
        last == Min({(t \div TileM + 1) * TileM, row.chunk})
        visible == {p \in 0..row.start + t : Entry(row.table, p) \in Pages /\ t < row.chunk}
    IN  Walk(0, row.start + last, b.tile, RowKeys(b, r, KVHead(q), visible), at, TRUE)

\* Boolean mask of a padded chunk batch; a padding query is given key 0 only.
ChunkCausalMask(b) ==
    [r \in Rows(b) |-> [t \in 0..b.width - 1 |->
        {p \in 0..b.total - 1 : IF t < b.rows[r].chunk THEN p <= b.rows[r].start + t ELSE p = 0}]]

\* Page of each gathered block; unused entries are clamped to page 0.
PageIndices(b) ==
    [r \in Rows(b) |-> [i \in 0..CeilDiv(b.total, BlockSize) - 1 |->
        Max({b.rows[r].table[i + 1], 0})]]

Gathered(l, indices, r, p, h) == pool'[l][<<indices[r][p \div BlockSize], p % BlockSize, h>>]

\* Query heads that share a KV head are folded into the query axis, and so is the mask.
SDPA(b, c, r, t, q, at) ==
    LET flat == q * b.width + t                       \* of the [heads * queries] axis
        h == flat \div (Repeat * b.width)
        folded == flat % (Repeat * b.width)
        seen == c.mask[r][folded % b.width]
    IN  Softmax({<<p, Gathered(layer', c.indices, r, p, h)>> : p \in seen}, at)

\* Rows of equal real length share a call; padding rows belong to no group.
FlashGroups(b) ==
    LET real == {r \in Rows(b) : b.rows[r].chunk > 0}
        total(r) == b.rows[r].start + b.rows[r].chunk
        together(r) == {x \in real : b.rows[x].chunk = b.rows[r].chunk
                                      /\ (b.backend = "flash_dense" => total(x) = total(r))}
    IN  {[length |-> b.rows[r].chunk, total |-> total(r), rows |-> together(r)] : r \in real}

\* The history of a row ends with this chunk, whose real queries alone are passed.
FlashPrefill(b, c, r, t, q, at) ==
    LET g == CHOOSE x \in c.groups : r \in x.rows
    IN  IF b.rows[r].chunk = 0 \/ t >= b.rows[r].chunk THEN Empty
        ELSE LET total == b.rows[r].start + b.rows[r].chunk
             IN  FlashKernel(t, g.length, total, RowKeys(b, r, KVHead(q), 0..total - 1), at)

FlashDense(b, c, r, t, q, at) ==
    LET g == CHOOSE x \in c.groups : r \in x.rows
        pages == PageIndices([b EXCEPT !.total = g.total])
    IN  IF b.rows[r].chunk = 0 \/ t >= b.rows[r].chunk THEN Empty
        ELSE FlashKernel(t, g.length, g.total,
                         [p \in 0..g.total - 1 |-> Gathered(layer', pages, r, p, KVHead(q))], at)

\* When one group holds every row the result is returned as wide as the group, not padded.
Queries(b, c) ==
    IF b.kind = "prefill" /\ b.backend \in {"flash", "flash_dense"}
       /\ \E g \in c.groups : g.rows = Rows(b)
    THEN (CHOOSE g \in c.groups : TRUE).length ELSE b.width

\* The dequantising kernels walk as the unscaled ones do; Load applies the scale.
Int8Decode(b, r, q, at) == PerHead(b, r, KVHead(q), b.tile, at)
Int8Prefill(b, r, t, q, at) == PerToken(b, r, t, q, at)
Fp8Decode(b, r, q, at) == PerHead(b, r, KVHead(q), b.tile, at)
Fp8Prefill(b, r, t, q, at) == PerToken(b, r, t, q, at)

DecodeAttention(b, r, q) ==
    LET at == <<q, b.rows[r].start>>
    IN  CASE b.backend = "per_head" -> PerHead(b, r, KVHead(q), b.tile, at)
          [] b.backend = "gqa"      -> GQA(b, r, q, b.tile, at)
          [] b.backend = "split_k"  -> SplitK(b, r, q, b.tile, at)
          [] b.backend = "flash"    -> FlashDecode(b, r, q, at)
          [] b.backend = "int8"     -> Int8Decode(b, r, q, at)
          [] b.backend = "fp8"      -> Fp8Decode(b, r, q, at)

PrefillAttention(b, c, r, t, q) ==
    LET at == <<q, b.rows[r].start + t>>
    IN  CASE b.backend = "per_token"   -> PerToken(b, r, t, q, at)
          [] b.backend = "tiled"       -> Tiled(b, r, t, q, at)
          [] b.backend = "sdpa"        -> SDPA(b, c, r, t, q, at)
          [] b.backend = "flash"       -> FlashPrefill(b, c, r, t, q, at)
          [] b.backend = "flash_dense" -> FlashDense(b, c, r, t, q, at)
          [] b.backend = "int8"        -> Int8Prefill(b, r, t, q, at)
          [] b.backend = "fp8"         -> Fp8Prefill(b, r, t, q, at)

----------------------------------------------------------------------------
(* A step: the context of the batch is published, then each layer writes    *)
(* its keys and attends.                                                   *)

NoCache == [key |-> None, mask |-> None, indices |-> None, groups |-> {}]

Masks(b) == [NoCache EXCEPT !.key = <<b.width, b.total>>,
                            !.mask = ChunkCausalMask(b), !.indices = PageIndices(b)]

\* The eager run on inert rows that precedes a capture fills the cache of its context.
CaptureEager(b) ==
    /\ batch = None /\ cache = NoCache
    /\ UseGraph(b) /\ b.backend = "sdpa"
    /\ cache' = Masks([Planned(b) EXCEPT !.rows = [r \in Rows(Planned(b)) |-> InertRow]])
    /\ UNCHANGED <<batch, pool, scales, layer, out, stray>>

\* Mutant: masks of an earlier context survive.
SetPrefillContextKeepsCache(b) ==
    cache' = [cache EXCEPT !.groups = IF b.backend \in {"flash", "flash_dense"}
                                         THEN FlashGroups(b) ELSE {}]

SetPrefillContext(b) ==
    cache' = [NoCache EXCEPT !.groups = IF b.backend \in {"flash", "flash_dense"}
                                           THEN FlashGroups(b) ELSE {}]

Stage(b) ==
    /\ batch = None
    /\ batch' = Planned(b)
    /\ pool' = [l \in KVLayers |-> History(l, Planned(b))]
    /\ scales' = pool'
    /\ layer' = 0 /\ out' = None
    /\ IF b.kind = "prefill" THEN SetPrefillContext(Planned(b)) ELSE UNCHANGED cache
    /\ UNCHANGED stray

Layer ==
    /\ batch # None /\ layer + 1 \in KVLayers
    /\ layer' = layer + 1
    /\ pool' = [pool EXCEPT ![layer'] = Stored(layer', batch, pool[layer'])]
    /\ scales' = IF Scaled(batch)
                 THEN [scales EXCEPT ![layer'] = Stored(layer', batch, scales[layer'])] ELSE scales
    /\ stray' = {w[2] : w \in {x \in Written(layer', batch) : x[1] \notin Cells}}
    /\ cache' = IF batch.backend = "sdpa"
                   /\ cache.key # <<batch.width, batch.total>>
                THEN Masks(batch) ELSE cache
    /\ out' = [r \in Rows(batch) |-> [t \in 0..Queries(batch, cache') - 1 |-> [q \in 0..QHeads - 1 |->
                 IF batch.kind = "decode" THEN DecodeAttention(batch, r, q)
                 ELSE PrefillAttention(batch, cache', r, t, q)]]]
    /\ UNCHANGED batch

KernelInit ==
    /\ batch = None /\ cache = NoCache
    /\ pool = None /\ scales = None
    /\ layer = 0 /\ out = None /\ stray = {}

KernelNext ==
    \/ \E b \in Batches : CaptureEager(b) \/ Stage(b)
    \/ Layer

KernelSpec == KernelInit /\ [][KernelNext]_kernelVars

----------------------------------------------------------------------------
(* Properties.                                                             *)

\* What is staged fits the buffers, and the caches hold nothing a step does not use.
KernelTypeOK ==
    /\ layer \in {0} \cup KVLayers
    /\ stray \subseteq KVLayers \X Int \X Nat \X Heads
    /\ batch # None =>
         /\ \A r \in Rows(batch) : RowOK(batch.rows[r]) /\ batch.rows[r].chunk <= batch.width
         /\ \A g \in cache.groups : g.length \in 1..batch.width /\ g.rows # {}

\* The keys a query may see: all positions up to its own, each once.
Visible(r, t, q) ==
    {<<p, Key(layer, batch, r, p, KVHead(q))>> : p \in 0..batch.rows[r].start + t}

\* Every backend computes the same attention: for each real row, query and head, the
\* exact softmax over the row's own keys up to the query's position ("same signature
\* and semantics", tiled_paged_prefill and sdpa_paged_prefill; "same contract as
\* paged_decode_batched", the decode variants), in a result as wide as the step.
AttentionIsExact ==
    out # None =>
        \A r \in Rows(batch) :
            /\ DOMAIN out[r] = 0..batch.width - 1
            /\ batch.rows[r].real =>
                 \A t \in 0..batch.rows[r].chunk - 1, q \in 0..QHeads - 1 :
                     out[r][t][q] = Softmax(Visible(r, t, q), <<q, batch.rows[r].start + t>>)

\* No result is NaN, padding queries and padding rows included: they run through the
\* rest of the model beside the real ones.
NoNaN ==
    out # None =>
        \A r \in Rows(batch) : \A t \in DOMAIN out[r], q \in 0..QHeads - 1 : ~ out[r][t][q].nan

\* After a layer's write every live row still finds all its tokens, old and new, in its
\* own pages, with the scale of the same vector.
HistoryKept ==
    (batch # None /\ layer > 0) =>
        \A r \in Rows(batch), h \in Heads : batch.rows[r].real =>
            \A p \in 0..batch.rows[r].start + batch.rows[r].chunk - 1 :
                LET c == <<Entry(batch.rows[r].table, p), p % BlockSize, h>>
                    k == Key(layer, batch, r, p, h)
                IN  pool[layer][c] = k /\ (Scaled(batch) => scales[layer][c] = k)

\* No write leaves the pool, whichever writer runs: the scaled ones do not check.
NoStrayWrite == stray = {}

\* Whatever backend, graph padding and stale caches a step meets, its attention is exact
\* and its writes leave every history whole.
AttentionIsSound == KernelTypeOK /\ AttentionIsExact /\ NoNaN /\ HistoryKept /\ NoStrayWrite
============================================================================
