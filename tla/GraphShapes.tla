---------------------------- MODULE GraphShapes ----------------------------
(***************************************************************************)
(* Which CUDA graphs exist and which of them a live step replays.  A graph *)
(* fixes its row counts, the decode tile, the gathered context and, inside *)
(* the recorded kernels, the storage type and the split-K bound.  Warm-up  *)
(* captures decode graphs by running synthetic rounds and prefill and      *)
(* fused graphs on inert rows; a live step whose shape has no graph        *)
(* captures one on the spot.                                               *)
(*                                                                         *)
(* A live batch is described by its number of decode rows and the longest  *)
(* of them, and its number of chunk rows and the longest context of them.  *)
(* The chunk steps of the warm-up rounds are left out: they could only add *)
(* graphs.                                                                 *)
(***************************************************************************)
EXTENDS Integers, FiniteSets, FiniteSetsExt

CONSTANTS GraphConfigs,   \* engine configurations (see ConfigOK)
          Lengths    \* row lengths a live step may have

VARIABLES cfg, phase, rounds, graphs, unsupported, lazy, step

graphVars == <<cfg, phase, rounds, graphs, unsupported, lazy, step>>

ConfigOK(c) ==
    /\ c.buckets \subseteq 1..c.maxActive        \* cuda_graph_batch_sizes
    /\ c.pool \in Nat /\ c.maxLen \in Nat        \* tokens of the KV pool, max_model_len
    /\ c.kind \in {"sdpa", "tiled", "per_token"} \* prefill_attention
    /\ c.decode \in {"per_head", "split_k"}      \* decode_attention
    /\ c.dtype \in {"fp16", "int8"}              \* kv_cache_dtype
    /\ c.fused \in BOOLEAN
    /\ c.prefillRows \in Nat /\ c.fusedRows \in Nat
    /\ c.fails \subseteq {"prefill", "fused"}    \* kinds this build cannot capture

ASSUME ConfigsOK == \A c \in GraphConfigs : ConfigOK(c)

Budget == 128              \* max_prefill_tokens_per_iteration and prefill_chunk_size
QHeads == 16
Multiprocessors == 40
NoStep == [graph |-> {}, d |-> 0, s |-> 0, p |-> 0, t |-> 0]

CeilDiv(a, b) == (a + b - 1) \div b

----------------------------------------------------------------------------
(* Shape selection.                                                        *)

ContextSizes == {256 * 2^k : k \in 0..6}

\* Mutant: the bucket below instead of above.
ContextBucketBelow(t) == Max({b \in ContextSizes : b <= Max({t, 256})})

ContextBucket(t) == Min({b \in ContextSizes : b >= t})

DecodeTile(len) == IF len >= 128 THEN 128 ELSE 64

DecodeBuckets(n) == {b \in cfg.buckets : n <= b}

\* Zero stands for None: no bucket, or one above the limit.
RowBucket(n, limit) ==
    LET fitting == {b \in cfg.buckets \cup {1} : n <= b}
    IN  IF cfg.buckets = {} \/ fitting = {} THEN 0
        ELSE IF Min(fitting) > limit THEN 0 ELSE Min(fitting)

Context(t) == IF cfg.kind = "sdpa" THEN ContextBucket(t) ELSE 0

\* choose_splits: a power of two, at most what fills the device and leaves each
\* slice a whole tile.
Splits(rows, bound, tile) ==
    LET programs == rows * QHeads
        wanted == Max({1, CeilDiv(2 * Multiprocessors, programs)})
        most == Min({wanted, Max({1, bound \div tile}), 16})
    IN  Max({2^k : k \in 0..4} \cap 1..most)

\* The keys of a row of length len that the split kernel visits for a given bound;
\* one split falls back to the kernel that walks the whole row.
KeysVisited(rows, bound, tile, len) ==
    LET n == Splits(rows, bound, tile)
        slice == CeilDiv(bound, n)
    IN  IF n <= 1 THEN len ELSE Min({len, n * slice})

----------------------------------------------------------------------------
(* Captures.                                                               *)

\* The decode capture builds its own context and leaves the storage type at its default.
DecodeGraph(b, tile) ==
    [type |-> "decode", rows |-> b, chunks |-> 0, context |-> 0, tile |-> tile,
     dtype |-> "fp16", bound |-> IF tile >= 128 THEN 128 ELSE 127]

PrefillGraph(p, context) ==
    [type |-> "prefill", rows |-> 0, chunks |-> p, context |-> context, tile |-> 0,
     dtype |-> cfg.dtype, bound |-> 0]

FusedGraph(d, p, context, tile) ==
    [type |-> "fused", rows |-> d, chunks |-> p, context |-> context, tile |-> tile,
     dtype |-> cfg.dtype, bound |-> Max({context, 1})]

\* A kernel the build cannot capture, or a gather longer than the block tables, which
\* are as wide as the pool.
CannotCapture(kind, shapes) ==
    kind \in cfg.fails \/ \E g \in shapes : g.context > cfg.pool

\* Capturing a set of shapes of one kind: all of them, or the kind is marked.
Capture(kind, shapes) ==
    IF kind \in unsupported \/ shapes = {} THEN UNCHANGED <<graphs, unsupported>>
    ELSE IF CannotCapture(kind, shapes)
         THEN unsupported' = unsupported \cup {kind} /\ UNCHANGED graphs
         ELSE graphs' = graphs \cup shapes /\ UNCHANGED unsupported

----------------------------------------------------------------------------
(* Warm-up.                                                                *)

ShortPrompt == 64
LongPrompt == 130

WarmupContexts ==
    LET capacity == Min({cfg.pool, cfg.maxLen})
    IN  IF cfg.kind = "sdpa"
        THEN {b \in ContextSizes : b = 256 \/ b \div 2 < capacity}
        ELSE {0}

ShapeIsReachable(rows, context) == context <= 0 \/ rows * context <= cfg.pool

NewTokens(width, length) == 3 + CeilDiv(width * length, Budget) + width

\* Lengths of the oldest row from the step at which the whole round decodes together.
RoundLengths(width, length) ==
    (length + CeilDiv(width * length, Budget) + 1)..(length + NewTokens(width, length))

Round(width, length) ==
    /\ phase = "rounds"
    /\ <<width, length>> \in rounds
    /\ \A r \in rounds : width <= r[1] /\ (width = r[1] => length <= r[2])
    /\ IF length + NewTokens(width, length) > cfg.maxLen
       THEN phase' = "refused" /\ UNCHANGED <<graphs, rounds>>
       ELSE /\ rounds' = rounds \ {<<width, length>>}
            /\ graphs' = graphs \cup
                 IF width \notin cfg.buckets \/ width * (length + NewTokens(width, length)) > cfg.pool
                 THEN {} ELSE {DecodeGraph(width, DecodeTile(x)) : x \in RoundLengths(width, length)}
            /\ phase' = IF rounds' = {} THEN "prefill" ELSE "rounds"
    /\ UNCHANGED <<cfg, unsupported, lazy, step>>

WarmPrefill ==
    /\ phase = "prefill"
    /\ phase' = "fused"
    /\ Capture("prefill",
               {PrefillGraph(rows, c) :
                 <<rows, c>> \in {x \in (cfg.buckets \cup {1}) \X WarmupContexts :
                     /\ cfg.buckets # {} /\ x[1] <= cfg.prefillRows
                     /\ ShapeIsReachable(x[1], x[2])}})
    /\ UNCHANGED <<cfg, rounds, lazy, step>>

FusedRegimes == {DecodeTile(x) : x \in {64, 128}}      \* fused_graph_regimes

WarmFused ==
    /\ phase = "fused"
    /\ phase' = "serve"
    /\ IF ~ cfg.fused THEN UNCHANGED <<graphs, unsupported>>
       ELSE Capture("fused",
               {FusedGraph(x[1], x[2], x[3], x[4]) :
                 x \in {y \in cfg.buckets \X (cfg.buckets \cup {1}) \X WarmupContexts \X FusedRegimes :
                     /\ RowBucket(y[2], cfg.fusedRows) = y[2]
                     /\ ShapeIsReachable(y[2], y[3])}})
    /\ UNCHANGED <<cfg, rounds, lazy, step>>

----------------------------------------------------------------------------
(* A live step.  Its rows fit the pool and the served context.             *)

Live(d, s, p, t) ==
    /\ d + p \in 1..cfg.maxActive
    /\ (d = 0) = (s = 0) /\ (p = 0) = (t = 0)
    /\ Max({s, t}) <= cfg.maxLen
    /\ s + Max({d - 1, 0}) + t + Max({p - 1, 0}) <= cfg.pool

\* Replay the graph of this shape, capturing it first when it is missing.
Replay(kind, g, d, s, p, t) ==
    LET known == {h \in graphs : [h EXCEPT !.dtype = "any", !.bound = 0]
                                   = [g EXCEPT !.dtype = "any", !.bound = 0]}
    IN  IF known # {}
        THEN step' = [graph |-> known, d |-> d, s |-> s, p |-> p, t |-> t]
             /\ UNCHANGED <<graphs, unsupported, lazy>>
        ELSE /\ lazy' = lazy \cup {g}
             /\ Capture(kind, {g})
             /\ step' = IF CannotCapture(kind, {g}) THEN NoStep
                        ELSE [graph |-> {g}, d |-> d, s |-> s, p |-> p, t |-> t]

Eager == step' = NoStep /\ UNCHANGED <<graphs, unsupported, lazy>>

DecodeRows(d, s) ==
    IF DecodeBuckets(d) = {} THEN Eager
    ELSE Replay("decode", DecodeGraph(Min(DecodeBuckets(d)), DecodeTile(s)), d, s, 0, 0)

PrefillChunks(p, t) ==
    LET rows == RowBucket(p, cfg.prefillRows)
    IN  IF rows = 0 \/ "prefill" \in unsupported THEN Eager
        ELSE Replay("prefill", PrefillGraph(rows, Context(t)), 0, 0, p, t)

FusedRows(d, s, p, t) ==
    LET rows == RowBucket(p, cfg.fusedRows)
    IN  IF DecodeBuckets(d) = {} \/ rows = 0 \/ "fused" \in unsupported THEN Eager
        ELSE Replay("fused", FusedGraph(Min(DecodeBuckets(d)), rows, Context(t), DecodeTile(s)),
                    d, s, p, t)

ServeDecode ==
    /\ phase = "serve"
    /\ \E d \in 1..cfg.maxActive, s \in Lengths : Live(d, s, 0, 0) /\ DecodeRows(d, s)
    /\ UNCHANGED <<cfg, phase, rounds>>

ServePrefill ==
    /\ phase = "serve"
    /\ \E p \in 1..cfg.maxActive, t \in Lengths : Live(0, 0, p, t) /\ PrefillChunks(p, t)
    /\ UNCHANGED <<cfg, phase, rounds>>

ServeFused ==
    /\ phase = "serve"
    /\ cfg.fused
    /\ \E d, p \in 1..cfg.maxActive, s, t \in Lengths :
         Live(d, s, p, t) /\ FusedRows(d, s, p, t)
    /\ UNCHANGED <<cfg, phase, rounds>>

GraphInit ==
    /\ cfg \in GraphConfigs
    /\ phase = "rounds"
    /\ rounds = (IF cfg.buckets = {} THEN {1} ELSE cfg.buckets) \X {ShortPrompt, LongPrompt}
    /\ graphs = {} /\ unsupported = {} /\ lazy = {} /\ step = NoStep

GraphNext ==
    \/ \E w \in rounds : Round(w[1], w[2])
    \/ WarmPrefill \/ WarmFused
    \/ ServeDecode \/ ServePrefill \/ ServeFused

GraphSpec == GraphInit /\ [][GraphNext]_graphVars

----------------------------------------------------------------------------
(* Properties.                                                             *)

\* Graphs are captured once per shape, only for kinds the build can capture; a kind is
\* given up for that reason, or after a live capture of a context beyond the pool.
GraphTypeOK ==
    /\ phase \in {"rounds", "prefill", "fused", "serve", "refused"}
    /\ unsupported \subseteq cfg.fails \cup {g.type : g \in {h \in lazy : h.context > cfg.pool}}
    /\ \A g \in graphs : g.type \notin cfg.fails
    /\ \A g, h \in graphs :
         (g.type = h.type /\ g.rows = h.rows /\ g.chunks = h.chunks
            /\ g.context = h.context /\ g.tile = h.tile) => g = h

\* Warm-up covers every shape a live step can have ("a shape warm-up did not capture can
\* never be captured inside a live step", the max_model_len comment of __init__), but for
\* those it leaves out because all rows at that context would not fit the pool.
LazyOnlyWhenSkipped == \A g \in lazy : ~ShapeIsReachable(g.chunks, g.context)

\* The replayed graph is one graph, wide enough for the rows and the context of the
\* step, and recorded with the tile the step selects.
ReplayFits ==
    step # NoStep =>
        /\ Cardinality(step.graph) = 1
        /\ \A g \in step.graph :
             /\ step.d <= g.rows /\ step.p <= g.chunks
             /\ g.context = 0 \/ step.t <= g.context
             /\ step.d > 0 => g.tile = DecodeTile(step.s)

\* A replayed decode attends to every key of the longest row: the split-K contract is
\* that of paged_decode_batched.  (A fused graph of the gather kind records the context of
\* its chunks as the bound of its decode rows, and is exact up to that.)
KeysCovered ==
    (step # NoStep /\ step.d > 0 /\ cfg.decode = "split_k") =>
        \A g \in step.graph :
            (g.type = "fused" /\ g.context > 0 => step.s <= g.context)
                => KeysVisited(g.rows, g.bound, g.tile, step.s) = step.s

\* The kernels recorded in a replayed graph with chunks are those of the pool's storage
\* type (for a scaled pool "the dequantising kernel is what runs").
StorageMatches ==
    step # NoStep => \A g \in step.graph : g.type # "decode" => g.dtype = cfg.dtype

\* Between warm-up and the last live step, the graph that is replayed was recorded for a
\* batch at least as large, over the same storage and the same tile.
GraphsServe ==
    GraphTypeOK /\ LazyOnlyWhenSkipped /\ ReplayFits /\ KeysCovered /\ StorageMatches
============================================================================
