----------------------------- MODULE MCKernels ------------------------------
(***************************************************************************)
(* The kernels of a forward pass: attention over the pages (PagedKernels)  *)
(* and the 4-bit linear layers (W4Linear).  A behaviour is about one of    *)
(* the two; the other stays at its first initial state.                    *)
(***************************************************************************)
EXTENDS PagedKernels, W4Linear

VARIABLE about

-----------------------------------------------------------------------------
(* Batches of one or two live rows over an eight-token context, for every  *)
(* backend, with and without graph padding.                                *)

Slots == <<<<8, 0>>, <<8, 1>>>>

\* Scores that differ between neighbours, in both directions.
MCScore(q, t, k) == (q + 2 * t + 2 * k[3] + k[4] + (k[3] \div 3)) % (MaxScore + 1)

Tables == <<<<2, 0, 4, 6>>, <<7, 5, 1, 3>>>>

\* Row r with its pages; the unused entries of a decode table are stale, those of a
\* prefill table are -1.  Rows that share a prefix share their first page.
Live(r, kind, start, chunk, shared) ==
    [table |-> [i \in 1..MaxBlocks |->
                  IF i <= CeilDiv(start + chunk, BlockSize)
                  THEN IF i = 1 /\ shared > 0 THEN 2 ELSE Tables[r][i]
                  ELSE IF kind = "decode" THEN Tables[3 - r][i] ELSE NoPage],
     start |-> start, chunk |-> chunk, real |-> TRUE, shared |-> shared]

Spans(kind) ==
    IF kind = "decode" THEN {0, 1, 2, 4, 7} \X {1}
    ELSE {x \in {0, 2, 5} \X (1..ChunkSize) : x[1] + x[2] <= MaxBlocks * BlockSize}

RowSets(kind) ==
    {<<Live(1, kind, x[1], x[2], 0)>> : x \in Spans(kind)}
      \cup {<<Live(1, kind, x[1], x[2], s), Live(2, kind, y[1], y[2], s)>> :
              <<x, y, s>> \in {z \in Spans(kind) \X Spans(kind) \X {0, BlockSize} :
                                 z[3] <= z[1][1] /\ z[3] <= z[2][1]}}

Backends(kind) ==
    IF kind = "decode" THEN {"per_head", "gqa", "split_k", "flash", "int8", "fp8"}
    ELSE {"per_token", "tiled", "sdpa", "flash", "flash_dense", "int8", "fp8"}

MCBatches ==
    UNION {{[kind |-> k, backend |-> e, rows |-> rows, tile |-> n, graph |-> g] :
              e \in Backends(k), rows \in RowSets(k), n \in {2, 4}, g \in BOOLEAN} :
           k \in {"decode", "prefill"}}

-----------------------------------------------------------------------------
(* A body of two projections and a head, widths of two and four groups,    *)
(* one width that is no multiple of the group and is skipped by the        *)
(* installer, and one of three groups, which the GEMV refuses.             *)

MCLayers == {"attn", "mlp", "odd", "wide", "head"}
MCIn == [attn |-> 4, mlp |-> 16, odd |-> 6, wide |-> 12, head |-> 8]
MCOut == [attn |-> 5, mlp |-> 3, odd |-> 2, wide |-> 1, head |-> 9]
MCHasBias == [attn |-> TRUE, mlp |-> FALSE, odd |-> TRUE, wide |-> FALSE, head |-> FALSE]

Mix(s, n, k) == ((s * n + 3 * k * k + s + k) % 15) - 7

\* Dense patterns of both signs; a group of zeros; ties at half a step of the scale.
Weight(i, n, k) ==
    CASE i = 1 -> Mix(1, n, k)
      [] i = 2 -> Mix(4, n, k)
      [] i = 3 -> IF k < GroupSize THEN 0 ELSE 3 * n - k
      [] i = 4 -> CASE k % GroupSize = 0 -> 14
                    [] k % GroupSize = 1 -> 2 * n - 5
                    [] OTHER -> 1 - 2 * (k % 2)

MCModels ==
    {[weight |-> [p \in Layers |-> [n \in OutRows(p) |-> [k \in Cols(p) |-> Weight(i, n, k)]]],
      bias |-> [p \in Layers |-> [n \in OutRows(p) |-> n - 1]]] : i \in 1..4}

MCActivations == {[i \in 0..4 |-> (<<1, -2, 3, 0, 5>>)[i + 1]]}

-----------------------------------------------------------------------------
KernelsInit ==
    /\ \/ about = "attention" /\ device = "cuda" /\ model = (CHOOSE m \in Models : TRUE)
       \/ about = "linear"
    /\ KernelInit /\ LinearInit

KernelsNext ==
    \/ \E b \in Batches : about = "attention" /\ CaptureEager(b) /\ UNCHANGED <<about, linearVars>>
    \/ \E b \in Batches : about = "attention" /\ Stage(b) /\ UNCHANGED <<about, linearVars>>
    \/ about = "attention" /\ Layer /\ UNCHANGED <<about, linearVars>>
    \/ about = "linear" /\ LinearNext /\ UNCHANGED <<about, kernelVars>>

KernelsSpec == KernelsInit /\ [][KernelsNext]_<<about, kernelVars, linearVars>>
=============================================================================
