------------------------------ MODULE W4Linear ------------------------------
(***************************************************************************)
(* Linear layers with 4-bit grouped weights: the packed format, the four    *)
(* ways a layer multiplies by it, the scratch tile those ways share and the *)
(* CUDA graphs that record its address, and reference mode.                *)
(*                                                                         *)
(* Weights and activations are integers and every product is exact, so a    *)
(* scale max|w| / 7 is kept as max|w| and an output is in sevenths; the     *)
(* rounding of scales and sums to 16 bits is left out.  Rows, columns,      *)
(* groups and bytes count from 0 as in the code.                           *)
(***************************************************************************)
EXTENDS Integers, Sequences, FiniteSets, FiniteSetsExt

CONSTANTS Layers, OutputHead,      \* the linear layers of a model; its output head
          In, Out, HasBias,        \* functions of the layer
          GroupSize,
          GemvMaxRows,             \* GEMV_MAX_ROWS
          GemvBlockN, GemvBlockK, DequantBlockN,
          ScratchBytes, SlabBytes, \* dense_scratch_bytes, dense_slab_bytes
          Models,                  \* weights and biases a checkpoint may hold
          Activations,             \* patterns the inputs are made of
          RowCounts,
          MaxNested, MaxGraphs

ASSUME W4Assumption ==
    /\ OutputHead \in Layers
    /\ GroupSize \in Nat \ {0} /\ GroupSize % 2 = 0
    /\ \A p \in Layers : In[p] \in Nat \ {0} /\ Out[p] \in Nat \ {0}

VARIABLES device, model, installed, weights, reference, saved, scratch, graphs, last

linearVars == <<device, model, installed, weights, reference, saved, scratch, graphs, last>>

NoBuffer == [id |-> 0, size |-> 0]
NoWeights == [packed |-> <<>>, scales |-> <<>>]
NoCall == [layer |-> "none"]
Garbage == 1000003                 \* what an element nobody wrote reads as
Half == GroupSize \div 2
DivUp(a, b) == (a + b - 1) \div b
Size(a) == IF a < 0 THEN -a ELSE a
Cols(p) == 0..In[p] - 1
OutRows(p) == 0..Out[p] - 1
Groups(p) == 0..(In[p] \div GroupSize) - 1

----------------------------------------------------------------------------
(* The format.                                                             *)

\* torch.round: to nearest, ties to even.
Round(a, b) ==
    LET f == a \div b
        r == 2 * (a % b)
    IN  IF r < b \/ (r = b /\ f % 2 = 0) THEN f ELSE f + 1

Scale(w, g) == Max({Size(w[g * GroupSize + i]) : i \in 0..GroupSize - 1})

\* The 4-bit code of one weight.  A group of zeros has the scale floor and code 8.
Code(w, k) ==
    LET s == Scale(w, k \div GroupSize)
        q == IF s = 0 THEN 0 ELSE Round(7 * w[k], s)
    IN  Max({-7, Min({7, q})}) + 8

\* Byte j of a group carries input j low and input j + Half high.
Pack(w, b) ==
    LET k == (b \div Half) * GroupSize + (b % Half)
    IN  Code(w, k) + 16 * Code(w, k + Half)

Quantized(p) ==
    [packed |-> [n \in OutRows(p) |-> [b \in 0..(In[p] \div 2) - 1 |-> Pack(model.weight[p][n], b)]],
     scales |-> [n \in OutRows(p) |-> [g \in Groups(p) |-> Scale(model.weight[p][n], g)]]]

Low(byte) == (byte % 16) - 8
High(byte) == (byte \div 16) - 8

\* unpack_w4_reference
Unpack(q, p) ==
    [n \in OutRows(p) |-> [k \in Cols(p) |->
        LET g == k \div GroupSize
            i == k % GroupSize
            byte == q.packed[n][g * Half + (i % Half)]
        IN  (IF i < Half THEN Low(byte) ELSE High(byte)) * q.scales[n][g]]]

----------------------------------------------------------------------------
(* The multiplications.  x[m][k] is the input, the result is [m][n].       *)

Bias(p, n) == IF HasBias[p] THEN 7 * model.bias[p][n] ELSE 0

Dot(x, w, ks) == MapThenSumSet(LAMBDA k : x[k] * w[k], ks)

\* F.linear over the given weight
FLinear(p, x, w) ==
    [m \in DOMAIN x |-> [n \in OutRows(p) |-> Dot(x[m], w[n], Cols(p)) + Bias(p, n)]]

\* The rows of a launch of cdiv(N, block) programs of `block` rows, masked by n < N.
Launched(p, block) ==
    {n \in OutRows(p) : n < DivUp(Out[p], block) * block}

\* Inputs per chunk; the kernel refuses a width that chunks do not divide.
BlockK(p) == Min({GemvBlockK, In[p]})

GemvRuns(p) == BlockK(p) % GroupSize = 0 /\ In[p] % BlockK(p) = 0

\* Mutant: the group of a byte is counted from its chunk.
GemvGroupOfChunk(p, x, q) ==
    [m \in DOMAIN x |-> [n \in OutRows(p) |->
        IF n \notin Launched(p, GemvBlockN) THEN Garbage
        ELSE MapThenSumSet(
               LAMBDA cj : LET c == cj[1]  j == cj[2]
                               g == c * (BlockK(p) \div GroupSize)
                               k == c * BlockK(p) + (j \div Half) * GroupSize + (j % Half)
                               byte == q.packed[n][c * (BlockK(p) \div 2) + j]
                           IN  q.scales[n][g] * (Low(byte) * x[m][k] + High(byte) * x[m][k + Half]),
               (0..(In[p] \div BlockK(p)) - 1) \X (0..(BlockK(p) \div 2) - 1)) + Bias(p, n)]]

\* One program per input row and block of outputs, BlockK inputs at a time: byte j of a
\* chunk belongs to group j \div Half of the chunk.
Gemv(p, x, q) ==
    [m \in DOMAIN x |-> [n \in OutRows(p) |->
        IF n \notin Launched(p, GemvBlockN) THEN Garbage
        ELSE MapThenSumSet(
               LAMBDA cj : LET c == cj[1]  j == cj[2]
                               g == c * (BlockK(p) \div GroupSize) + (j \div Half)
                               k == c * BlockK(p) + (j \div Half) * GroupSize + (j % Half)
                               byte == q.packed[n][c * (BlockK(p) \div 2) + j]
                           IN  q.scales[n][g] * (Low(byte) * x[m][k] + High(byte) * x[m][k + Half]),
               (0..(In[p] \div BlockK(p)) - 1) \X (0..(BlockK(p) \div 2) - 1)) + Bias(p, n)]]

\* The kernel with a tensor-core dot, one group at a time; serves the benchmark.
TiledDot(p, x, q) ==
    [m \in DOMAIN x |-> [n \in OutRows(p) |->
        MapThenSumSet(
          LAMBDA gh : LET g == gh[1]  h == gh[2]
                          byte == q.packed[n][g * Half + h]
                      IN  q.scales[n][g] * (Low(byte) * x[m][g * GroupSize + h]
                                            + High(byte) * x[m][g * GroupSize + Half + h]),
          Groups(p) \X (0..Half - 1)) + Bias(p, n)]]

\* w4_dequantize_into: one program per group and block of rows writes both halves.
Dequantized(p, q) ==
    [n \in OutRows(p) |-> [k \in Cols(p) |->
        LET g == k \div GroupSize
            h == (k % GroupSize) % Half
            byte == q.packed[n][g * Half + h]
        IN  IF n \notin Launched(p, DequantBlockN) THEN Garbage
            ELSE (IF k % GroupSize < Half THEN Low(byte) ELSE High(byte)) * q.scales[n][g]]]

\* The dense path that never holds more than a slab of dequantised rows.
SlabRows(p) == Max({1, SlabBytes \div (2 * In[p])})

Slabs(p, x, q) ==
    LET starts == {n \in OutRows(p) : n % SlabRows(p) = 0}
        covered(n) == \E s \in starts : s <= n /\ n < Min({s + SlabRows(p), Out[p]})
    IN  [m \in DOMAIN x |-> [n \in OutRows(p) |->
            IF covered(n) THEN Dot(x[m], Unpack(q, p)[n], Cols(p)) + Bias(p, n) ELSE Garbage]]

----------------------------------------------------------------------------
(* W4A16Linear.forward.                                                    *)

IsW4(p) == weights[p] # NoWeights

TileBytes(p) == 2 * Out[p] * In[p]

Route(p, rows) ==
    LET triton == device = "cuda" /\ ~reference[p]
    IN  CASE ~IsW4(p) -> "linear"
          [] IsW4(p) /\ triton /\ rows < GemvMaxRows + 1 -> "gemv"
          [] IsW4(p) /\ triton /\ rows >= GemvMaxRows + 1 /\ TileBytes(p) <= ScratchBytes -> "scratch"
          [] OTHER -> IF TileBytes(p) <= SlabBytes THEN "whole" ELSE "slabs"

Raises(p, route) == route = "gemv" /\ ~GemvRuns(p)

Result(p, x, route) ==
    LET q == weights[p]
    IN  CASE route = "linear" -> FLinear(p, x, [n \in OutRows(p) |->
                                                  [k \in Cols(p) |-> 7 * model.weight[p][n][k]]])
          [] route = "gemv" -> Gemv(p, x, q)
          [] route = "dot" -> TiledDot(p, x, q)
          [] route = "scratch" -> FLinear(p, x, Dequantized(p, q))
          [] route = "whole" -> FLinear(p, x, Unpack(q, p))
          [] route = "slabs" -> Slabs(p, x, q)

\* dense_scratch: one buffer, replaced by a larger one when a larger tile is asked for.
Grown(buffer, needed) ==
    IF needed > buffer.size THEN [id |-> buffer.id + 1, size |-> needed] ELSE buffer

\* A forward of the whole model: `rows` rows through the body, `heads` of them through
\* the output head.  The largest tile decides what the scratch is afterwards.
RowsOf(p, rows, heads) == IF p = OutputHead THEN heads ELSE rows

Tiles(rows, heads) == {p \in Layers : Route(p, RowsOf(p, rows, heads)) = "scratch"}

ScratchAfter(rows, heads) ==
    IF Tiles(rows, heads) = {} THEN scratch
    ELSE Grown(scratch, Max({Out[p] * In[p] : p \in Tiles(rows, heads)}))

----------------------------------------------------------------------------
LinearInit ==
    /\ device \in {"cuda", "cpu"}
    /\ model \in Models
    /\ installed = FALSE
    /\ weights = [p \in Layers |-> NoWeights]
    /\ reference = [p \in Layers |-> FALSE]
    /\ saved = <<>>
    /\ scratch = NoBuffer
    /\ graphs = <<>>
    /\ last = NoCall

\* install_w4a16: every target whose width is a multiple of the group becomes 4-bit.
Install ==
    /\ ~installed
    /\ installed' = TRUE
    /\ weights' = [p \in Layers |-> IF In[p] % GroupSize = 0 THEN Quantized(p) ELSE NoWeights]
    /\ UNCHANGED <<device, model, reference, saved, scratch, graphs, last>>

Input(p, a, rows) == [m \in 0..rows - 1 |-> [k \in Cols(p) |-> a[(k + 2 * m) % Cardinality(DOMAIN a)]]]

\* One layer called on its own.
Call(p, rows, a) ==
    LET route == Route(p, rows)
    IN  /\ installed
        /\ scratch' = IF route = "scratch" THEN Grown(scratch, Out[p] * In[p]) ELSE scratch
        /\ last' = [layer |-> p, input |-> Input(p, a, rows), route |-> route,
                    result |-> IF Raises(p, route) THEN <<>> ELSE Result(p, Input(p, a, rows), route)]
        /\ UNCHANGED <<device, model, installed, weights, reference, saved, graphs>>

\* The benchmark and the tests force the tiled kernel.
Bench(p, rows, a) ==
    /\ IsW4(p) /\ device = "cuda"
    /\ last' = [layer |-> p, input |-> Input(p, a, rows), route |-> "dot",
                result |-> Result(p, Input(p, a, rows), "dot")]
    /\ UNCHANGED <<device, model, installed, weights, reference, saved, scratch, graphs>>

\* A graph is captured after an eager forward of the same shape, so the scratch it
\* records is already large enough for it.
Capture(rows, heads) ==
    /\ installed /\ device = "cuda" /\ heads <= rows
    /\ Len(graphs) < MaxGraphs
    /\ scratch' = ScratchAfter(rows, heads)
    /\ graphs' = Append(graphs, [tiles |-> Tiles(rows, heads), buffer |-> scratch'.id])
    /\ last' = NoCall
    /\ UNCHANGED <<device, model, installed, weights, reference, saved>>

Forward(rows, heads) ==
    /\ installed /\ heads <= rows
    /\ scratch' = ScratchAfter(rows, heads)
    /\ last' = NoCall
    /\ UNCHANGED <<device, model, installed, weights, reference, saved, graphs>>

\* reference_mode, entered and left; it nests.
EnterReference ==
    /\ installed /\ Len(saved) < MaxNested
    /\ saved' = Append(saved, reference)
    /\ reference' = [p \in Layers |-> IsW4(p)]
    /\ last' = NoCall
    /\ UNCHANGED <<device, model, installed, weights, scratch, graphs>>

LeaveReference ==
    /\ saved # <<>>
    /\ reference' = saved[Len(saved)]
    /\ saved' = SubSeq(saved, 1, Len(saved) - 1)
    /\ last' = NoCall
    /\ UNCHANGED <<device, model, installed, weights, scratch, graphs>>

LinearNext ==
    \/ Install
    \/ \E p \in Layers, rows \in RowCounts, a \in Activations : Call(p, rows, a)
    \/ \E p \in Layers, rows \in RowCounts, a \in Activations : Bench(p, rows, a)
    \/ \E rows \in RowCounts, heads \in RowCounts : Capture(rows, heads)
    \/ \E rows \in RowCounts, heads \in RowCounts : Forward(rows, heads)
    \/ EnterReference
    \/ LeaveReference

LinearSpec == LinearInit /\ [][LinearNext]_linearVars

----------------------------------------------------------------------------
LinearTypeOK ==
    /\ device \in {"cuda", "cpu"} /\ installed \in BOOLEAN
    /\ reference \in [Layers -> BOOLEAN]
    /\ \A i \in DOMAIN saved : saved[i] \in [Layers -> BOOLEAN]
    /\ scratch.id \in Nat /\ scratch.size \in Nat
    /\ \A i \in DOMAIN graphs : graphs[i].tiles \subseteq Layers /\ graphs[i].buffer \in Nat
    /\ last = NoCall \/ last.layer \in Layers

\* Whatever the route, a layer answers as F.linear over its own dequantised weights does:
\* the identity gate compares the kernels with exactly that, and "Bit-identical to
\* `unpack_w4_reference`" is the dequantising kernel's contract.
PathsAgree ==
    (last # NoCall /\ last.route # "linear" /\ last.result # <<>>) =>
        last.result = FLinear(last.layer, last.input, Unpack(weights[last.layer], last.layer))

\* The answer stays within half a step per input of what the unquantised layer would
\* give, through packing, group scales, tiles and masks alike.
WithinHalfStep ==
    (last # NoCall /\ last.result # <<>>) =>
        LET p == last.layer
            w(n) == model.weight[p][n]
            exact == FLinear(p, last.input, [n \in OutRows(p) |-> [k \in Cols(p) |-> 7 * w(n)[k]]])
        IN  \A m \in DOMAIN last.input, n \in OutRows(p) :
                /\ last.result[m][n] # Garbage
                /\ 2 * Size(last.result[m][n] - exact[m][n])
                     <= MapThenSumSet(LAMBDA k : Size(last.input[m][k]) * Scale(w(n), k \div GroupSize),
                                      IF IsW4(p) THEN Cols(p) ELSE {})

\* "A persistent fp16 buffer": a graph replays into the address it recorded, so that
\* buffer must still be the one the layers hold.  (It is where no tile of the head is
\* larger than those of the body and still fits the scratch.)
GraphTilesHeld ==
    \A i \in DOMAIN graphs : graphs[i].tiles # {} => graphs[i].buffer = scratch.id

\* Inside reference_mode every layer answers with torch, however the contexts nest, and
\* after the last of them none does.
ReferenceModeHolds ==
    \A p \in Layers : reference[p] <=> saved # <<>> /\ IsW4(p)

\* A layer the installer accepted answers for every number of rows; the GEMV refuses only
\* a width of more than one chunk that does not end with a chunk.
EveryLayerServes ==
    (last # NoCall /\ last.result = <<>>) =>
        In[last.layer] > GemvBlockK /\ In[last.layer] % GemvBlockK # 0

\* Every route through a layer is one function of its packed weights, in reference mode,
\* in a graph and out of them.
LinearIsSound ==
    /\ LinearTypeOK /\ PathsAgree /\ WithinHalfStep
    /\ GraphTilesHeld /\ ReferenceModeHolds /\ EveryLayerServes
=============================================================================
