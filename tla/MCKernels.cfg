\* A batch runs its layers once and nothing follows.  Linear layers: group 4, chunk 8 (two
\* groups), programs of 2 and 4 rows; the head's tile (144 bytes) is over the scratch limit
\* and takes the slab path, as the 8B's head does.
SPECIFICATION KernelsSpec
CONSTANTS
    BlockSize = 2
    Pages = {0, 1, 2, 3, 4, 5, 6, 7, 8}
    MaxBlocks = 4
    QHeads = 4
    KVHeads = 2
    KVLayers = {1, 2}
    ChunkSize = 3
    DecodeBuckets = {1, 3}
    DummySlots <- Slots
    TileM = 2
    Multiprocessors = 12
    MaxScore = 3
    Score <- MCScore
    Batches <- MCBatches
    Layers <- MCLayers
    OutputHead = "head"
    In <- MCIn
    Out <- MCOut
    HasBias <- MCHasBias
    GroupSize = 4
    GemvMaxRows = 3
    GemvBlockN = 4
    GemvBlockK = 8
    DequantBlockN = 2
    ScratchBytes = 100
    SlabBytes = 80
    Models <- MCModels
    Activations <- MCActivations
    RowCounts = {1, 3, 4}
    MaxNested = 2
    MaxGraphs = 1
INVARIANTS
    AttentionIsSound
    LinearIsSound
CHECK_DEADLOCK FALSE
