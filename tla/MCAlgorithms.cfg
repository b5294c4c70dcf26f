\* An input is judged, or a call returns, and nothing follows.
SPECIFICATION AlgorithmsSpec
CONSTANTS
    DraftModel <- MCDraft
    MinMatch = 1
    MaxMatch = 3
    Alphabet = {1, 2}
    Eos = {2}
    MaxHistory = 7
    MaxDepth = 2
    Vocab = 3
    Weight <- MCWeight
    VocabSize = 3
    EosIds = {0}
    PadId = 0
    Cases <- AllCalls
    Owner = {o1, o2, o3, o4}
    NumBlocks = 3
    MaxCount = 2
SYMMETRY Perms
INVARIANTS
    PoolConsistent
    SpeculationIsExact
    RowsSampleAlone
    DecodingIsGreedy
    CachesExact
PROPERTIES
    ImplementsOwnership
CHECK_DEADLOCK FALSE
