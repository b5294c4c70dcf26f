SPECIFICATION SpecSpec
CONSTANTS
    Req = {r1, r2, r3}
    Prompts <- MCPrompts
    NumBlocks = 5
    BlockSize = 2
    CacheBlocks = 2
    Reserved = 1
    NoToken = NoToken
    Token = {1, 2}
    EosIds = {2}
    Model <- MCModel
    Workload <- Speculative
    MaxActive = 3
    MaxWaiting = 2
    ChunkSize = 2
    Budget = 3
    Fused = FALSE
    InOrder = FALSE
    DraftModel <- MCDraft
    MinMatch = 1
    MaxMatch = 2
    Depth = 2
    Proposers = {"draft_model", "ngram"}
INVARIANTS
    EngineConsistent
    KVIntegrity
    SoloOutput
    ProposalsAreCurrent
    DraftsOfTheLiving
