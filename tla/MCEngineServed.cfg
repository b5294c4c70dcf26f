SPECIFICATION Spec
CONSTANTS
    Req = {r1, r2, r3}
    Prompts <- MCPrompts
    NumBlocks = 4
    BlockSize = 2
    CacheBlocks = 2
    Reserved = 1
    NoToken = NoToken
    Token = {1, 2}
    EosIds = {2}
    Model <- MCModel
    Workload <- Sharing
    MaxActive = 3
    MaxWaiting = 2
    ChunkSize = 2
    Budget = 3
    Fused = TRUE
    InOrder = TRUE
INVARIANTS
    AdmittedIsServed
