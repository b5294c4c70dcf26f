SPECIFICATION Spec
CONSTANTS
    NumBlocks = 4
    Req = {r1, r2}
    Prompts <- MCPrompts
    BlockSize = 2
    CacheBlocks = 2
    Reserved = 1
    NoToken = NoToken
    Token = {1, 2}
    MaxLen = 5
SYMMETRY Perms
INVARIANTS
    RequestsReadBack
    CacheImmutable
    CacheConsistent
