\* A load ends with a model or an error, an engine is built once, and a server may idle.
SPECIFICATION StartupSpec
CONSTANTS
    Modules <- MCModules
    Linears <- MCLinears
    Biased = {"q"}
    Divisible = {"q", "down", "head"}
    Checkpoints <- MCCheckpoints
    LoadConfigs <- MCLoadConfigs
    Machines <- Cards
    Geometries <- MCGeometries
    Requests <- MCRequests
    Custom <- MCCustom
    NameOrder <- Order
    Reserve = 1500
    MaxChanges = 1
    GraphConfigs <- MCGraphConfigs
    Lengths = {1, 127, 128, 256, 257, 300, 513, 1000}
INVARIANTS
    LoadIsSound
    EngineAsAsked
    GraphsServe
CHECK_DEADLOCK FALSE
