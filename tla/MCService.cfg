SPECIFICATION Spec
CONSTANTS
    Handle = {h1, h2, h3}
    TooLong = {h3}
    InboxSize = 2
    MayRaise = TRUE
    MayTimeOut = TRUE
    None = None
INVARIANTS
    CompletedIsFinal
    NoOrphans
    StopIsFinal
PROPERTIES
    AcceptedCompletes
CHECK_DEADLOCK FALSE
