SPECIFICATION Spec
CONSTANTS
    Handle = {h1, h2}
    TooLong = {}
    InboxSize = 2
    MayRaise = TRUE
    MayTimeOut = FALSE
    None = None
PROPERTY EveryHandleCompletes
CHECK_DEADLOCK FALSE
