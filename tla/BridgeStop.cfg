SPECIFICATION Spec
CONSTANTS
    MaxExchanges = 2
    MaxSessions = 2
    Room = 1
    PENDING_LIMIT = 1
    Settings <- MCStop
INVARIANT StopEndsEverySession
CHECK_DEADLOCK FALSE
