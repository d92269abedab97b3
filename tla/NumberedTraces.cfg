SPECIFICATION Spec
CONSTANTS
    Captures = {proxy, launch}
    Proxies = {proxy}
    MAX_NUMBER = 4
    MaxClaims = 3
    MaxDeletes = 2
INVARIANTS OneHolder SessionsAscend
PROPERTIES ReadsInOrder
CHECK_DEADLOCK FALSE
