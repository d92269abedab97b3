SPECIFICATION Spec
CONSTANTS
    Exchanges = {e1, e2, e3}
    Ids = {a, b}
    NoId = NoId
    Capacity = 2
    MaxFrames = 1
    Settings <- MCSettings
INVARIANTS ObservationOrder HeldForTheLiving RecordedOnce SessionsKeepTheirTrace
SYMMETRY TapSymmetry
CHECK_DEADLOCK FALSE
