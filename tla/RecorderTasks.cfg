SPECIFICATION Spec
CONSTANTS
    s1 = s1
    Ids <- MCIds
    Events <- MCEvents
    CloseEvent <- MCCloseEvent
    SinkFaults = TRUE
    MaxOffered = 5
INVARIANTS AckedAreKept Accounting CompleteIsWhole
PROPERTIES ImplementsTraceLog
CHECK_DEADLOCK FALSE
