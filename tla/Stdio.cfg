SPECIFICATION Spec
CONSTANTS
    Terminate = Terminate
    Stops <- MCStops
    Setups <- MCSafety
    Requests = 2
    SinkFaults = TRUE
INVARIANTS CausalOrder ClientCloseIsClean StopClosesFirst EndedSessionIsWhole
PROPERTIES ImplementsWiretap UntapedIsCounted
CHECK_DEADLOCK FALSE
