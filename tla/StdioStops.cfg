SPECIFICATION FairSpec
CONSTANTS
    Terminate = Terminate
    Stops <- MCStops
    Setups <- MCStopped
    Requests = 0
    SinkFaults = FALSE
INVARIANTS PipesReleased
PROPERTIES StopIsServed SessionEnds
CHECK_DEADLOCK FALSE
