SPECIFICATION Spec
CONSTANTS
    a = a
    Ids <- MCIds
    NoId = NoId
    SinkFaults = TRUE
    Handlers = {h1, h2}
    MaxEvents = 1
    Settings <- MCSafety
INVARIANTS StoryIsTold MessageBesideItsHeaders
           CausalOrder TracesEndAtStop
SYMMETRY HandlerSymmetry
CHECK_DEADLOCK FALSE
