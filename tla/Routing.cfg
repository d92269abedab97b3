SPECIFICATION Spec
CONSTANTS
    Ids = {old, older, a}
    NoId = NoId
    Handlers = {h1, h2, h3}
    Strange = {old, older}
    Orderly = TRUE
    MaxRequests = 4
INVARIANTS SessionsKeepTheirTrace UnseenIsNotCurrent FilesAreNotPerInventedId
PROPERTIES KnownIdsDoNotMove
SYMMETRY RoutingSymmetry
CHECK_DEADLOCK FALSE
