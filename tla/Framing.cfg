SPECIFICATION Spec
CONSTANTS
    Exchanges = {e1, e2, e3}
    Ids = {e1, e2, e3}
    NoId = NoId
    NoSeq = NoSeq
    Settings <- MCTruth
INVARIANTS PostsAreTrue ExchangesAreTrue
           RefusedIsRefused OrderlyIsSettled
SYMMETRY ExchangeSymmetry
CHECK_DEADLOCK FALSE
