SPECIFICATION FairSpec
CONSTANTS
    MaxExchanges = 3
    MaxSessions = 2
    Room = 1
    PENDING_LIMIT = 1
    Settings <- MCSettings
INVARIANTS RoutedOnce AnswersKeepTheirStream LinesAreWhole
PROPERTIES StreamsEnd DeleteStopsServer
CHECK_DEADLOCK FALSE
