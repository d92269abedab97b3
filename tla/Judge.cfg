SPECIFICATION Spec
CONSTANTS Settings <- MCSettings
INVARIANTS NoFalseConviction DeviationsAreConvicted
PROPERTY FindingsStand
CHECK_DEADLOCK FALSE
