SPECIFICATION Spec
CONSTANTS Settings <- MCHasty
INVARIANTS NoFalseConviction
CHECK_DEADLOCK FALSE
