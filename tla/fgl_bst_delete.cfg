CONSTANTS
    Caller = {0, 1}
    Programs <- Phases
    MaxNodes = 4
    NULL = NULL
SPECIFICATION PhasesSpec
PROPERTY DeletePhaseEnds
CHECK_DEADLOCK FALSE
