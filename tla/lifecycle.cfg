SPECIFICATION FairSpec
CONSTANTS
    MaxRequests = 2
    None = None
INVARIANTS TypeOK CleanExit
PROPERTIES SignalEndsProcess NoSilentRestFailure
CHECK_DEADLOCK FALSE
