SPECIFICATION DurableSpec
CONSTANTS
    Worker = {w1, w2}
    LastCheckpoint = 2
    ResetChoices = {TRUE, FALSE}
    MaxInProgress = 2
    MaxFailures = 1
    MaxCrashes = 2
    CustomPackage = FALSE
    CounterModulus = 1
    a = a
    b = b
    c = c
    d = d
    e = e
    x1 = x1
    x2 = x2
    None = None
    WalChoices = {TRUE, FALSE}
    Id <- MCId
    ObjectType <- MCObjectType
    Contents <- MCContents
    Expiration <- MCExpiration
    DecodeExpiration <- MCDecodeExpiration
    Upserts <- MCUpserts
    Removals <- MCRemovals
    Timestamp <- MCTimestamp
    Unreadable <- MCUnreadable
INVARIANTS LossHasACause ExactUnlessSuspect
SYMMETRY Symmetry
CHECK_DEADLOCK FALSE
