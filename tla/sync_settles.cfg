SPECIFICATION FairSpec
CONSTANTS
    Worker = {w1, w2}
    LastCheckpoint = 3
    ResetChoices = {TRUE, FALSE}
    MaxInProgress = 2
    MaxFailures = 1
    MaxCrashes = 2
    CustomPackage = TRUE
    CounterModulus = 1
    a = a
    b = b
    c = c
    d = d
    e = e
    x1 = x1
    x2 = x2
    None = None
    Id <- MCId
    ObjectType <- MCObjectType
    Contents <- MCContents
    Expiration <- MCExpiration
    DecodeExpiration <- MCDecodeExpiration
    Upserts <- MCUpserts
    Removals <- MCRemovals
    Timestamp <- MCTimestamp
    Unreadable <- MCUnreadable
INVARIANT PoisonNeverPassed
PROPERTY SettlesAtPoison
CHECK_DEADLOCK FALSE
