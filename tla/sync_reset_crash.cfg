SPECIFICATION Spec
CONSTANTS
    Worker = {w1}
    LastCheckpoint = 0
    ResetChoices = {TRUE, FALSE}
    MaxInProgress = 1
    MaxFailures = 0
    MaxCrashes = 2
    CustomPackage = FALSE
    CounterModulus = 16
    a = a
    b = b
    c = c
    d = d
    e = e
    x1 = x1
    x2 = x2
    None = None
    Id <- MCId
    ObjectType <- MCObjectType
    Contents <- MCContents
    Expiration <- MCExpiration
    DecodeExpiration <- MCDecodeExpiration
    Upserts <- MCUpserts
    Removals <- MCRemovals
    Timestamp <- MCTimestamp
    Unreadable <- MCUnreadable
INVARIANT NoLostOutput
CHECK_DEADLOCK FALSE
