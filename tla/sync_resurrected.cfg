SPECIFICATION Spec
CONSTANTS
    Worker = {w1, w2}
    LastCheckpoint = 2
    ResetChoices = {FALSE}
    MaxInProgress = 3
    MaxFailures = 0
    MaxCrashes = 0
    CustomPackage = FALSE
    CounterModulus = 16
    a = a
    b = b
    c = c
    d = d
    e = e
    x1 = x1
    x2 = x2
    None = None
    Id <- MCId
    ObjectType <- MCObjectType
    Contents <- MCContents
    Expiration <- MCExpiration
    DecodeExpiration <- MCDecodeExpiration
    Upserts <- MCUpserts
    Removals <- MCRemovals
    Timestamp <- MCTimestamp
    Unreadable <- MCUnreadable
INVARIANT RemovedStaysRemoved
CHECK_DEADLOCK FALSE
