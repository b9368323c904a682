SPECIFICATION Spec
CONSTANTS
    Worker = {w1, w2, w3}
    LastCheckpoint = 3
    ResetChoices = {FALSE}
    MaxInProgress = 3
    MaxFailures = 2
    MaxCrashes = 1
    CustomPackage = FALSE
    CounterModulus = 16
    a = a
    b = b
    c = c
    d = d
    e = e
    x1 = x1
    x2 = x2
    None = None
    Id <- MCId
    ObjectType <- MCObjectType
    Contents <- MCContents
    Expiration <- MCExpiration
    DecodeExpiration <- MCDecodeExpiration
    Upserts <- MCUpserts
    Removals <- MCRemovals
    Timestamp <- MCTimestamp
    Unreadable <- MCUnreadable
SYMMETRY Symmetry
INVARIANTS TypeOK PairedTables NoLostOutput UncontestedRows ClockTrailsWindow RowsTrailWindow IndexedGauge CountersCountRows
PROPERTY ImplementsLog
CHECK_DEADLOCK FALSE
