SPECIFICATION ApiSpec
CONSTANTS
    Worker = {w1}
    LastCheckpoint = 2
    ResetChoices = {FALSE}
    MaxInProgress = 2
    MaxFailures = 1
    MaxCrashes = 1
    CustomPackage = TRUE
    CounterModulus = 1
    a = a
    b = b
    c = c
    d = d
    e = e
    x1 = x1
    x2 = x2
    None = None
    Id <- MCId
    ObjectType <- MCObjectType
    Contents <- MCContents
    Expiration <- MCExpiration
    DecodeExpiration <- MCDecodeExpiration
    Upserts <- MCUpserts
    Removals <- MCRemovals
    Timestamp <- MCTimestamp
    Unreadable <- MCUnreadable
    Client = {c1}
    Endpoint = {"list", "resolved", "health", "malformed", "unknown"}
    alice = alice
    bob = bob
    Address <- MCAddress
    Owner <- MCOwner
    ReturnAddress <- MCReturnAddress
    UnixTime <- MCUnixTime
    Undecodable <- MCUndecodable
INVARIANTS ApiTypeOK SequentialRows ExpiryHolds AnswersAgree HealthDriftBounded ListIsComplete OnlyDecodableRows
PROPERTY HandedOver
CHECK_DEADLOCK FALSE
