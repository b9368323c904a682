SPECIFICATION ApiSpec
CONSTANTS
    Worker = {w1}
    LastCheckpoint = 1
    ResetChoices = {FALSE}
    MaxInProgress = 2
    MaxFailures = 0
    MaxCrashes = 1
    CustomPackage = FALSE
    CounterModulus = 16
    a = a
    b = b
    c = c
    d = d
    e = e
    x1 = x1
    x2 = x2
    None = None
    Id <- MCId
    ObjectType <- MCObjectType
    Contents <- MCContents
    Expiration <- MCExpiration
    DecodeExpiration <- MCDecodeExpiration
    Upserts <- MCUpserts
    Removals <- MCRemovals
    Timestamp <- MCTimestamp
    Unreadable <- MCUnreadable
    Client = {c1}
    Endpoint = {"resolved"}
    alice = alice
    bob = bob
    Address <- MCAddress
    Owner <- MCOwner
    ReturnAddress <- MCReturnAddress
    UnixTime <- MCUnixTime
    Undecodable <- MCUndecodable
INVARIANT ExpiryIsFinal
CHECK_DEADLOCK FALSE
