\* Two devices that do what they should, and ids for all their channels.
CONSTANTS
    d1 = d1  d2 = d2
    Devices <- TwoDevices
    FirstCid = 1
    LastCid = 4
    RemoteCid <- Ids
    Quirks = {}
    QueueBound = 1
    CidBases <- MCBases
    Handles <- MCHandles
    Identifiers <- MCIdentifiers
SPECIFICATION Spec
CONSTRAINT OneAtATime
INVARIANT CidsUnique
CHECK_DEADLOCK FALSE
