\* A device that does what a DualShock 3 does not.
CONSTANTS
    d1 = d1  d2 = d2
    Devices <- OneDevice
    FirstCid = 1
    LastCid = 2
    RemoteCid <- Ids
    Quirks = {"reopen", "other", "reject"}
    QueueBound = 1
    CidBases <- MCBases
    Handles <- MCHandles
    Identifiers <- MCIdentifiers
SPECIFICATION Spec
CONSTRAINT OneAtATime
INVARIANT ChannelsAgree
