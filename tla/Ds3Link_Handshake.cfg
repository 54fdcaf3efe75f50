\* A device that connects again and again; sends that fail.
CONSTANTS
    d1 = d1  d2 = d2
    Devices <- OneDevice
    FirstCid = 1
    LastCid = 2
    RemoteCid <- Ids
    Quirks = {"send", "disconnect", "noise"}
    QueueBound = 1
    CidBases <- MCBases
    Handles <- MCHandles
    Identifiers <- MCIdentifiers
SPECIFICATION FairSpec
INVARIANT TypeOK
INVARIANT EnabledWhenReady
INVARIANT HidAddressed
INVARIANT UnderstoodAsMeant
PROPERTY EventuallyStreaming
PROPERTY ClosingEndsLink
