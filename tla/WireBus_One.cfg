\* Every stage of one child's life, power transitions and re-plugging.
CONSTANTS
    d1 = d1  d2 = d2  h1 = h1  h2 = h2
    Devices <- OneDevice
    TypesOf <- DualShock3
    Handles <- OneHandle
    MaxEntries = 2
    PoolSize = 4
    MaxEvents = 1
    MaxPackets = 1
    PowerDown = TRUE
SPECIFICATION FairSpec
CONSTRAINT OnlyClean
INVARIANT TypeOK
INVARIANT NoGhost
INVARIANT NoBugcheck
INVARIANT PoolExact
PROPERTY ImplementsBus
PROPERTY ChildFollowsLink
