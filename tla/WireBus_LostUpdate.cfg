\* Callbacks overlap on one child: an update is lost.
CONSTANTS
    d1 = d1  d2 = d2  h1 = h1  h2 = h2
    Devices <- OneDevice
    TypesOf <- DualShock3
    Handles <- OneHandle
    MaxEntries = 2
    PoolSize = 5
    MaxEvents = 2
    MaxPackets = 1
    PowerDown = TRUE
SPECIFICATION Spec
INVARIANT SharedStateKept
CHECK_DEADLOCK FALSE
