\* Two devices, handles that are used again.
CONSTANTS
    d1 = d1  d2 = d2  h1 = h1  h2 = h2
    Devices <- TwoDevices
    TypesOf <- Silent
    Handles <- TwoHandles
    MaxEntries = 2
    PoolSize = 5
    MaxEvents = 1
    MaxPackets = 1
    PowerDown = FALSE
SPECIFICATION Spec
CONSTRAINT OnlyClean
INVARIANT HandleKnown
INVARIANT HandlesUnique
