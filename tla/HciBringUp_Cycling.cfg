\* Every refusal, power transitions at any time, every fault.
CONSTANTS
    Versions <- MCVersions
    Refusals <- MCAllRefusals
    Faults = {"send", "refuse", "target", "loss"}
    PowerCycling = TRUE
    QueueBound = 2
SPECIFICATION FairSpec
INVARIANT TypeOK
INVARIANT OneConversation
INVARIANT IdleUnlessStarted
INVARIANT SspGivenUpForGood
INVARIANT StallsOnlyOnFault
INVARIANT UnsupportedNeverInitialized
INVARIANT ScanOnlyWhenConfigured
INVARIANT InitializedMeansVisible
PROPERTY EventuallyInitialized
