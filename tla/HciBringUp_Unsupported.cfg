\* A controller that is too old: the conversation does not end.
CONSTANTS
    Versions <- MCVersions
    Refusals <- MCSomeRefusals
    Faults = {}
    PowerCycling = FALSE
    QueueBound = 1
SPECIFICATION FairSpec
PROPERTY UnsupportedAborts
CHECK_DEADLOCK FALSE
