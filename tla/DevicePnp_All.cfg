\* Failing calls everywhere, any layout at any restart, three configurations.
CONSTANTS
    Layouts <- MCLayouts
    MaxConfigs = 3
SPECIFICATION FairSpec
INVARIANT HandlesCurrent
PROPERTY StaleOnlyOnRestart
PROPERTY KeepsReading
