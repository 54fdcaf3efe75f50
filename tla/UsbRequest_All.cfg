\* Two senders and three requests; once these are used, creation fails.
CONSTANTS
    s1 = s1  s2 = s2  r1 = r1  r2 = r2  r3 = r3
    Senders <- TwoSenders
    Requests <- ThreeRequests
SPECIFICATION Spec
INVARIANT NeverUsedDeleted
INVARIANT NoSilentLeak
INVARIANT BuffersBalanced
