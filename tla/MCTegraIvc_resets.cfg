CONSTANTS
    ccplex = ccplex
    bpmp = bpmp
    Ends <- MCEnds
    Data = {d1, d2}
    NFrames = 1
    CountMod = 3
    MaxResets = 2
    ResetFrom <- SafeResets
SPECIFICATION FairSpec
INVARIANTS
    IvcInv
    EndsAgree
    ClearsUnusedCounters
    NoLostWakeup
PROPERTIES
    ResetCompletes
\* Both ends may wait for the other for ever.
CHECK_DEADLOCK FALSE
