CONSTANTS
    ccplex = ccplex
    bpmp = bpmp
    Ends <- MCEnds
    Data = {d1, d2}
    NFrames = 2
    CountMod = 3
    MaxResets = 1
    ResetFrom <- SafeResets
SYMMETRY Symmetry
SPECIFICATION Spec
INVARIANTS
    CheckStaysValid
    NoFrameRace
PROPERTIES
    IsFifo
\* Both ends may wait for the other for ever.
CHECK_DEADLOCK FALSE
