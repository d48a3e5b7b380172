CONSTANTS
    Features <- MCFeatures
    max_bl_retry_count = 2
    max_rf_retry_count = 2
    NoSmd = NoSmd
    MaxUpsets = 2
    MaxSetActive = 1
SPECIFICATION FairSpec
INVARIANTS AssertionsHoldWithoutFastboot BothSlotsTriedUndisturbed RootfsTried
PROPERTIES FailingBootsEnd
\* The device may end in RCM or halt.
CHECK_DEADLOCK FALSE
