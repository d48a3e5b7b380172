SPECIFICATION Spec
CONSTANTS
    Payloads <- MCPayloads
    Slotted = {"mb1", "mb2", "tos"}
    Single = {"BCT"}
    AlwaysAb = {"tos"}
    MaxUpdates = 3
    MaxFaults = 2
INVARIANTS
    SuccessIsComplete
    RatchetFresh
PROPERTIES
    DependencyFirst
    OtherSlotKept
CHECK_DEADLOCK FALSE
