CONSTANTS
    Orders <- MCOrders
    Ctrls = 2
    MaxEntries = 1
    MaxCalls = 2
SPECIFICATION Spec
INVARIANTS ReferencesAgree LoadedTogether ControllersReleased
CHECK_DEADLOCK FALSE
