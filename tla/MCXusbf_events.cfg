SPECIFICATION Spec
CONSTANTS
    RingSize = 3
    EventSize = 3
    Requests <- MCRequests
    MaxSetups = 2
    MaxCalls = 3
    MaxFaults = 1
INVARIANTS
    RingsAgree
    TransferExact
    NoRequestForgotten
CHECK_DEADLOCK FALSE
