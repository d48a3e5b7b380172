SPECIFICATION Spec
CONSTANTS
    BlockSize = 3
    Blocks = 8
    Table <- MCTable
    Handles = {h1}
    MaxCalls = 3
    MaxFaults = 1
PROPERTIES
    IsPartFiles
    OutsideKept
