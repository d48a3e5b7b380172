SPECIFICATION Spec
CONSTANTS
    Volumes <- MCVolumes
    Paths <- MCPaths
    LinkPaths <- MCLinkPaths
    Offsets = {0, 3, 14}
    Lengths = {5, 20}
    Count = 4
    BLOCK_SIZE = 2
    NDIR_BLOCKS = 1
    ADDR_PER_BLOCK = 2
    BadBlocks = {2, 13}
    MaxFailures = 1
INVARIANTS
    CacheSound
    NoRefLeft
    ReadsExact
CHECK_DEADLOCK FALSE
