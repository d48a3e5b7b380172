CONSTANTS
    Platforms <- MCPlatforms
    Sizes = {1, 4}
    Alignments = {8}
    MIN_SIZE = 4
    ALLOC_SIZE = 3
SPECIFICATION Spec
INVARIANTS HeapSound NeverHangsWithoutDma
PROPERTIES IsPool
\* The loader stops when the heap is found corrupted.
CHECK_DEADLOCK FALSE
