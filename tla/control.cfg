\* Three blocks of memory, three group ids, one failure of the driver after
\* each complete Init.
SPECIFICATION Spec
CONSTANTS
    MemSize = 6
    AllocSize = 2
    NGroups = 3
    NNodes = 3
    NPorts = 1
    MaxSize = 2
    MaxFail = 1
    MaxTaken = 1
INVARIANTS
    MemoryPartition
    TablesMatch
PROPERTY
    OthersUndisturbed
