\* One block and two ids, used by two groups one after the other; the
\* daemons of some hosts are restarted once, or a packet is lost.
SPECIFICATION Spec
CONSTANTS
    Host = {1, 2}
    Memberships = {{1, 2}, {2}}
    NGroups = 2
    AggLen = 2
    MaxGen = 2
    MaxOps = 1
    MaxFaults = 1
INVARIANTS
    SumOfOwnGroup

    
CHECK_DEADLOCK FALSE
