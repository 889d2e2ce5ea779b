SPECIFICATION Spec
CONSTANTS
    K = 3
    M = 6
    MaxSubsets = 6
    MaxWork = 14
    Costs = {1, 3}
INVARIANTS
    TypeOK
    SoundSolution
    AdjacentWrongFound
    FirstSufficesAlways
PROPERTIES
    LexProgress
    ContractKept
\* solve returns: nothing follows "found", "none" or "stopped".
CHECK_DEADLOCK FALSE
