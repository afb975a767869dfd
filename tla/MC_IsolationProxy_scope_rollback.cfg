CONSTANTS
    a1 = a1
    a2 = a2
    Malformed = Malformed
    Attempts <- MCAttempts
    MaxHandles <- MCMaxHandles
SYMMETRY MCSymmetry
INIT Init
NEXT Next
INVARIANT ScopeRollbackAttempted
CHECK_DEADLOCK FALSE
