\* Spec section 8 on CPU normalisation, against validateCreateConfig.
CONSTANTS
    HostConfigs <- MCHostConfigs
SPECIFICATION Spec
INVARIANT CPUFloorAtMinimum
CHECK_DEADLOCK FALSE
