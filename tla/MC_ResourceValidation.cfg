\* validateCreateConfig on every combination of CPU count, CPU set and
\* memory size around the boundaries.
CONSTANTS
    HostConfigs <- MCHostConfigs
SPECIFICATION Spec
INVARIANT ResourcesNormalized
\* One call: the state after it has no successor.
CHECK_DEADLOCK FALSE
