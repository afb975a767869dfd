\* Spec section 4.2 on the environment merge, against the code (EnvKeysUnique).
CONSTANTS
    Pods <- MCPods
    ImageConfigs <- MCImageConfigs
    Images <- MCImages
SPECIFICATION Spec
INVARIANT EnvKeysUnique
\* CreatePod returns: the state after it has no successor.
CHECK_DEADLOCK FALSE
