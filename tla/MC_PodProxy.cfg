\* CreatePod on two-container pods against every image config of the set.
CONSTANTS
    Pods <- MCPods
    ImageConfigs <- MCImageConfigs
    Images <- MCImages
SPECIFICATION Spec
INVARIANT MergedAsSpecified
INVARIANT OnePathEntry
INVARIANT FailuresLogged
\* CreatePod returns: the state after it has no successor.
CHECK_DEADLOCK FALSE
