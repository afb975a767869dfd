\* Handle pipeline of two concurrent attempts: type, committed containers
\* complete, remote calls in pipeline order, and the pipeline implements
\* ContainerCreation.
CONSTANTS
    a1 = a1
    a2 = a2
    Malformed = Malformed
    Attempts <- MCAttempts
    MaxHandles <- MCMaxHandles
SYMMETRY MCSymmetry
INIT Init
NEXT Next
INVARIANT TypeOK
INVARIANT CommittedComplete
INVARIANT CallsFollowPipeline
PROPERTY CreationRefined
\* Every attempt ends (done, failed or the process panicked) and pod
\* creation returns: the final states have no successor.
CHECK_DEADLOCK FALSE
