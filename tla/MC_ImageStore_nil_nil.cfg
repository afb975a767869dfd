\* Get on a miss: spec section 6 says it returns a config or an error.
CONSTANTS
    g1 = g1
    g2 = g2
    r1 = r1
    r2 = r2
    NoImage = NoImage
    Getters <- MCGetters
    Refs <- MCRefs
SPECIFICATION Spec
INVARIANT GetReturnsImageOrError
\* Every Get may have returned: the program stops there.
CHECK_DEADLOCK FALSE
