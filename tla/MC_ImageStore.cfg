\* Two concurrent Gets over two references, every cache content at start,
\* a persona that answers, rejects, answers late or never.
CONSTANTS
    g1 = g1
    g2 = g2
    r1 = r1
    r2 = r2
    NoImage = NoImage
    Getters <- MCGetters
    Refs <- MCRefs
SPECIFICATION Spec
INVARIANT GetErrorOnlyAfterPull
PROPERTY GetsTerminate
\* Every Get may have returned: the program stops there.
CHECK_DEADLOCK FALSE
