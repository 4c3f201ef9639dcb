SPECIFICATION Spec
CONSTANTS
    NULL = NULL
    Chunks = {c1, c2}
    Ptes = 2
    NClobber = 2
    Len0 = 10
    MaxLen = 11
INVARIANT
    BothAreCorrupt
