SPECIFICATION DevicesSpec
CONSTANTS
    Paths = {p1, p2}
    Objs = {o1, o2, o3}
    Users = {u1, u2}
    Values = {"a"}
    Tables <- MCTables
    LabelMax = 3
    Range = 4
    MaxSleeps = 1
    Nodes <- MCNodes
    Sectors = {1, 2}
    InPart = {2}
    Contents = {"a", "b"}
    SectorSizes = {8}
    Bytes = 7
    MaxLeaks = 1
    NULL = NULL
    IntMax = 32767
    DevLength = 5
    MaxNarrow = 2
    Aligns <- MCAligns
    Sizes <- MCSizes
INVARIANTS
    TypeOK
    RefCount
    ArchOpen
    CacheSound
    KernelInStep
    FdBalanced
    IntersectExact
    SolveRight
PROPERTIES
    CommitEnds
    FlushCoherent
