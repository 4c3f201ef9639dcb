INIT DetectInit
NEXT DetectNext
CONSTANTS
    DevLengths = {120000, 300000}
    IntBits = 18
    Parts <- MCParts
    Kinds <- MCKinds
    FsTypes <- MCTypes
    VrsBlocks = 4
    MaxMkfs = 2
    DosFlags = {"boot", "hidden", "lba", "diag", "lvm", "swap", "esp"}
    GptFlags = {"boot", "esp", "swap", "msftdata", "linux_home", "hidden", "no_automount"}
    TypeIds = {5, 15, 6, 14, 21, 222, 130, 238}
    FileSystems = {"none", "fat16", "swap"}
    MaxSteps = 4
    Geometries <- MCGeometries
    Points = {63, 2048, 16065, 40320, 300001}
INVARIANTS
    NewestNamed
    FlagsTrue
    Survives
    GeometryKept
PROPERTIES
    KeepsRest
