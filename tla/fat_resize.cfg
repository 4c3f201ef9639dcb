SPECIFICATION Spec
CONSTANTS
    DevLen <- MCDevLen
    Reserved <- MCReserved
    EntriesPerSector <- MCEntriesPerSector
    MinClusterSize <- MCMinClusterSize
    MaxClusterSize = 2
    MaxCount <- MCMaxCount
    MaxFat12 = 3
    RootSectors = 1
    MinRootSectors = 1
    DirPerSector = 4
    InfoOffset = 1
    BackupOffset = 2
    BufferSectors = 4
    Homes <- MCHomes
    Targets <- MCTargets
    LenA = 3
    LenB = 1
    Spots <- MCSpots
    Bads <- MCBads
INVARIANTS
    FilesSafe
    OldKept
    ReopensAsLaidOut
CHECK_DEADLOCK FALSE
