SPECIFICATION Spec
CONSTANTS
    NULL = NULL
    IntMax = 32767
    DevLength = 12
    MaxLength = 12
    Sectors = 1
    Heads = 2
    ClobberSpan = 3
    Flags = {"boot", "root"}
    SunSlots = 3
    WholeDisk = 2
    BsdSlots = 2
    DvhSlots = 4
    DvhFiles = 2
    VolHdr = 3
    Volume = 4
    VolHdrSize = 4
    MapGrain = 4
    MacMinLength = 8
    Pc98Slots = 2
    RdbLimit = 3
    AmigaMax = 3
    MaxRdb = 5
    Labels = {"sun", "bsd", "dvh", "mac", "pc98", "amiga"}
    Wishes <- MCWishes
    FsTypes = {"none", "ext2"}
    Names = {"x"}
    Media <- MCMedia
    Probed = {"none"}
    MaxParts = 4
    MaxEdits = 3
    HasExtended <- OpsHasExtended
    MaxPrimary <- OpsMaxPrimary
    partition_enumerate <- OpsEnumerate
    partition_align <- OpsAlign
    alloc_metadata <- OpsMetadata
INVARIANTS
    ProbeFindsLabel
    RoundTrip
    CopyFaithful
PROPERTIES
    NumbersStable
    OthersKept
