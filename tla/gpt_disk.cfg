SPECIFICATION Spec
CONSTANTS
    NULL = NULL
    IntMax = 32767
    DevLength = 14
    EntryCount = 2
    Ptes = 1
    Sectors = 2
    Heads = 2
    VistaStart = 6
    NPri = 2
    MaxTotalPart = 8
    Label = "gpt"
    Wishes <- GptWishes
    Calls = {"add", "exact", "remove", "delete", "delete_all", "set_geom", "maximize", "get_max", "commit"}
    MaxParts = 3
    Fresh = TRUE
    Ignorer = TRUE
    HasExtended <- LabelHasExtended
    MaxPrimary <- LabelMaxPrimary
    partition_enumerate <- LabelEnumerate
    partition_align <- LabelAlign
    alloc_metadata <- LabelMetadata
    MaxLength = 10
INVARIANTS
    ListsSound
    CallsContained
