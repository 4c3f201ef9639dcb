SPECIFICATION ProgramSpec
CONSTANTS
    NULL = NULL
    None = None
    AnyWord = AnyWord
    Nothing = Nothing
    Abbreviations <- MCAbbreviations
    Initials <- MCInitials
    Lines <- MCLines
    MaxLines = 3
    Devices = {"a", "b"}
    Nums = {1, 2}
    Sizes = {1, 2}
    Numeral <- MCNumeral
    LabelTypes = {"gpt"}
    Busy = {1}
    Outcomes = {"ok", "write failed", "os failed"}
    Placements = {"exact", "elsewhere", "unaligned", "refused"}
    Modes <- MCModes
    Arguments <- MCArguments
    Media <- MCMedia
    IntMax = 32767
    DevLength = 25
    SectorSize = 2
    Heads = 2
    Sectors = 2
    Bytes <- MCBytes
    Hundred = 10
    Defaults = {"s", "kB", "kiB", "compact", "chs", "cyl", "%"}
    Texts <- MCTexts
    Layouts <- MCLayouts
    OutputModes = {"HUMAN", "MACHINE", "JSON"}
    Features = {{}, {"name"}, {"extended"}, {"extended", "name"}}
    Lists <- MCLists
    Flags = {0, 1}
INVARIANTS
    CommandsLeaveClean
    AnswersFresh
    PlacedAsTyped
    ListingReadable
PROPERTIES
    WritesJustified
    EofEnds
