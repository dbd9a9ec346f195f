\* Every import table of four cells; three changes of the target anywhere in a dump.
CONSTANTS
    Ptr = 8
    PageSize = 128
    SectionTable = 8
    Base = 48
    Width = 256
    HeaderCell = 1
    MaxHooks = 2
    MaxImage = 400
    MaxFunctions = 8
    NoName = "no name"
    NoHeader = NoHeader
    NoFile = NoFile
    NoOep = 999
    ModuleList <- TheModules
    Length <- TheLengths
    Scenarios <- TheScenarios
SPECIFICATION RebuildSpec
INVARIANTS RebuildTypeOK CaptureExact Coherent ImportsRecovered DiffExact
CHECK_DEADLOCK FALSE
