\* One process with one hidden module.
CONSTANTS
    PidList <- One
    Self = 99
    Matching = {}
    NoPid = 0
    Reports <- OneHidden
    Modes = {"pid"}
SPECIFICATION DumpSpec
INVARIANT BadRegionContained
