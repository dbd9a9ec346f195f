\* Each scope over four processes, one of them revdump itself.
CONSTANTS
    PidList <- Four
    Self = 11
    Matching = {11, 12, 13}
    NoPid = 0
    Reports <- Rich
    Modes = {"pid", "name", "system"}
SPECIFICATION FairDumpSpec
INVARIANTS DumpTypeOK ManifestAccountsForAll ManifestMatchesFiles CountsAreTrue
PROPERTIES BatchCompletes
