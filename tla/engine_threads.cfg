CONSTANTS
    Threads = {t1, t2}
    Sites = {p1, o1}
    PersistentSites = {p1}
    NoSite = NoSite
    NoThread = NoThread
    OwnExceptions <- All
    Starts = {"launch", "attach"}
    ArmTwice = FALSE
    MayFail = TRUE
SPECIFICATION FairSpec
INVARIANTS TypeOK Int3Accounted CleanAfterDetach NeverSkewed
PROPERTIES ReArmed
