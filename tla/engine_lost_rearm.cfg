\* Two threads on two persistent sites: the step of the first is forgotten.
CONSTANTS
    Threads = {t1, t2}
    Sites = {p1, p2}
    PersistentSites = {p1, p2}
    NoSite = NoSite
    NoThread = NoThread
    OwnExceptions <- Quiet
    Starts = {"launch", "attach"}
    ArmTwice = FALSE
    MayFail = FALSE
SPECIFICATION Spec
INVARIANT PersistentArmed
