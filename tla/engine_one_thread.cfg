\* One thread, two persistent sites and a one-shot one, every exception.
CONSTANTS
    Threads = {t1}
    Sites = {p1, p2, o1}
    PersistentSites = {p1, p2}
    NoSite = NoSite
    NoThread = NoThread
    OwnExceptions <- All
    Starts = {"launch"}
    ArmTwice = FALSE
    MayFail = TRUE
SPECIFICATION Spec
INVARIANTS PersistentArmed Transparent
PROPERTIES ImplementsService
