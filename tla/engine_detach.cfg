\* Two threads reach a one-shot site at once; the first hit ends in detach.
CONSTANTS
    Threads = {t1, t2}
    Sites = {o1}
    PersistentSites = {}
    NoSite = NoSite
    NoThread = NoThread
    OwnExceptions <- Quiet
    Starts = {"launch", "attach"}
    ArmTwice = FALSE
    MayFail = FALSE
SPECIFICATION Spec
INVARIANT SurvivesDetach
