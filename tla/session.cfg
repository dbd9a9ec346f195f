\* Every session; one of two threads makes the calls --hide intercepts.
CONSTANTS
    Threads = {t1, t2}
    Callers = {t1}
    Query = query
    SetThread = set_thread
    Goal = goal
    ReturnSites = {r1, r2}
    Modes = {"addr", "closemon", "launch", "hide", "hide_x86"}
    Sites <- MCSites
    PersistentSites <- MCPersistent
    NoSite = NoSite
    NoThread = NoThread
    OwnExceptions <- Faults
    Starts = {"launch", "attach"}
    ArmTwice = TRUE
    MayFail = TRUE
SPECIFICATION FairSessionSpec
INVARIANTS SessionTypeOK QueriesHidden NeverHidden ReturnsAreArmed GoalNotMissed
PROPERTIES DumpFollows
