\* One packer, two jumping threads, two calls, a TLS callback in the memory.
\* What a launched program does, one that is attached to may do as well.
CONSTANTS
    Threads = {t1, t2}
    Packers = {t1}
    ProtectFn = protect
    Sites <- MCSites
    PersistentSites <- MCSites
    NoSite = NoSite
    NoThread = NoThread
    NoAddr = NoAddr
    OwnExceptions <- Faults
    Starts = {"attach"}
    ArmTwice = FALSE
    MayFail = TRUE
    Requests <- Unpacking
    MaxCalls = 2
    PageSize = 2
    PageCount = 2
    TlsArray <- OneCallback
    MaxCallbacks = 2
SPECIFICATION FairOepSpec
INVARIANTS OepTypeOK FlipsHold OepRequested CaughtCanRun
PROPERTIES JumpDumps
