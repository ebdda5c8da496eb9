SPECIFICATION FairSpec
CONSTANTS
    p1 = p1
    p2 = p2
    p3 = p3
    Pid <- Three
    Left <- Stale
    NoPid = nopid
    TermTimesOut = TRUE
    SlowChild = FALSE
    Settings <- Chosen
INVARIANTS
    TypeOK
    FileNamesDaemon
    WatchdogHasDevice
PROPERTY StopHandsOver
CHECK_DEADLOCK FALSE
