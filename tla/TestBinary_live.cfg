SPECIFICATION FairSpec
CONSTANTS
    tr_bin_list <- Programs
    test_timeout = 1
    Pid = {p1, p2}
    WaitStatus <- Endings
    PidReuse = FALSE
    ForkMayFail = TRUE
    MallocMayFail = FALSE
INVARIANTS
    OneInstance
    ResultsGenuine
    ChildrenTracked
PROPERTIES
    TestAnswered
    ZombiesReaped
