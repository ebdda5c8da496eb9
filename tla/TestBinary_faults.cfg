SPECIFICATION Spec
CONSTANTS
    tr_bin_list <- Programs
    test_timeout = 1
    Pid = {p1, p2}
    WaitStatus <- FewEndings
    PidReuse = TRUE
    ForkMayFail = TRUE
    MallocMayFail = TRUE
SYMMETRY PidSymmetry
INVARIANTS
    TypeOK
    KillTargetsOwnChild
CONSTRAINT ListBound
