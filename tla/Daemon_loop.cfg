SPECIFICATION Spec
CONSTANTS
    Device = TRUE
    OpenMayFail = TRUE
    WriteMayFail = FALSE
    MinTimeout = 3
    MaxTimeout = 60
    DefaultTimeout = 60
    NoWayOut = FALSE
    IT87 = TRUE
    dev_timeout = 6
    refresh_use_settimeout = "auto"
    force = FALSE
    no_act = FALSE
    tint = 4
    repair_timeout = 2
    count_max = 3
    LowLoad = FALSE
    PidFileMayFail = TRUE
    UnlinkMayFail = TRUE
    AllocMayFail = TRUE
    StartTime = {0, 5}
    Checks = 3
    CheckTime = {0, 1, 4}
    CheckMayFail = TRUE
INVARIANTS
    TypeOK
    LoopIsTimely
    CleanExit
CHECK_DEADLOCK FALSE
