SPECIFICATION Spec
CONSTANTS
    Device = TRUE
    OpenMayFail = TRUE
    WriteMayFail = FALSE
    MinTimeout = 5
    MaxTimeout = 60
    DefaultTimeout = 60
    NoWayOut = FALSE
    IT87 = FALSE
    dev_timeout = 3
    refresh_use_settimeout = "yes"
    force = FALSE
    no_act = FALSE
    tint = 1
    repair_timeout = 2
    count_max = 3
    LowLoad = FALSE
    PidFileMayFail = TRUE
    UnlinkMayFail = FALSE
    AllocMayFail = FALSE
    StartTime = {0}
    Checks = 3
    CheckTime = {0}
    CheckMayFail = FALSE
INVARIANT HealthyStaysUp
CHECK_DEADLOCK FALSE
