SPECIFICATION FairSpec
CONSTANTS
    Device = TRUE
    OpenMayFail = FALSE
    WriteMayFail = TRUE
    MinTimeout = 3
    MaxTimeout = 60
    DefaultTimeout = 60
    NoWayOut = FALSE
    IT87 = TRUE
    dev_timeout = 2
    refresh_use_settimeout = "auto"
    force = TRUE
    no_act = FALSE
    tint = 1
    repair_timeout = 0
    count_max = 0
    LowLoad = FALSE
    PidFileMayFail = TRUE
    UnlinkMayFail = TRUE
    AllocMayFail = TRUE
    StartTime = {0, 1}
    Checks = 3
    CheckTime = {0, 1}
    CheckMayFail = TRUE
PROPERTY SigtermStops
CHECK_DEADLOCK FALSE
