SPECIFICATION FairSpec
CONSTANTS
    Device = TRUE
    OpenMayFail = TRUE
    WriteMayFail = FALSE
    MinTimeout = 3
    MaxTimeout = 60
    DefaultTimeout = 60
    NoWayOut = FALSE
    IT87 = TRUE
    dev_timeout = 6
    refresh_use_settimeout = "auto"
    Proc = {p1, p2, p3}
    Sess = {p3}
    Self = self
    ErrorCodes <- Reasons
    Late = 4
    sigterm_delay = 3
    temp_poweroff = TRUE
    MailTime = {1}
    UmountTime = {1}
    Nfs = {"/usr/spool"}
    RpcTime = {0, 1}
    ReadMayFail = TRUE
    RebootMayFail = TRUE
    Mounts <- MountOrder
    Under <- MountedOn
    Loops = {"/usr/spool"}
    Ifaces = {"lo", "eth0"}
    lo = "lo"
    MountFaults = TRUE
INVARIANTS
    TypeOK
    NobodyLeft
    GraceGiven
    CleanBeforeReset
    OnlyRefusedLeft
PROPERTIES
    GoesDown
    NobodyStaysStopped
CHECK_DEADLOCK FALSE
