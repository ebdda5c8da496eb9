SPECIFICATION Spec
CONSTANTS
    Act <- Names
    NULL = NULL
    loop <- Pass2
    V1 <- Tests
    RepairBinary = TRUE
    conf_retry_timeout = 2
    repair_max = 2
    repair_timeout = 1
    tint = 1
    softboot = FALSE
    no_act = FALSE
    CheckResult <- AllCodes
    AliveResult = {0}
    CheckTime = {0}
    RepairStatus <- AnyEnd
    ForkMayFail = FALSE
    ExecMayFail = FALSE
    WaitMayFail = FALSE
INVARIANT FailedRepairStands
