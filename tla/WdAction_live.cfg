SPECIFICATION FairSpec
CONSTANTS
    Act <- Names
    NULL = NULL
    loop <- Pass3
    V1 <- Tests
    RepairBinary = FALSE
    conf_retry_timeout = 2
    repair_max = 2
    repair_timeout = 1
    tint = 1
    softboot = FALSE
    no_act = FALSE
    CheckResult <- AllCodes
    AliveResult = {0, 5}
    CheckTime = {0, 1}
    RepairStatus <- ExitsOnly
    ForkMayFail = TRUE
    ExecMayFail = TRUE
    WaitMayFail = TRUE
INVARIANTS
    TypeOK
    Patience
    RepairBudget
    RepairSpacing
PROPERTY PersistentFaultGoesDown
