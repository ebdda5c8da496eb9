SPECIFICATION Spec
CONSTANTS
    MaxTemps <- Temps
    Milli <- Readings
    SensorErrors <- Errnos
    Pids = {1, 3}
    IdSpan = 2
    Counts = {0, 2, 3}
    Target = target
    Other = other
    MaxPass = 2
    MaxWire = 2
    NetErrors <- Errnos
    Limits <- Thresholds
    Amounts = {0, 1, 2, 3, 5, 9}
    WordSpan = 16
    PageKb = 4
    Suffix = 0
    MaxBytes = 3
    SysErrors <- Errnos
INVARIANTS
    TypeOK
    LevelsOrdered
    NoFalseAlarm
PROPERTIES
    WarnOnce
    TargetSpoke
    SilenceNoticed
CHECK_DEADLOCK FALSE
