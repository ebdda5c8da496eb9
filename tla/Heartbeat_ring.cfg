SPECIFICATION Spec
CONSTANTS
    hbstamps = 3
    OldStamps = 3
    Stamp = {t1, t2}
    Restart = restart
    Torn = torn
    Blank = blank
    OpenMayFail = TRUE
    WriteMayFail = TRUE
INVARIANT TypeOK
PROPERTY ImplementsRollingLog
