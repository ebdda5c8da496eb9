SPECIFICATION Spec
CONSTANTS
    Message = {"fatal", "warning", "info"}
    MaxMessages = 4
    Lines <- FileLines
    MaxLines = 4
    MaxTests = 1
INVARIANTS
    TypeOK
    FileMeans
    LoadLimitsStand
    FailureIsLoud
PROPERTY SuspensionAccounted
CHECK_DEADLOCK FALSE
