SPECIFICATION Spec
CONSTANTS
    Streams = {s1, s2, s3, s4}
    NoStream = NoStream
    Turn = Turn
    Lines = {l1, l2}
    ToolError = ToolError
    Marker = Marker
    MaxAutoRecoveryAttempts = 2
    MaxPendingLogs = 2
    Retained = 3
    MaxTasks = 3
    HasWatchdog = TRUE
    StopIsCalled = TRUE
SYMMETRY LineSymmetry
INVARIANTS
    PausedIsQuiet
    RecoveryIsUnderWay
PROPERTIES
    CapturedInOrder
