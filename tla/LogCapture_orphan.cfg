SPECIFICATION Spec
CONSTANTS
    Streams = {s1, s2, s3}
    NoStream = NoStream
    Turn = Turn
    Lines = {l1}
    ToolError = ToolError
    Marker = Marker
    MaxAutoRecoveryAttempts = 2
    MaxPendingLogs = 1
    Retained = 0
    MaxTasks = 2
    HasWatchdog = TRUE
    StopIsCalled = FALSE
SYMMETRY StreamSymmetry
INVARIANT OwnsItsStream
