SPECIFICATION FairSpec
CONSTANTS
  Streams = {s1, s2, s3}
  NoStream = NoStream
  Turn = Turn
  Lines = {l1, l2}
  ToolError = ToolError
  Marker = Marker
  MaxAutoRecoveryAttempts = 2
  MaxPendingLogs = 2
  Retained = 2
  MaxTasks = 1
  HasWatchdog = TRUE
  StopIsCalled = TRUE
INVARIANTS
    RunningIsServed
PROPERTIES
    LossIsSettled
    QueueIsShown
