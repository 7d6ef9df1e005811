SPECIFICATION Spec
CONSTANTS
  Platforms = {"android", "ios"}
  MaxAutoRestarts = 2
  MaxMirrors = 3
  MaxTasks = 3
  None = None
INVARIANTS
    MirrorInv
PROPERTIES
    StopIsHeeded
    DisposeEndsMirrors
CHECK_DEADLOCK FALSE
