SPECIFICATION SessionSpec
CONSTANTS
    Tab = {t1, t2, t3}
    Files = {t3}
    Streams = {s1, s2}
    Kinds = {"logs", "imports", "terminal"}
    MaxImports = 1
    MinInterval = 2
    PollPeriod = 6
    Off = Off
    NoStream = NoStream
INVARIANTS
    SessionLogsInv
PROPERTIES
    RequestsAreServed
CHECK_DEADLOCK FALSE
