SPECIFICATION BackendSpec
CONSTANTS
    s1 = s1
    s2 = s2
    Id = {s1, s2}
    Mixes <- MCMixes
    Capture = {c1, c2}
    MaxRecords = 2
    MaxAsks = 4
    Finger = {left, right}
    One = one
    Request = {paste}
    MaxFrames = 3
    MaxBreaks = 2
    Forward = {w1, w2, w3}
    Port = {p1, p2}
    Client = {k1, k2}
    NoPort = NoPort
    NoForward = NoForward
    Moving <- MCMoving
    MaxChanges = 3
    Own = {app, extension, widget}
    Foreign = {other}
    Unnamed = {widget}
    documents = documents
    caches = caches
    tmp = tmp
    Entry = {documents, caches, tmp}
    Installed = {caches}
    Directories <- MCDirectories
    root = root
    retired = retired
    r1 = r1
    r2 = r2
    f1 = f1
    Node = {root, retired, r1, r2, f1}
    Root = root
    Folder = {root, retired}
    Parent <- MCParent
    report = report
    other_name = other_name
    FileName <- MCFileName
    ReportName = {report}
    MaxFaults = 3
INVARIANTS StreamIsStoppable NoFingerIsLeft NoGhostFinger ForwardIsStoppable
           AnswersAreTrue ClearedStaysClear WalkIsWhole
PROPERTIES StopEndsStream SessionSettles StopClosesPipes
CHECK_DEADLOCK FALSE
