CONSTANTS
    User = {u1}
    Server = {s1}
    Client = {c1, c2}
    Worker = {w1, w2}
    Sig = {a}
    NoClient = NoClient
    NoWorker = NoWorker
    PerKey = 1
    PerUser = 1
    MaxTotal = 1
    MaxEdits = 0
    MaxCancels = 0
    Lister = {c2}
    Refresher = {c1}
    MayShutdown = TRUE
SPECIFICATION FairSpec
CHECK_DEADLOCK FALSE
PROPERTIES OperationsAnswered DroppedSessionsClose ShutdownClosesAll
