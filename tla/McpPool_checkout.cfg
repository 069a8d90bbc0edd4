CONSTANTS
    User = {u1}
    Server = {s1}
    Client = {c1, c2}
    Worker = {w1, w2}
    Sig = {a, b}
    NoClient = NoClient
    NoWorker = NoWorker
    PerKey = 2
    PerUser = 2
    MaxTotal = 2
    MaxEdits = 1
    MaxCancels = 1
    Lister = {}
    Refresher = {}
    MayShutdown = FALSE
SPECIFICATION Spec
CHECK_DEADLOCK FALSE
SYMMETRY Symmetry
INVARIANTS TypeOK CountersExact ExclusiveCheckout LeaseIsFresh
PROPERTIES PoolPromise
