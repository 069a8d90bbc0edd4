CONSTANTS
    Proc = {p1, p2}
    Task = {t1}
    Prompt = {a, b}
    Target = {g1}
    Cron = {2}
    NoResult = NoResult
    Nobody = Nobody
    ClaimLimit = 1
    MaxConcurrent = 1
    LockExpires = TRUE
    UserOps = {"edit", "patch", "cancel", "delete"}
    MaxTime = 2
    MaxUserOps = 2
    MaxCrashes = 1
SPECIFICATION Spec
CHECK_DEADLOCK FALSE
SYMMETRY Symmetry
INVARIANTS TypeOK ClaimHandedOnce RunningHasOwner
PROPERTIES ResultKeptUntilDelivered CancelHolds
