CONSTANTS
    Proc = {p1, p2}
    Task = {t1}
    Prompt = {a}
    Target = {g1}
    Cron = {1}
    NoResult = NoResult
    Nobody = Nobody
    ClaimLimit = 1
    MaxConcurrent = 1
    LockExpires = FALSE
    UserOps = {}
    MaxTime = 1
    MaxUserOps = 0
    MaxCrashes = 0
SPECIFICATION Spec
CHECK_DEADLOCK FALSE
INVARIANTS OneWorkerPerRow
