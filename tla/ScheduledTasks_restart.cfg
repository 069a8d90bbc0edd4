CONSTANTS
    Proc = {p1}
    Task = {t1, t2}
    Prompt = {a}
    Target = {g1}
    Cron = {1}
    NoResult = NoResult
    Nobody = Nobody
    ClaimLimit = 1
    MaxConcurrent = 1
    LockExpires = FALSE
    UserOps = {"cancel"}
    MaxTime = 2
    MaxUserOps = 2
    MaxCrashes = 2
    Account = {u1}
    LimitedCall = {c1, c2}
    Payer <- OneUserPays
    AllUsers = AllUsers
    Rate <- TwoAUserOneForAll
    Period = 2
    NoCall = NoCall
    MaxLimitEdits = 1
    MaxDeaths = 1
SPECIFICATION TasksOrLimitsSpec
CHECK_DEADLOCK FALSE
INVARIANTS PersistedResultNotRecomputed LimiterTypeOK RateWithinLimit
PROPERTIES RunningEnds DueIsClaimed NobodyWaitsInVain
