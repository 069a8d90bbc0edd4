CONSTANTS
    Batches <- ChatBatches
    Outcomes <- ChatOutcomes
    StepBudget = 3
    DuplicateThreshold = 3
    OscillationMaxPeriod = 2
    OscillationRepeats = 2
    ErrorStreak = 2
    MaxThinkHops = 1
    MaxRounds = 4
    MaxHumans = 2
    MaxUpsets = 1
    MaxInnerRuns = 3
    MaxWrites = 3
    MaxSubmits = 2
    MaxStops = 1
    MaxOuterFaults = 1
    Query = {q1, q2}
    Page = {p1, p2, p3, p4}
    BlockedPage = {p4}
    MaxSources = 2
    MaxReads = 1
    MaxRevisions = 1
    IterationLimit = {2}
    MaxResearches = 2
SPECIFICATION Spec
CHECK_DEADLOCK FALSE
INVARIANTS ConversationTypes ModelSeesAnsweredCalls RefusedStayUnrun OneKernel
INVARIANTS ShownInOrder AnswersMatch ActivityIsOfTheTurn
PROPERTIES ChatTurnEnds TurnSettles CitationsKeepTheirPage ResearchEnds
