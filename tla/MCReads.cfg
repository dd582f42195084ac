SPECIFICATION ReadsSpec
CONSTANTS
    Requests = {r1, r2}
    Clients = {c1}
    Budgets <- MCBudgets
    Window = 1
    MaxRankings = 2
    Calls = {s1, s2, s3}
    Keys = {k1, k2}
    NoId = NoId
    Faults = {"cache", "insert", "read", "publish", "crash", "expiry"}
    Readers = {d1, d2}
    Editors = {w1}
    Texts = {x1}
    ReferenceTTL = 1
    Deadline = 1
    MaxEdits = 1
    NoText = NoText
    LogServices = {v1, v2}
    All = All
    Limit = 1
    MaxRows = 2
    MaxFetches = 2
    MaxLoads = 2
INVARIANTS
    
    ReadyAnswerHasIdeas
    SubmissionConsistent
    LateSubmitGetsOriginal
    CatalogSafe
    LogStoreSafe
CHECK_DEADLOCK FALSE
