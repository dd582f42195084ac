SPECIFICATION Spec
CONSTANTS
    Polls = {p1}
    IPs = {i1}
    Calls = {c1, c2, c3}
    PerTokenBudget = 2
    PerIPBudget = 1
INVARIANTS
    PollConsistent
    BudgetHolds
PROPERTIES
    WindowsEnd
    ImplementsPromise
CHECK_DEADLOCK FALSE
