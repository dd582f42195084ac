SPECIFICATION Spec
CONSTANTS
    Requests = {r1}
    Workers = {w1}
    Candidates = {c1}
    None = None
    MaxRefines = 0
    Faults = {"shutdown"}
    MaxFaults = 1
INVARIANT NoOrphan
CHECK_DEADLOCK FALSE
