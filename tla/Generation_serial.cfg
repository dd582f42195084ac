SPECIFICATION Spec
CONSTANTS
    Requests = {r1}
    Workers = {w1}
    Candidates = {c1}
    None = None
    MaxRefines = 1
    Faults = {"llm", "bus", "crash"}
    MaxFaults = 3
INVARIANTS
    
    
    NoOrphan
PROPERTY JobsSettle
CHECK_DEADLOCK FALSE
