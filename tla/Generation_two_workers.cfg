SPECIFICATION Spec
CONSTANTS
    Requests = {r1}
    Workers = {w1, w2}
    Candidates = {c1}
    None = None
    MaxRefines = 1
    Faults = {"store", "llm", "bus", "redeliver", "crash", "shutdown"}
    MaxFaults = 1
INVARIANT
    GenerationConsistent
SYMMETRY Symmetry
CHECK_DEADLOCK FALSE
