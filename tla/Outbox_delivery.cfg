SPECIFICATION Spec
CONSTANTS
    u1 = u1
    Events = {e1}
    Users = {u1, u2}
    Target <- OneTarget
    Devices = {v1, v2}
    Dispatchers = {d1, d2}
    None = None
    Lease = 2
    BaseBackoff = 1
    MaxAttempts = 3
    Batch = 2
    SlowSweeps = FALSE
    MaxFaults = 1
INVARIANTS
    
    SentMeansSettled
PROPERTIES
    
    NeverLost
