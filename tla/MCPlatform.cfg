SPECIFICATION PlatformSpec
CONSTANTS
    Services = {"identity", "poll", "surprise", "catalog", "notification", "gateway", "logServer"}
    Requests = {r1, r2}
    Pushers = {p1, p2}
    Life = 3
    Margin = 1
    Timeout = 1
    SignIns = {a1, a2}
    Identities = {i1, i2}
    Emails = {e1}
    Passwords = {w1, w2}
    NoEmail = NoEmail
    Nobody = Nobody
    MaxAttempts = 1
INVARIANTS
    
    PushSafe
    
PROPERTIES
    StopsOnSignal
    CallsReturn
CHECK_DEADLOCK FALSE
