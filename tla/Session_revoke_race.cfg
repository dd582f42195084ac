SPECIFICATION Spec
CONSTANTS
    Sessions = {s1}
    Calls = {c1, c2}
    None = None
INVARIANT RevokeIsFinal
CHECK_DEADLOCK FALSE
