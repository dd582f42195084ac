SPECIFICATION Spec
CONSTANTS
    Sessions = {s1}
    Calls = {c1, c2, c3, c4}
    None = None
INVARIANTS
    SessionConsistent
    NoFalseReuse
    DeletedForGood
PROPERTY SessionsEnd
CHECK_DEADLOCK FALSE
