SPECIFICATION ClaudeSpec
CONSTANTS
    Callers = {c1, c2}
    MaxFailures = 2
    OpenDuration = 2
    MaxAttempts = 2
    MaxDepth = 3
INVARIANTS
    BreakerConsistent
    AnswerIsFromLastReply
    PaidCallsBounded
PROPERTIES
    
    BreakerLive
