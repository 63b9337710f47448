SPECIFICATION RateSpec
CONSTANTS
    U32 = 22
    STATE_TIMEOUT_MS = 2
    FAIL_PENALTY_MS = 2
    MAX_CONSECUTIVE_FAILS = 3
    LOCKOUT_MS = 4
INVARIANTS
    PenaltyServed
    SessionProven
PROPERTIES
    RateLimit
    ImplementsFlow
CHECK_DEADLOCK FALSE
