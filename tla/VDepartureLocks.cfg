SPECIFICATION ACSpec
CONSTANTS
    U32 = 9
    STATE_TIMEOUT_MS = 2
    FAIL_PENALTY_MS = 2
    MAX_CONSECUTIVE_FAILS = 3
    LOCKOUT_MS = 3
PROPERTY
    DepartureLocks
