SPECIFICATION CTFairSpec
CONSTANTS
    U32 = 7
    STATE_TIMEOUT_MS = 1
    FAIL_PENALTY_MS = 1
    MAX_CONSECUTIVE_FAILS = 2
    LOCKOUT_MS = 2
    UNLOCK_PULSE_MS = 2
INVARIANTS
    ActuatorsFollowState
    LockoutIffExhausted
    LoopTimeoutPrompt
    LoopLockoutPrompt
    PulseBounded
PROPERTIES
    TimeoutNotEarly
    LockoutLasts
    PulseNotCut
    AuthenticationEnds
    ImplementsFlowOverWraps
