SPECIFICATION UwbSpec
CONSTANTS
    U32 = 5
    UWB_NEAR_CM = 1
    UWB_MEDIUM_CM = 3
    RATE = 2
    TOF_RANGE = 4
    MaxDistance = 5
INVARIANTS
    WalkingKeyTrusted
    ReachedOnFoot
    SuspicionLatched
    SuspicionHeard
