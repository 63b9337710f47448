SPECIFICATION BleFairSpec
CONSTANTS
    U32 = 9
    Handle = {h1, h2}
    kInvalidHandle = kInvalidHandle
    BLE_INACTIVITY_TIMEOUT_MS = 2
INVARIANTS
    IdleLinkCut
    ChallengePushed
PROPERTIES
    ReachableAgain
