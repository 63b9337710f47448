SPECIFICATION BleSpec
CONSTANTS
    U32 = 9
    Handle = {h1}
    kInvalidHandle = kInvalidHandle
    BLE_INACTIVITY_TIMEOUT_MS = 2
INVARIANT
    ChallengeReceived
