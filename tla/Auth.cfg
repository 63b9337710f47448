SPECIFICATION AESpecFirstEpoch
CONSTANTS
    U32 = 6
    Nonce = {n1, n2, n3}
    Handle = {h1, h2}
    NONCE_POOL_SIZE = 2
    NONCE_TTL_MS = 2
    NoNonce = NoNonce
PROPERTIES
    LedgerSpec
    AcceptedOnce
    AcceptedFresh
CHECK_DEADLOCK FALSE
