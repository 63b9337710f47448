SPECIFICATION VehicleSpec
CONSTANTS
    Phone = {p1, p2}
    NoPhone = NoPhone
    Nonce = {n1, n2}
    NoNonce = NoNonce
    Uid = {known, rogue}
    NFC_WHITELIST = {known}
    Connections = 2
    ttl_s = 1
PROPERTIES
    BoundToConnection
    TagSinceDisconnect
    SpoofNeverOpens
    LedgerSpec
