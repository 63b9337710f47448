SPECIFICATION FirmwareFairSpec
CONSTANTS
    MaxFails = 2
    Wraps = TRUE
    EVENT_QUEUE_LEN = 2
    Sessions = 2
    NFC_MAX_UID_LEN = 2
    NFC_WHITELIST <- MCWhitelist
    NFC_WHITELIST_UID_LEN <- MCUidLen
    Tags <- MCTags
    NULL = NULL
    Bench = FALSE
INVARIANTS
    LinkHeard
    TappedOnce
    OpenIsOpen
    FarHeard
PROPERTIES
    AnswerOfSession
    DoorShuts
