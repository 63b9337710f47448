SPECIFICATION FirmwareSpec
CONSTANTS
    MaxFails = 2
    Wraps = FALSE
    EVENT_QUEUE_LEN = 16
    Sessions = 1
    NFC_MAX_UID_LEN = 2
    NFC_WHITELIST <- MCWhitelist
    NFC_WHITELIST_UID_LEN <- MCUidLen
    Tags <- MCTags
    NULL = NULL
    Bench = TRUE
PROPERTY
    GrantAsDocumented
CHECK_DEADLOCK FALSE
