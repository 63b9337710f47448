SPECIFICATION HmacSpec
CONSTANTS
    CHAR_BIT = 2
    kBlock = 4
    kLength = 2
    kSha256Len = 2
    Mark <- MCMark
    Ipad <- MCIpad
    Opad <- MCOpad
    DigestByte <- MCDigestByte
    Keys <- MCKeys
    Messages <- MCMessages
    Garbage <- MCGarbage
    NULL = NULL
INVARIANTS
    AbsorbedIsPadded
    OutIsHmac
    AcceptedIsMac
CHECK_DEADLOCK FALSE
