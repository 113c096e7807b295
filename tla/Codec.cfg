SPECIFICATION Spec
CHECK_DEADLOCK FALSE
CONSTANTS
    accountIDBits = 3
    accountInstanceBits = 2
    accountTypeBits = 4
    accountUniverseBits = 4
    spareBits = 1
    Steam64Pattern <- MCSteam64Pattern
    BlockSize = 2
    Byte = {0, 1, 2, 3}
    SessionKeys = {k1, k2}
    Randoms = {r1, r2}
    MaxBody = 3
    MaxSize = 6
    MaxData = 4
    MaxPlain = 2
    DigestBytes = {0, 127, 128, 255}
INVARIANTS SteamIDsKept PacketsRead PacketsAuthentic CodesOfDigests
