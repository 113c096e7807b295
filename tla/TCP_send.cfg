\* One sender against two closers and key changes: the write half of a connection.
CONSTANTS
    Senders = {s1}
    Readers = {}
    Closers = {c1, c2}
    Keys = {k1, kshort}
    ShortKeys = {kshort}
    NoKey = NoKey
    Deadlines = {TRUE, FALSE}
    MaxSends = 3
    MaxFrames = 0
SPECIFICATION FairSpec
CHECK_DEADLOCK FALSE
INVARIANTS StateMatches GracefulClose EncryptedOnceKeyed FramesIntact
PROPERTIES CloseUnblocks ChannelSpec
