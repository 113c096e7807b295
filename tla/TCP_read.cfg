\* One reader, as Protocol.Run is, against a closer, key changes and a faulty server.
CONSTANTS
    Senders = {}
    Readers = {r1}
    Closers = {c1}
    Keys = {k1}
    ShortKeys = {}
    NoKey = NoKey
    Deadlines = {TRUE, FALSE}
    MaxSends = 0
    MaxFrames = 2
SPECIFICATION FairSpec
CHECK_DEADLOCK FALSE
INVARIANTS TypeOK GracefulClose ReadInSync
PROPERTIES CloseUnblocks FrameDelivered ChannelSpec
