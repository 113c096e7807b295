\* Two goroutines in Send at once, as a heartbeat and a logon are.
CONSTANTS
    Senders = {s1, s2}
    Readers = {}
    Closers = {}
    Keys = {k1}
    ShortKeys = {}
    NoKey = NoKey
    Deadlines = {FALSE}
    MaxSends = 1
    MaxFrames = 0
SPECIFICATION Spec
CHECK_DEADLOCK FALSE
INVARIANT FramesIntact
