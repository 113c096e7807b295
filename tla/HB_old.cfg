\* A second logon while the first heartbeat is sending.
CONSTANTS
    MaxBeats = 2
    Cap = 1
SPECIFICATION ReadingPeerSpec
CHECK_DEADLOCK FALSE
PROPERTY OldHeartbeatStops
