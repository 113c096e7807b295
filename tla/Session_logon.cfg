\* A logon that answers the EventConnected of an earlier connection.
CONSTANTS
    MaxConns = 2
    MaxNotices = 1
    Cap = 1
    EventCap = 1
SPECIFICATION Spec
CHECK_DEADLOCK FALSE
INVARIANT NoPlainLogon
