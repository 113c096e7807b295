\* The connect loop against two Disconnects, with and without reconnection.
CONSTANTS
    Servers <- MCServers
    Load <- MCLoad
    Unsupported = {2}
    Disconnectors = {d1, d2}
    Reconnect = {TRUE, FALSE}
    EventCap = 1
    None = None
SPECIFICATION FairSpec
CHECK_DEADLOCK FALSE
INVARIANTS RunsOnDialled AtMostOneMore
PROPERTIES ClosedRunReturns AttemptSettles
