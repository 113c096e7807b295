\* Two connections; channels of events of capacity one, so that handlers wait
\* and forwarders drop.
CONSTANTS
    MaxConns = 2
    MaxNotices = 1
    Cap = 1
    EventCap = 1
SPECIFICATION FairSpec
CHECK_DEADLOCK FALSE
INVARIANTS ReadsInStep LogonEncrypted LoggedOnTrue
PROPERTIES HandledInOrder HandlerReturns LogonCompletes
