\* Two logons, closes at any moment, a channel of one event, and the fairness of
\* the scheduler and of select.
CONSTANTS
    MaxBeats = 2
    Cap = 1
SPECIFICATION FairSpec
CHECK_DEADLOCK FALSE
INVARIANTS NoDoubleClose OnlyCurrentOpen EndsOnlyWhenTold
PROPERTIES EventsAccepted CtxStops
