\* Two goroutines and two sessions, which allow a code, a confirmation, both or neither.
CONSTANTS
    Callers = {c1, c2}
    Offers <- MCOffers
    HasSecret = TRUE
    MaxSessions = 2
    Nobody = Nobody
SPECIFICATION FairSpec
CHECK_DEADLOCK FALSE
INVARIANTS TypeOK NoNeedlessLogin IdentityEarned
PROPERTIES FreshIdentityKept LoginEnds
