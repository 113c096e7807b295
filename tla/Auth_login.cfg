\* Two goroutines in the authentication methods of one client.
CONSTANTS
    Callers = {c1, c2}
    Offers <- MCOffers
    HasSecret = FALSE
    MaxSessions = 2
    Nobody = Nobody
SPECIFICATION ClientSpec
CHECK_DEADLOCK FALSE
INVARIANTS ProviderUncontended NoLostUpdate CachesAgree
