\* A login after SetIdentity.
CONSTANTS
    Callers = {c1, c2}
    Offers <- MCOneOffer
    HasSecret = FALSE
    MaxSessions = 2
    Nobody = Nobody
SPECIFICATION ClientSpec
CHECK_DEADLOCK FALSE
INVARIANT SetInvalidates
