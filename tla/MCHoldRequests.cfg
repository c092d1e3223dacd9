SPECIFICATION RequestsSpec
CONSTANTS
    Bookings = {b1}
    Captures <- MCCaptures
    RequestCents <- MCRequestCents
    Requests = {r1, r2, r3}
    Asks <- MCAsks
    NoKey = NoKey
    Header = header
INVARIANTS
    RepliesStand
PROPERTIES
    AnsweredIsRemembered
SYMMETRY RequestSymmetry
CHECK_DEADLOCK FALSE
