SPECIFICATION IntentsSpec
CONSTANTS
    Bookings = {b1}
    Captures <- MCCaptures
    TotalAt <- MCTotalAt
    FeeAt <- MCFeeAt
    RequestCents = {}
    Locks = {l1}
    Itns = {n1}
    PfPayments = {pf1, pf2}
INVARIANTS
    IntentsInv
    HoldBackedByPayment
SYMMETRY Interchangeable
CHECK_DEADLOCK FALSE
