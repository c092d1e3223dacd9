SPECIFICATION FairIntentsSpec
CONSTANTS
    Bookings = {b1}
    Captures <- MCCaptures
    TotalAt <- MCTotalAt
    FeeAt <- MCFeeAt
    RequestCents = {}
    Locks = {l1}
    Itns = {n1, n2}
    PfPayments = {pf1}
INVARIANTS
    ItnRecordedOnce
PROPERTIES
    CollectedIsHeld
    ImplementsCollectedFunds
CHECK_DEADLOCK FALSE
