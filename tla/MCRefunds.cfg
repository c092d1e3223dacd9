SPECIFICATION RefundsSpec
CONSTANTS
    Bookings = {b1}
    Captures <- MCCaptures
    RequestCents <- MCRequestCents
    Calls = {c1, c2}
    MaxAttempts = 2
    LostAnswers = TRUE
    Crashes = TRUE
INVARIANTS
    RefundsInv
    BookedAsSent
    AnnouncedTruth
    BookedWithinHold
    RefusalHasCause
PROPERTIES
    ImplementsRefundedFunds
SYMMETRY CallSymmetry
CHECK_DEADLOCK FALSE
