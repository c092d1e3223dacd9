SPECIFICATION ListingSpec
CONSTANTS
    Bookings = {b1, b2}
    Captures <- MCCaptures
    RequestCents <- MCRequestCents
    Times = {1, 2}
    IdOf <- MCIdOf
    Filters = {"ANY", "HELD"}
    Limit = 1
INVARIANTS
    PagesComplete
    LiabilityBacksHolds
    FeeReturnedOnlyWithWhole
    PayoutBacked
    PayoutOnlyWhenSettled
    IInv
    OutcomeAnnouncedOnce
    TrailExplainsRefunds
PROPERTIES
    SettledForever
    ImplementsHeldFunds
CHECK_DEADLOCK FALSE
