SPECIFICATION ReconciliationSpec
CONSTANTS
    Bookings = {b1}
    Captures <- MCCaptures
    RequestCents <- MCRequestCents
    Calls = {c1}
    MaxAttempts = 2
    LostAnswers = TRUE
    Crashes = TRUE
    Payments = {p1, p2}
    NoPayment = NoPayment
    AlertThreshold = 1
    FindingsCap = 2
INVARIANTS
    SoundBooksPass
    QuietRunMeansBooked
PROPERTIES
    DriftIsMovement
SYMMETRY PaymentSymmetry
CHECK_DEADLOCK FALSE
