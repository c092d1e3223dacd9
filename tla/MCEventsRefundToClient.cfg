SPECIFICATION ConsumersSpec
CONSTANTS
    b1 = b1
    Bookings = {b1}
    Captures <- MCCaptures
    RequestCents <- MCRequestCents
    Calls = {m1, m2}
    MaxAttempts = 1
    LostAnswers = FALSE
    Crashes = FALSE
    Contents <- MCContents
INVARIANTS
    RefundToClientBooked
SYMMETRY MessageSymmetry
CHECK_DEADLOCK FALSE
