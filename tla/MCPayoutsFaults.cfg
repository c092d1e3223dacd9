SPECIFICATION PayoutsSpec
CONSTANTS
    a1 = a1
    Artists = {a1}
    Reviewers = {w1}
    Payouts = {p1}
    ArtistOf <- MCArtistOf
    Runners = {r1, r2}
    Admins = {d1}
    BatchSize = 2
    MaxTries = 2
    MaxAttempts = 2
    AttemptsBound = 2
    LostAnswers = TRUE
    Crashes = TRUE
INVARIANTS
    PayoutsInv
    SendsPaidByAttempts
SYMMETRY Interchangeable
CHECK_DEADLOCK FALSE
