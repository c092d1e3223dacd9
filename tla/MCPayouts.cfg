SPECIFICATION FairPayoutsSpec
CONSTANTS
    a1 = a1
    Artists = {a1}
    Reviewers = {w1}
    Payouts = {p1, p2}
    ArtistOf <- MCArtistOf
    Runners = {r1, r2}
    Admins = {}
    BatchSize = 2
    MaxTries = 2
    MaxAttempts = 2
    AttemptsBound = 2
    LostAnswers = FALSE
    Crashes = FALSE
INVARIANTS
    PaidOnce
    PaidIsSucceeded
PROPERTIES
    QueuedIsTried
CHECK_DEADLOCK FALSE
