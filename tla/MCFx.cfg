SPECIFICATION FxSpec
CONSTANTS
    SUPPORTED <- MCSupported
    Base = "ZAR"
    Scale = 10
    Publications <- MCPublications
    MaxPublished = 2
    PinnedPairs <- MCPinnedPairs
    OverrideRates = {15}
    Refreshers = {x, y}
    Locks = {l1}
    Amounts <- MCAmounts
INVARIANTS
    QuotesAdvance
    FeeAtRateOfTotal
    NearestCents
SYMMETRY RefresherSymmetry
CHECK_DEADLOCK FALSE
