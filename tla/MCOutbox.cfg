SPECIFICATION FairOutboxSpec
CONSTANTS
    Rows = {1, 2, 3}
    SubjectOf <- MCSubjectOf
    CreatedAt <- MCCreatedAt
    Routed = {1, 3}
    Instances = {i1, i2}
    BatchSize = 2
    MaxAttempts = 1
    Faults = TRUE
    DeathsBound = 1
INVARIANTS
    OutboxInv
    FirstSentInOrder
PROPERTIES
    ImplementsOrderedDelivery
    RowsLeave
CHECK_DEADLOCK FALSE
