CONSTANTS
    Events = {1, 2}
    Subs = {s1, s2}
    EarlySubs = {s1, s2}
    Instances = {i1}
    MaxAttempts = 2
    OutboxMax = 2
    BatchSize = 1
    MaxErrors = 1
    MaxCrashes = 1
    MaxStalls = 1
    MaxEvictions = 1
    MaxFaults = 1
    Matching <- FirstEvent
    None = None
SPECIFICATION FairSpec
INVARIANTS PostsBounded PublishedIsDelivered FailedIsOver
PROPERTY SettlesUnlessBlocked
CHECK_DEADLOCK FALSE
