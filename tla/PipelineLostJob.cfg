CONSTANTS
    Events = {1}
    Subs = {s1}
    EarlySubs = {s1}
    Instances = {i1}
    MaxAttempts = 2
    OutboxMax = 2
    BatchSize = 1
    MaxErrors = 1
    MaxCrashes = 0
    MaxStalls = 0
    MaxEvictions = 0
    MaxFaults = 1
    Matching <- EveryEvent
    None = None
SPECIFICATION FairSpec
PROPERTY EventsSettle
CHECK_DEADLOCK FALSE
