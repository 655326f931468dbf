CONSTANTS
    Events = {1}
    Subs = {s1}
    EarlySubs = {}
    Instances = {i1, i2}
    MaxAttempts = 2
    OutboxMax = 2
    BatchSize = 1
    MaxErrors = 1
    MaxCrashes = 0
    MaxStalls = 0
    MaxEvictions = 0
    MaxFaults = 1
    Matching <- EveryEvent
    None = None
SPECIFICATION FairSpec
INVARIANTS TypeOK PostsBounded
PROPERTIES TerminalUnlessMisread SettlesUnlessBlocked
CHECK_DEADLOCK FALSE
