CONSTANTS
    Events = {1}
    Subs = {s1}
    EarlySubs = {s1}
    Instances = {i1, i2}
    MaxAttempts = 2
    OutboxMax = 2
    BatchSize = 1
    MaxErrors = 0
    MaxCrashes = 1
    MaxStalls = 0
    MaxEvictions = 0
    MaxFaults = 1
    Matching <- EveryEvent
    None = None
SPECIFICATION Spec
PROPERTY TerminalIsFinal
CHECK_DEADLOCK FALSE
