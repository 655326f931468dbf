CONSTANTS
    Keys = {1, 2}
    Calls = {c1, c2, c3}
    Overlap = FALSE
    MaxFaults = 1
    Errors = {e1}
    NoRow = NoRow
    NoBody = NoBody
    AccountCount = 1
    External = External
    Currencies <- OneCurrency
    BalanceCap = 8
    ExactLimit = 12
    Absent = Absent
    Nothing = Nothing
    Free = Free
    Payloads <- AllPayloads
    Accepts <- TwoEndpoints
SPECIFICATION Spec
PROPERTY KeysAreRequests
CHECK_DEADLOCK FALSE
