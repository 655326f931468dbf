CONSTANTS
    Keys = {k1}
    Payloads = {p1, p2}
    Calls = {c1, c2, c3}
    Overlap = TRUE
    MaxFaults = 2
    NoRow = NoRow
    NoBody = NoBody
    Errors = {e1, e2}
SPECIFICATION FairSpec
INVARIANTS TypeOK DuplicateNeedsTakeover OnePayloadPerKey SuccessMeansMoved
CHECK_DEADLOCK FALSE
PROPERTIES ConflictIsTrue ResultsAreKept KeySettles
