CONSTANTS
    Keys = {k1}
    Payloads = {p1}
    Calls = {c1, c2, c3}
    Overlap = TRUE
    MaxFaults = 0
    NoRow = NoRow
    NoBody = NoBody
    Errors = {e1, e2}
SPECIFICATION Spec
SYMMETRY Symmetry
INVARIANT AtMostOnce
CHECK_DEADLOCK FALSE
