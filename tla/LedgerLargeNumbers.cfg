CONSTANTS
    AccountCount = 2
    Requests = {r1, r2, r3}
    External = External
    Absent = Absent
    Nothing = Nothing
    Free = Free
    Currencies <- OneCurrency
    Movements <- LargeMovements
    BalanceCap = 8
    ExactLimit = 4
SPECIFICATION Spec
SYMMETRY Symmetry
INVARIANT BalanceMatchesLedger
CHECK_DEADLOCK FALSE
