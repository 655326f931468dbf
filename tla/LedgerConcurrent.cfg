CONSTANTS
    AccountCount = 2
    Requests = {r1, r2, r3}
    External = External
    Absent = Absent
    Nothing = Nothing
    Free = Free
    Currencies <- OneCurrency
    Movements <- CompetingMovements
    BalanceCap = 8
    ExactLimit = 12
SPECIFICATION FairSpec
INVARIANTS TypeOK NoOverdraft DecisionsStand BalanceMatchesLedger AllOrNothing PostedIsTheSum NoCircularWait SomeoneGoesOn
PROPERTIES ImplementsAtomic EveryRequestAnswered
CHECK_DEADLOCK FALSE
