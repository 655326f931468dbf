CONSTANTS
    Accounts = {a1}
    Transactions = {t1}
    Instances = {i1, i2}
    MaxRuns = 4
    MaxChanges = 2
    MaxErrors = 1
    MaxCrashes = 1
SPECIFICATION FairSpec
INVARIANTS TypeOK TotalsAddUp RunsAreSeparate IssuesAreTrue
 
CHECK_DEADLOCK FALSE
