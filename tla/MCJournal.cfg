CONSTANTS
    Target = {t1, t2, t3}
    Value = {v1, v2}
    MaxEntries = 2
    MaxFaults = 1
    RecoverFirst = TRUE
SPECIFICATION FairSpec
INVARIANTS
    TypeOK
    ReplayIsFaithful
PROPERTIES
    TransactionsAreAtomic
    CommittedReachesPlace
