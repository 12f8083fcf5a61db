CONSTANTS
    Target = {t1, t2}
    Value = {v1, v2}
    MaxEntries = 2
    MaxFaults = 1
    RecoverFirst = TRUE
SPECIFICATION Spec
PROPERTY CommittedIsApplied
