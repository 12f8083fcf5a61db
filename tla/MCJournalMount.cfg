CONSTANTS
    Target = {t1, t2}
    Value = {v1, v2}
    MaxEntries = 2
    MaxFaults = 0
    RecoverFirst = FALSE
SPECIFICATION Spec
PROPERTY CommittedIsApplied
