CONSTANTS
    Block = {b1, b2, b3, b4}
    Value = {v1, v2}
    Capacities = {1, 2}
SPECIFICATION Spec
INVARIANTS
    TypeOK
    LruConsistent
    CleanMatchesDisk
    SyncedIsDurable
PROPERTY ImplementsBlockStore
