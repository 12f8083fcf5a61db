CONSTANTS
    File = {f1, f2}
    Block = {b1, b2, b3, b4, b5}
    Null = Null
    Direct = 1
    PerBlock = 2
    CacheOn = FALSE
SPECIFICATION CheckedSpec
SYMMETRY Symmetry
VIEW View
INVARIANTS
    TypeOK
    UsedOnce
    AccountsExact
    FsckReportsOnlyLeaks
PROPERTY ImplementsFileMap
