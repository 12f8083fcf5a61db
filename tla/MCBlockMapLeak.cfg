CONSTANTS
    File = {f1, f2}
    Block = {b1, b2, b3, b4, b5}
    Null = Null
    Direct = 1
    PerBlock = 2
    CacheOn = FALSE
SPECIFICATION Spec
SYMMETRY Symmetry
INVARIANT NothingLeaked
