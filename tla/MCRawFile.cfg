CONSTANTS
    Fd = {d1}
    Byte = {0, 1}
    Zero = 0
    Hole = Hole
    BlockSize = 2
    MaxBlocks = 2
    MaxSize = 5
    MaxLength = 2
SPECIFICATION Spec
INVARIANTS
    TypeOK
    NothingPastEnd
PROPERTY ImplementsByteFile
