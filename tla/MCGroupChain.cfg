CONSTANTS
    Block = {b1, b2, b3, b4, b5}
    NoBlock = NoBlock
    GroupSize = 2
    MaxCrashes = 2
    MaxFaults = 2
SPECIFICATION RSpec
SYMMETRY Symmetry
VIEW View
INVARIANTS
    TypeOK
    
    
    
    NothingLost
    RecoveryTypeOK
    
    
    CleanHidesNoLoss
    DamageIsFlagged
PROPERTY RecoverRepairs
CHECK_DEADLOCK FALSE
