CONSTANTS
    Block = {b1, b2, b3}
    NoBlock = NoBlock
    GroupSize = 2
    MaxCrashes = 1
    MaxFaults = 0
SPECIFICATION RSpec
SYMMETRY Symmetry
PROPERTY SecondCheckIsClean
CHECK_DEADLOCK FALSE
