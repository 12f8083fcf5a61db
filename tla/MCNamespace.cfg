CONSTANTS
    LastIno = 3
    LastSlot = 2
    users = users
    short = short
    long = long
    Name = {users, short, long}
    Stored <- MCStored
    UsersName = users
    LastFd = 2
    None = None
    Spelled <- MCSpelled
    MaxCalls = 4
    MaxCrashes = 2
SPECIFICATION Spec
INVARIANTS
    TypeOK
    InUseIsMarked
    KillsLeaveLittle
    LinksCoverEntries
    OpenFilesKept
    NothingLost
