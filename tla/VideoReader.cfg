CONSTANTS
    Reader = {1, 2}
    PacketSize = 2
    MaxRecv = 3
    MayFail = TRUE
    MaxCommands = 3
SPECIFICATION FairSpec
INVARIANTS
    OneReader
    PlaysWhole
PROPERTY
    VideoFlows
CHECK_DEADLOCK FALSE
