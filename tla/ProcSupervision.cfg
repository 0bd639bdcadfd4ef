CONSTANTS
    main = main
    svdrp = svdrp
    receiver = receiver
    Thread <- TwoThreads
    Commands <- TwoCommands
    Main = main
    Receiver = receiver
    p1 = p1
    p2 = p2
    Pid = {p1, p2}
    StartOptions = {TRUE, FALSE}
SPECIFICATION HFairSpec
INVARIANTS
    OrphanNeedsOverlap
PROPERTIES
    ImplementsProtocol
    CallsReturn
    RecordedIsCollected
    DeadIsReplaced
