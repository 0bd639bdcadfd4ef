CONSTANTS
    a = a
    b = b
    long = long
    Line <- Lines
    Long <- Longs
    Piece <- Pieces
SPECIFICATION FairStoreSpec
INVARIANTS
    ClosedIsKept
PROPERTIES
    CloseWritesAll
    KnownIsWritten
