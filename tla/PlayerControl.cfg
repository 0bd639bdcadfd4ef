CONSTANTS
    player1 = player1
    player2 = player2
    Players <- TwoPlayers
SPECIFICATION FairSpec
INVARIANTS
    ControlOwnsPlayer
    GeometryAgrees
    DeletedOnce
PROPERTIES
    PlayIsShown
