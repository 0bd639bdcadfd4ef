CONSTANTS
    player1 = player1
    player2 = player2
    Players <- OnePlayer
SPECIFICATION Spec
INVARIANT
    StoppedStaysStopped
