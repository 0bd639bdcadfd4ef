CONSTANTS
    c1 = c1
    c2 = c2
    u1 = u1
    u2 = u2
    u3 = u3
    u4 = u4
    NoChannel = NoChannel
    NoEntry = NoEntry
    Channel <- MCChannel
    Url <- MCUrl
    App <- MCApp
    Ait <- MCAit
SPECIFICATION Spec
INVARIANTS
    ListSorted
    ListOfChannel
    BrowserKnowsList
