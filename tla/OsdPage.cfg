CONSTANTS
    page1 = page1
    Pages = {page1}
    Sizes = {"hd", "sd"}
    MaxUpdates = 1
SPECIFICATION FairSpec
INVARIANTS
    UpdateAloneIsSafe
    CreateExcludesDraw
    ChainUnbroken
PROPERTIES
    FailedSendClosesPage
    ResizeReachesPage
