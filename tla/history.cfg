CONSTANTS
    CubeValues = {1, 2, 4, 8}
    MAX_CUBE = 8
    Jacoby = TRUE
    PlayerType <- TwoHumans
    AutoGame = TRUE
    AutoCrawford = TRUE
    AutoRoll = TRUE
    AutoMove = FALSE
    ConfirmNew = TRUE
    Display = TRUE
    CubeUse = TRUE
    nBeavers = 2
    cAutoDoubles = 1
    Lengths = {0, 2}
    Results = {2}
    ResignArgs = {1}
    ResolveFirst = TRUE
    CommandsWhilePending = FALSE
    MaxGames = 3
    MaxRecords = 2
    SessionRecords = 5
    NewGameAnywhere = FALSE
SPECIFICATION HSpec
CONSTRAINT Bounded
INVARIANTS
    BoardShowsMover
    ScoreChain
    ReplayAgrees
PROPERTIES
    NavigationKeepsRecords
    DiscardNeedsYes
