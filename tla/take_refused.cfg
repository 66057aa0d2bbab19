CONSTANTS
    CubeValues = {1, 2, 4}
    MAX_CUBE = 4
    Jacoby = FALSE
    PlayerType <- TwoHumans
    AutoGame = TRUE
    AutoCrawford = TRUE
    AutoRoll = FALSE
    AutoMove = FALSE
    ConfirmNew = TRUE
    Display = TRUE
    CubeUse = TRUE
    nBeavers = 0
    cAutoDoubles = 0
    Lengths = {2}
    Results = {1}
    ResignArgs = {1}
    ResolveFirst = TRUE
    CommandsWhilePending = FALSE
    MaxGames = 2
    MaxRecords = 3
    SessionRecords = 0
    NewGameAnywhere = FALSE
SPECIFICATION HSpec
CONSTRAINT Bounded
PROPERTIES
    NoKeepsRecords
