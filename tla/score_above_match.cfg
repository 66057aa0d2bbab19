CONSTANTS
    CubeValues = {1, 2}
    MAX_CUBE = 2
    Jacoby = FALSE
    PlayerType <- TwoHumans
    AutoGame = TRUE
    AutoCrawford = TRUE
    AutoRoll = FALSE
    AutoMove = FALSE
    ConfirmNew = TRUE
    Display = TRUE
    CubeUse = TRUE
    nBeavers = 0
    cAutoDoubles = 0
    Lengths = {2}
    Results = {1}
    ResignArgs = {1}
    ResolveFirst = TRUE
    CommandsWhilePending = FALSE
    NewGameAnywhere = FALSE
    Scores = {0, 2}
    Marks = {"none"}
    IDs <- NoIDs
    QuietEdits = TRUE
    FlagsInGame = TRUE
    TurnRecorded = TRUE
    MaxGames = 1
    MaxRecords = 2
SPECIFICATION ESpec
CONSTRAINT Bounded
INVARIANT
    NoAssertionFails
