CONSTANTS
    CubeValues = {1, 2}
    MAX_CUBE = 2
    Jacoby = FALSE
    PlayerType <- TwoHumans
    AutoGame = TRUE
    AutoCrawford = TRUE
    AutoRoll = FALSE
    AutoMove = FALSE
    ConfirmNew = TRUE
    Display = TRUE
    CubeUse = TRUE
    nBeavers = 0
    cAutoDoubles = 0
    Lengths = {2}
    Results = {1}
    ResignArgs = {1}
    ResolveFirst = TRUE
    CommandsWhilePending = FALSE
    NewGameAnywhere = FALSE
    Scores = {0, 1}
    Marks = {"none", "crawford", "postcrawford"}
    IDs <- SomeIDs
    QuietEdits = TRUE
    FlagsInGame = TRUE
    TurnRecorded = TRUE
    MaxGames = 1
    MaxRecords = 2
SPECIFICATION ESpec
CONSTRAINT Bounded
INVARIANTS
    TurnWithDecider
    BoardShowsMover
    EditsReplay
    FlagsRecorded
    NoAssertionFails
