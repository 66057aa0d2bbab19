CONSTANTS
    CubeValues = {1, 2, 4}
    MAX_CUBE = 4
    Jacoby = FALSE
    PlayerType <- TwoHumans
    AutoGame = TRUE
    AutoCrawford = TRUE
    AutoRoll = FALSE
    AutoMove = FALSE
    ConfirmNew = TRUE
    Display = TRUE
    CubeUse = TRUE
    nBeavers = 0
    cAutoDoubles = 0
    Lengths = {3}
    Results = {1, 2}
    ResignArgs = {0, 2}
    ResolveFirst = TRUE
    CommandsWhilePending = FALSE
    MaxGames = 4
    MaxRecords = 2
SPECIFICATION Spec
CONSTRAINT Bounded
INVARIANTS
    ScoreChain
    CrawfordRule
    CrawfordCubeless
    NoAssertionFails
PROPERTY ImplementsRules
