CONSTANTS
    CubeValues = {1, 2, 4, 8, 16}
    MAX_CUBE = 16
    Jacoby = TRUE
    PlayerType <- HumanVsGnu
    AutoGame = TRUE
    AutoCrawford = TRUE
    AutoRoll = TRUE
    AutoMove = TRUE
    ConfirmNew = TRUE
    Display = TRUE
    CubeUse = TRUE
    nBeavers = 2
    cAutoDoubles = 1
    Lengths = {0, 3}
    Results = {2}
    ResignArgs = {1, 3}
    ResolveFirst = TRUE
    CommandsWhilePending = TRUE
    MaxGames = 1
    MaxRecords = 6
SPECIFICATION Spec
CONSTRAINT Bounded
INVARIANTS
    TypeOK
    TurnWithDecider
    CubeScenarios
    CubeWithinLimits
    BoardShowsMover
PROPERTY ImplementsRules
