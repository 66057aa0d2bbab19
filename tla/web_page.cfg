CONSTANTS
    CubeValues = {1, 2, 4}
    MAX_CUBE = 4
    Jacoby = TRUE
    PlayerType <- HumanVsGnu
    AutoGame = TRUE
    AutoCrawford = TRUE
    AutoRoll = TRUE
    AutoMove = TRUE
    ConfirmNew = TRUE
    Display = TRUE
    CubeUse = TRUE
    nBeavers = 1
    cAutoDoubles = 0
    Lengths = {0, 2}
    Results = {2}
    ResignArgs <- Resignations
    ResolveFirst = TRUE
    CommandsWhilePending = TRUE
    MaxTimers = 2
    MaxGames = 1
    MaxRecords = 3
    Impatient = FALSE
SPECIFICATION WSpec
INVARIANTS
    TimerPending
    PageServes
    NoAssertionFails
PROPERTIES
    GnuPlays
    ImplementsRules
