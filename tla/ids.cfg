CONSTANTS
    Boards <- SomeBoards
    Matches <- SomeMatches
    MAXSCORE = 64
SPECIFICATION IDsSpec
CHECK_DEADLOCK FALSE
INVARIANTS
    PositionIDLoads
    KeysLossless
    MatchIDLoads
    BearoffNumbered
