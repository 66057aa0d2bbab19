CONSTANTS
    Points = 5
    Home = 2
    Chequers = 3
    Opening <- SmallOpening
SPECIFICATION MovesSpec
CHECK_DEADLOCK FALSE
INVARIANT
    AcceptedMovesApply
