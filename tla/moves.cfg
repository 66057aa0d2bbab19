CONSTANTS
    Points = 5
    Home = 2
    Chequers = 5
    Opening <- SmallOpening
SPECIFICATION MovesSpec
CHECK_DEADLOCK FALSE
INVARIANTS
    ListsLegalMoves
    RecordsReplay
    ListedMovesTypable
    PositionsValid
    MoverWins
