-------------------------------- MODULE Moves --------------------------------
(***************************************************************************)
(* Chequer play: the generation of the legal moves of a roll (eval.c), the *)
(* acceptance of a typed move and the application of a recorded one        *)
(* (play.c), and the end of the game.  A board is TanBoard: anBoard[1] the *)
(* chequers of the player on roll, anBoard[0] those of the opponent, each  *)
(* seen from its owner's side.  The program's board has 24 points, a home  *)
(* of 6 and 15 chequers a side, and dice with as many faces as the home    *)
(* has points; the bar is the index after the last point.                  *)
(***************************************************************************)
EXTENDS Integers, Sequences, FiniteSets, SequencesExt

CONSTANTS Points,    \* 24 in the program
          Home,      \* 6
          Chequers,  \* 15 (anChequers[bgv])
          Opening    \* InitBoard: one side's chequers at the start

ASSUME MovesAssumption ==
    /\ {Points, Home, Chequers} \subseteq Nat \ {0}
    /\ Home <= Points
    /\ Opening \in [0..Points -> 0..Chequers]

VARIABLES
    anBoard,  \* ms.anBoard, from the side of the player on roll
    anDice,   \* ms.anDice; <<0, 0>> before the roll
    status    \* what GameStatus returned when the last move was applied

mvars == <<anBoard, anDice, status>>

Bar == Points
Die == 1..Home

\* The opponent's name of point i (anBoard[0][23 - i]).
Mirror(i) == Points - 1 - i

InitBoard == [s \in 0..1 |-> Opening]

\* Mutant of SwapSides: the loop ends before the bar.
SwapSidesPoints(b) ==
    [s \in 0..1 |-> [i \in 0..Bar |-> IF i = Bar THEN b[s][i] ELSE b[1 - s][i]]]

SwapSides(b) == [s \in 0..1 |-> b[1 - s]]

-----------------------------------------------------------------------------
(* Moving one chequer, and a whole move.                                   *)

\* ApplySubMove without its check of the die: whether it succeeded, and the
\* board it leaves, from which the chequer is lifted even if it then finds
\* the destination blocked.
ApplySubMove(b, iSrc, nRoll) ==
    LET iDest  == iSrc - nRoll
        lifted == [b EXCEPT ![1][iSrc] = @ - 1]
        theirs == b[0][Mirror(iDest)]
    IN  IF iSrc \notin 0..Bar \/ iDest > Bar \/ b[1][iSrc] < 1
        THEN [ok |-> FALSE, board |-> b]
        ELSE IF iDest < 0 THEN [ok |-> TRUE, board |-> lifted]
        ELSE IF theirs > 1 THEN [ok |-> FALSE, board |-> lifted]
        ELSE [ok |-> TRUE,
              board |-> IF theirs = 1
                        THEN [lifted EXCEPT ![1][iDest] = 1,
                                            ![0][Mirror(iDest)] = 0,
                                            ![0][Bar] = @ + 1]
                        ELSE [lifted EXCEPT ![1][iDest] = @ + 1]]

\* ApplyMove: anMove is the sequence of its <<source, destination>> pairs.
ApplyMove(b, anMove) ==
    FoldLeft(LAMBDA r, m : IF r.ok THEN ApplySubMove(r.board, m[1], m[1] - m[2]) ELSE r,
             [ok |-> TRUE, board |-> b], anMove)

\* Mutant of PlayMove: a chequer that is hit stays where it is.
PlayMoveUnhit(b, anMove) ==
    SwapSides(FoldLeft(LAMBDA c, m :
        IF c[1][m[1]] = 0 THEN c
        ELSE LET lifted == [c EXCEPT ![1][m[1]] = @ - 1]
             IN  IF m[2] < 0 THEN lifted ELSE [lifted EXCEPT ![1][m[2]] = @ + 1],
        b, anMove))

\* PlayMove, the way a record of a move is applied: nothing is checked, a
\* move from an empty point is skipped, whatever stands there is hit.
PlayMove(b, anMove) ==
    SwapSides(FoldLeft(LAMBDA c, m :
        IF c[1][m[1]] = 0 THEN c
        ELSE LET lifted == [c EXCEPT ![1][m[1]] = @ - 1]
             IN  IF m[2] < 0 THEN lifted
                 ELSE [lifted EXCEPT ![1][m[2]] = @ + 1,
                                     ![0][Bar] = @ + c[0][Mirror(m[2])],
                                     ![0][Mirror(m[2])] = 0],
        b, anMove))

\* Mutant of CanonicalMoveOrder: by increasing source.
CanonicalMoveOrderUp(anMove) ==
    SortSeq(anMove, LAMBDA m, n : m[1] < n[1] \/ (m[1] = n[1] /\ m[2] > n[2]))

\* CanonicalMoveOrder: the pairs by decreasing source, then destination.
CanonicalMoveOrder(anMove) ==
    SortSeq(anMove, LAMBDA m, n : m[1] > n[1] \/ (m[1] = n[1] /\ m[2] > n[2]))

-----------------------------------------------------------------------------
(* The generator.  A move list is a record: its moves, each with the board *)
(* its key stands for, and the number of chequers and pips of the best.    *)
(* fPartial is FALSE: no caller in this build asks for incomplete moves.   *)

\* Mutant of SaveMoves: shorter moves are recognised by their chequers alone.
SaveMovesUnpipped(pml, cPip, anMoves, b) ==
    LET c == Len(anMoves)
        kept == IF c > pml.cMaxMoves THEN <<>> ELSE pml.amMoves
    IN  IF c < pml.cMaxMoves \/ \E k \in DOMAIN kept : kept[k].key = b THEN pml
        ELSE [cMaxMoves |-> c, cMaxPips |-> cPip,
              amMoves   |-> Append(kept, [anMove |-> anMoves, key |-> b])]

SaveMoves(pml, cPip, anMoves, b) ==
    LET c == Len(anMoves) IN
    IF c < pml.cMaxMoves \/ cPip < pml.cMaxPips THEN pml
    ELSE LET kept == IF c > pml.cMaxMoves \/ cPip > pml.cMaxPips
                     THEN <<>> ELSE pml.amMoves
             pm   == [anMove |-> [k \in 1..c |->
                                    <<anMoves[k][1], IF anMoves[k][2] > -1
                                                     THEN anMoves[k][2] ELSE -1>>],
                      key    |-> b]
         IN  [cMaxMoves |-> c, cMaxPips |-> cPip,
              amMoves   |-> IF \E k \in DOMAIN kept : kept[k].key = b
                            THEN kept ELSE Append(kept, pm)]

LegalMove(b, iSrc, nPips) ==
    LET iDest == iSrc - nPips
        nBack == CHOOSE i \in 0..Bar :
                    /\ \A k \in i+1..Bar : b[1][k] = 0
                    /\ i = 0 \/ b[1][i] > 0
    IN  IF iDest >= 0 THEN b[0][Mirror(iDest)] < 2
        ELSE nBack <= Home - 1 /\ (iSrc = nBack \/ iDest = -1)

\* The points GenerateMovesSub tries in turn: the bar alone while a chequer
\* is on it, else the points from iPip down that hold a movable chequer.
Sources(b, nRoll, iPip) ==
    IF b[1][Bar] > 0
    THEN IF b[0][nRoll - 1] >= 2 THEN <<>> ELSE <<Bar>>
    ELSE SelectSeq([k \in 1..iPip+1 |-> iPip + 1 - k],
                   LAMBDA i : b[1][i] > 0 /\ LegalMove(b, i, nRoll))

\* The highest point the next chequer is tried from.
NextPip(anRoll, b, i) ==
    IF b[1][Bar] = 0 /\ anRoll[1] = anRoll[2] THEN i ELSE Points - 1

\* fSave is the value the code returns: the caller saves its own move,
\* because nothing longer extends it.
RECURSIVE GenerateMovesSub(_, _, _, _, _, _)
GenerateMovesSub(pml, anRoll, iPip, cPip, b, anMoves) ==
    LET depth == Len(anMoves) + 1 IN
    IF depth > Len(anRoll) THEN [ml |-> pml, fSave |-> TRUE]
    ELSE LET nRoll == anRoll[depth]
             Try(ml, i) ==
                LET moves == Append(anMoves, <<i, i - nRoll>>)
                    bNew  == ApplySubMove(b, i, nRoll).board
                    sub   == GenerateMovesSub(ml, anRoll, NextPip(anRoll, b, i),
                                              cPip + nRoll, bNew, moves)
                IN  IF sub.fSave THEN SaveMoves(sub.ml, cPip + nRoll, moves, bNew)
                    ELSE sub.ml
             srcs == Sources(b, nRoll, iPip)
         IN  [ml |-> FoldLeft(Try, pml, srcs), fSave |-> srcs = <<>>]

GenerateMoves(b, n0, n1) ==
    LET none   == [amMoves |-> <<>>, cMaxMoves |-> 0, cMaxPips |-> 0]
        Gen(ml, anRoll) == GenerateMovesSub(ml, anRoll, Points - 1, 0, b, <<>>).ml
    IN  IF n0 = n1 THEN Gen(none, <<n0, n0, n0, n0>>).amMoves
        ELSE Gen(Gen(none, <<n0, n1>>), <<n1, n0>>).amMoves

-----------------------------------------------------------------------------
(* The end of the game, the validity of a position, typed moves.           *)

Empty(side) == \A i \in 0..Bar : side[i] = 0

SideCount(side) == FoldLeft(LAMBDA c, i : c + side[i], 0, [k \in 1..Bar+1 |-> k - 1])

\* EvalOver for the player with chequers left.
LossOf(side) == IF SideCount(side) # Chequers THEN 1
                ELSE IF \E i \in Points-Home..Bar : side[i] > 0 THEN 3 ELSE 2

\* Mutant of GameStatus: only the player on roll is looked at.
GameStatusOnRoll(b) == IF Empty(b[1]) THEN LossOf(b[0]) ELSE 0

GameStatus(b) == IF Empty(b[0]) THEN LossOf(b[1])
                 ELSE IF Empty(b[1]) THEN LossOf(b[0]) ELSE 0

CheckPosition(b) ==
    /\ \A s \in 0..1 : SideCount(b[s]) <= Chequers
    /\ \A i \in 0..Points-1 : b[0][i] = 0 \/ b[1][Mirror(i)] = 0
    /\ \/ \E i \in 0..Home-1 : b[0][i] < 2 \/ b[1][i] < 2
       \/ b[0][Bar] = 0 \/ b[1][Bar] = 0

\* parse_move_is_legal and board_in_list: the move of the list that gives
\* the board the typed move gives, whether or not ApplyMove succeeded.
Found(b, ml, an) ==
    LET typed == ApplyMove(b, CanonicalMoveOrder(an)).board
    IN  {k \in DOMAIN ml : ApplyMove(b, ml[k].anMove).board = typed}

-----------------------------------------------------------------------------
(* A game.                                                                 *)

MovesInit == /\ anBoard = InitBoard
             /\ anDice = <<0, 0>>
             /\ status = 0

\* ApplyMoveRecord of a MOVE_NORMAL, as far as the board is concerned.
Record(anMove) ==
    /\ anBoard' = PlayMove(anBoard, anMove)
    /\ anDice' = <<0, 0>>
    /\ status' = GameStatus(anBoard')

\* CommandRoll: a roll that cannot be played passes the turn at once.
CommandRoll(n0, n1) ==
    /\ status = 0 /\ anDice = <<0, 0>>
    /\ IF GenerateMoves(anBoard, n0, n1) = <<>>
       THEN Record(<<>>)
       ELSE anDice' = <<n0, n1>> /\ UNCHANGED <<anBoard, status>>

\* CommandMove, or a move the program makes: the chosen entry of the list.
CommandMove ==
    /\ status = 0 /\ anDice # <<0, 0>>
    /\ LET ml == GenerateMoves(anBoard, anDice[1], anDice[2])
       IN  \E k \in DOMAIN ml : Record(ml[k].anMove)

MovesNext == \/ \E n0, n1 \in Die : CommandRoll(n0, n1)
             \/ CommandMove

MovesSpec == MovesInit /\ [][MovesNext]_mvars

-----------------------------------------------------------------------------
(* The rules of the game, stated without the generator.                    *)

\* The boards that playing one chequer with one die can give.
OneDie(b, n) ==
    LET AllHome == \A i \in Home..Bar : b[1][i] = 0
        Open(d) == b[0][Mirror(d)] <= 1
        Free(i) == /\ b[1][i] > 0
                   /\ b[1][Bar] > 0 => i = Bar
                   /\ \/ i >= n /\ Open(i - n)
                      \/ /\ i < n /\ AllHome
                         /\ i = n - 1 \/ \A k \in i+1..Bar : b[1][k] = 0
    IN  {ApplySubMove(b, i, n).board : i \in {j \in 0..Bar : Free(j)}}

\* The boards that playing all the dice of a sequence can give.
AllDice(b, dice) ==
    FoldLeft(LAMBDA bs, n : UNION {OneDie(c, n) : c \in bs}, {b}, dice)

FirstDice(dice, n) == {SubSeq(d, 1, n) : d \in dice}

\* As many chequers as possible must be played, and the larger die if only
\* one of the two can be.
RuleBoards(b, n0, n1) ==
    LET dice == IF n0 = n1 THEN {<<n0, n0, n0, n0>>} ELSE {<<n0, n1>>, <<n1, n0>>}
        Can(n) == UNION {AllDice(b, d) : d \in FirstDice(dice, n)}
        most == CHOOSE n \in 0..4 :
                    /\ n <= (IF n0 = n1 THEN 4 ELSE 2) /\ Can(n) # {}
                    /\ \A k \in n+1..(IF n0 = n1 THEN 4 ELSE 2) : Can(k) = {}
        large == IF n0 > n1 THEN n0 ELSE n1
    IN  IF most = 0 THEN {}
        ELSE IF most = 1 /\ n0 # n1 /\ OneDie(b, large) # {} THEN OneDie(b, large)
        ELSE Can(most)

-----------------------------------------------------------------------------
(* Properties.                                                             *)

\* The moves listed for the roll on the board; none before the roll.
Listed == IF anDice = <<0, 0>> THEN <<>> ELSE GenerateMoves(anBoard, anDice[1], anDice[2])

\* The generator's tricks (the roll in both orders, equal dice played only
\* downwards from the last source, shorter moves thrown away on the way)
\* give each board the rules allow, and no other, exactly once.
ListsLegalMoves ==
    anDice # <<0, 0>> =>
        LET ml   == Listed
            keys == {ml[k].key : k \in DOMAIN ml}
        IN  /\ keys = RuleBoards(anBoard, anDice[1], anDice[2])
            /\ Cardinality(keys) = Len(ml)

\* The points recorded with a move, bear-offs cut to -1, lead PlayMove to the
\* board whose key the list holds, so that a replay ends where play did.
RecordsReplay ==
    LET ml == Listed
    IN  \A k \in DOMAIN ml : PlayMove(anBoard, ml[k].anMove) = SwapSides(ml[k].key)

\* A listed move can be typed: sorted into canonical order, parse_move_is_legal
\* finds it again and no other.
ListedMovesTypable ==
    LET ml == Listed
    IN  \A k \in DOMAIN ml : Found(anBoard, ml, ml[k].anMove) = {k}

\* Play keeps within the positions CheckPosition admits: neither too many
\* chequers, nor both sides on one point, nor both on the bar before closed
\* boards, where nobody could ever move again.
PositionsValid == CheckPosition(anBoard)

\* A game ends when, and only when, the player who has just moved has borne
\* off his last chequer: the record names him as the winner unseen.
MoverWins == /\ status # 0 <=> Empty(anBoard[0])
             /\ ~ Empty(anBoard[1])

\* "we have a legal move!": a typed move that parse_move_is_legal accepts is
\* one that ApplyMove can make (moves of one chequer, forwards).
AcceptedMovesApply ==
    LET ml == Listed
    IN  \A m \in {n \in (0..Bar) \X (-1..Bar-1) : n[2] < n[1]} :
            Found(anBoard, ml, <<m>>) # {} => ApplyMove(anBoard, <<m>>).ok
=============================================================================
