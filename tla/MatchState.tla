------------------------------ MODULE MatchState ------------------------------
(***************************************************************************)
(* The match state `ms', the move records a game is made of, and the pure  *)
(* functions of play.c that turn records into match states.                *)
(*                                                                         *)
(* A position is abstracted to what the match logic reads of it: `side',   *)
(* the player whose chequers are in anBoard[1] (NoOne for the symmetric    *)
(* starting position), and `st', what GameStatus returns for it (0 while   *)
(* the game goes on, else 1, 2, 3 for a single game, gammon, backgammon).  *)
(* A roll is abstracted to whether there are dice on the board.            *)
(***************************************************************************)
EXTENDS Integers, Sequences, SequencesExt

CONSTANTS
    CubeValues,     \* the legal cube values 1, 2, 4, ..., MAX_CUBE
    MAX_CUBE,       \* backgammon.h: 1 << 12
    Jacoby          \* ms.fJacoby: gammons need a turned cube in money play

ASSUME CubeAssumption ==
    /\ MAX_CUBE \in Nat
    /\ CubeValues \subseteq 1..MAX_CUBE
    /\ 1 \in CubeValues
    /\ \A c \in CubeValues : c < MAX_CUBE => 2 * c \in CubeValues

ASSUME JacobyAssumption == Jacoby \in BOOLEAN

Player == {0, 1}
NoOne  == -1
Other(p) == 1 - p

MoveType == {"normal", "double", "take", "drop", "resign",
             "setboard", "setdice", "setcubeval", "setcubepos"}

(***************************************************************************)
(* A move record.  v is the payload of the union member in use: for a      *)
(* chequer play and for setboard the GameStatus of the position it leads   *)
(* to, for a resignation nResigned, for setcubeval the cube, for           *)
(* setcubepos the owner.  The MOVE_GAMEINFO record that opens every game   *)
(* is the `info' field of the game, its other records are `recs'.          *)
(***************************************************************************)
Record == [mt : MoveType, fPlayer : Player, v : Int]

GameInfo == [i : Nat, nMatch : Nat, anScore : [Player -> Nat],
             fCrawford : BOOLEAN, fCrawfordGame : BOOLEAN,
             fWinner : Player \cup {NoOne}, nPoints : Nat,
             nAutoDoubles : Nat]

Game == [info : GameInfo, recs : Seq(Record)]

GameState == {"none", "playing", "over", "resigned", "drop"}

MatchStates ==
    [side : Player \cup {NoOne}, st : 0..3, dice : BOOLEAN,
     fTurn : Player \cup {NoOne}, fMove : Player \cup {NoOne},
     fResigned : -1..3, fResignationDeclined : -1..3,
     fDoubled : BOOLEAN, cGames : Nat, fCubeOwner : Player \cup {NoOne},
     fCrawford : BOOLEAN, fPostCrawford : BOOLEAN,
     nMatchTo : Nat, anScore : [Player -> Nat],
     nCube : CubeValues, cBeavers : Nat, gs : GameState]

(* The initialiser of the global ms in gnubg.c. *)
InitialMatchState ==
    [side |-> NoOne, st |-> 0, dice |-> FALSE,
     fTurn |-> NoOne, fMove |-> NoOne,
     fResigned |-> 0, fResignationDeclined |-> 0,
     fDoubled |-> FALSE, cGames |-> 0, fCubeOwner |-> NoOne,
     fCrawford |-> FALSE, fPostCrawford |-> FALSE,
     nMatchTo |-> 0, anScore |-> [p \in Player |-> 0],
     nCube |-> 1, cBeavers |-> 0, gs |-> "none"]

-----------------------------------------------------------------------------
(* Definitions called mutants are variants with a plausible bug.  No
   specification uses them: they show that a property can tell. *)

(* SwapSides: the starting position is its own mirror image. *)
SwapSides(side) == IF side = NoOne THEN NoOne ELSE Other(side)

(* Mutant of PlayMove: the board is not turned to the next player. *)
PlayMoveUnturned(m, r) ==
    [m EXCEPT !.side = r.fPlayer, !.st = r.v,
              !.fMove = Other(r.fPlayer), !.fTurn = Other(r.fPlayer)]

(***************************************************************************)
(* PlayMove applies anMove to the chequers in anBoard[1], after turning    *)
(* the board to fPlayer if it shows the other side, then passes the turn.  *)
(* `seen' is whose chequers the move is really applied to.                 *)
(***************************************************************************)
PlayMove(m, r) ==
    LET turned == IF m.fMove # NoOne /\ r.fPlayer # m.fMove
                    THEN SwapSides(m.side) ELSE m.side
        seen   == IF turned = NoOne THEN r.fPlayer ELSE turned
    IN [m EXCEPT !.side = Other(seen), !.st = r.v,
                 !.fMove = Other(r.fPlayer), !.fTurn = Other(r.fPlayer)]

(* Mutant of ApplyGameOver: the points are added to those of an earlier
   replay of the game. *)
ApplyGameOverAgain(m, g, gs, winner, points) ==
    [ms   |-> [m EXCEPT !.gs = gs, !.cGames = @ + 1,
                        !.anScore[winner] = @ + points],
     info |-> [g EXCEPT !.fWinner = winner, !.nPoints = @ + points]]

(* The end of a game: the winner and points go to the GAMEINFO record and
   ApplyGameOver adds them to the score. *)
ApplyGameOver(m, g, gs, winner, points) ==
    [ms   |-> [m EXCEPT !.gs = gs, !.cGames = @ + 1,
                        !.anScore[winner] = @ + points],
     info |-> [g EXCEPT !.fWinner = winner, !.nPoints = points]]

(* ApplyMoveRecord for MOVE_GAMEINFO: every field is set from the record. *)
ApplyGameInfo(g) ==
    [InitialMatchState EXCEPT
        !.nMatchTo = g.nMatch, !.anScore = g.anScore, !.cGames = g.i,
        !.nCube = 2 ^ g.nAutoDoubles,
        !.fCrawford = g.fCrawfordGame,
        !.fPostCrawford = /\ ~g.fCrawfordGame
                          /\ \E p \in Player : g.anScore[p] = g.nMatch - 1]

(* Mutant of ApplyDouble: a beaver gives the cube to the player on roll. *)
ApplyDoubleOwner(m, r) ==
    IF m.fDoubled
    THEN [m EXCEPT !.cBeavers = @ + 1, !.nCube = 2 * @,
                   !.fCubeOwner = m.fMove, !.fTurn = Other(r.fPlayer)]
    ELSE [m EXCEPT !.fDoubled = TRUE, !.fTurn = Other(r.fPlayer)]

ApplyDouble(m, r) ==
    LET mover == IF m.fMove = NoOne THEN r.fPlayer ELSE m.fMove
        moved == [m EXCEPT !.fMove = mover]
    IN  IF m.nCube >= MAX_CUBE
        THEN moved
        ELSE IF m.fDoubled
        THEN [moved EXCEPT !.cBeavers = @ + 1, !.nCube = 2 * @,
                           !.fCubeOwner = Other(mover),
                           !.fTurn = Other(r.fPlayer)]
        ELSE [moved EXCEPT !.fDoubled = TRUE, !.fTurn = Other(r.fPlayer)]

(* Mutant of ApplyTake: the beavers are not reset. *)
ApplyTakeBeavers(m) ==
    [m EXCEPT !.nCube = 2 * @, !.fDoubled = FALSE,
              !.fCubeOwner = Other(m.fMove), !.fTurn = m.fMove]

ApplyTake(m) ==
    [m EXCEPT !.nCube = 2 * @, !.cBeavers = 0, !.fDoubled = FALSE,
              !.fCubeOwner = Other(m.fMove), !.fTurn = m.fMove]

(* Mutant of ApplyDrop: the player on roll wins, even if he drops a beaver. *)
ApplyDropTurn(m, g, r) ==
    ApplyGameOver([m EXCEPT !.fDoubled = FALSE, !.cBeavers = 0],
                  g, "drop", m.fMove, m.nCube)

ApplyDrop(m, g, r) ==
    ApplyGameOver([m EXCEPT !.fDoubled = FALSE, !.cBeavers = 0],
                  g, "drop", Other(r.fPlayer), m.nCube)

(* Under the Jacoby rule gammons do not count on a centred cube. *)
GameValue(m, n) ==
    IF Jacoby /\ m.fCubeOwner = NoOne /\ m.nMatchTo = 0 THEN 1 ELSE n

ApplyNormal(m, g, r) ==
    LET t == [PlayMove([m EXCEPT !.fDoubled = FALSE], r) EXCEPT !.dice = FALSE]
    IN  IF t.st = 0
        THEN [ms |-> t, info |-> g]
        ELSE ApplyGameOver(t, g, "over", r.fPlayer,
                           t.nCube * GameValue(t, t.st))

(* Mutant of ApplyResign: the player of the record wins, as for a play. *)
ApplyResignPlayer(m, g, r) ==
    ApplyGameOver([m EXCEPT !.fResigned = r.v], g, "resigned",
                  r.fPlayer, m.nCube * r.v)

ApplyResign(m, g, r) ==
    ApplyGameOver([m EXCEPT !.fResigned = r.v], g, "resigned",
                  Other(r.fPlayer), m.nCube * r.v)

(* The board a setboard record holds shows the player on roll. *)
ApplySetBoard(m, r) ==
    LET mover == IF m.fMove = NoOne THEN 0 ELSE m.fMove
    IN [m EXCEPT !.side = mover, !.st = r.v, !.fMove = mover,
                 !.fTurn = IF m.fMove = NoOne THEN 0 ELSE @]

(* Mutant of ApplySetDice: the board is not turned to the player who rolls. *)
ApplySetDiceUnturned(m, r) ==
    [m EXCEPT !.dice = TRUE, !.fDoubled = FALSE,
              !.fTurn = r.fPlayer, !.fMove = r.fPlayer]

ApplySetDice(m, r) ==
    [m EXCEPT !.dice = TRUE, !.fDoubled = FALSE,
              !.side = IF m.fMove # r.fPlayer THEN SwapSides(@) ELSE @,
              !.fTurn = r.fPlayer, !.fMove = r.fPlayer]

ApplySetCube(m, r) ==
    LET mover == IF m.fMove = NoOne THEN 0 ELSE m.fMove
        t == [m EXCEPT !.fMove = mover, !.fTurn = mover, !.fDoubled = FALSE]
    IN  IF r.mt = "setcubeval" THEN [t EXCEPT !.nCube = r.v]
                               ELSE [t EXCEPT !.fCubeOwner = r.v]

(***************************************************************************)
(* ApplyMoveRecord: the match state after record r, and the GAMEINFO       *)
(* record of the game as the end of the game updates it.                   *)
(***************************************************************************)
ApplyMoveRecord(m0, g, r) ==
    LET m == [m0 EXCEPT !.gs = "playing", !.fResigned = 0,
                        !.fResignationDeclined = 0]
        Only(t) == [ms |-> t, info |-> g]
    IN CASE r.mt = "double"   -> Only(ApplyDouble(m, r))
         [] r.mt = "take"     -> Only(IF m.fDoubled THEN ApplyTake(m) ELSE m)
         [] r.mt = "drop"     -> IF m.fDoubled THEN ApplyDrop(m, g, r)
                                               ELSE Only(m)
         [] r.mt = "normal"   -> ApplyNormal(m, g, r)
         [] r.mt = "resign"   -> ApplyResign(m, g, r)
         [] r.mt = "setboard" -> Only(ApplySetBoard(m, r))
         [] r.mt = "setdice"  -> Only(ApplySetDice(m, r))
         [] OTHER             -> Only(ApplySetCube(m, r))

(* FixMatchState: a play or a double by a player who does not have the turn
   means that the record which gave it to him is missing. *)
FixMatchState(m, r) ==
    IF r.mt \in {"normal", "double"} /\ m.fTurn # r.fPlayer
    THEN [m EXCEPT !.side = SwapSides(@), !.fMove = r.fPlayer,
                   !.fTurn = r.fPlayer]
    ELSE m

(* FixMatchState with the record that follows record n, if there is one. *)
FixForNext(m, recs, n) ==
    IF n < Len(recs) THEN FixMatchState(m, recs[n + 1]) ELSE m

(***************************************************************************)
(* CalculateBoard: the match state rebuilt from the first n records of     *)
(* game gm, and its GAMEINFO record as the replay leaves it.               *)
(***************************************************************************)
CalculateBoard(gm, n) ==
    LET Replay[k \in 0..n] ==
          IF k = 0
          THEN [ms |-> FixForNext(ApplyGameInfo(gm.info), gm.recs, 0),
                info |-> gm.info]
          ELSE LET t == ApplyMoveRecord(Replay[k-1].ms, Replay[k-1].info,
                                        gm.recs[k])
               IN [t EXCEPT !.ms = FixForNext(@, gm.recs, k)]
    IN Replay[n]
=============================================================================
