----------------------------- MODULE MatchHistory -----------------------------
(***************************************************************************)
(* Moving through the recorded match: the `next', `previous' and `first'   *)
(* commands, interleaved with play.  Going back rebuilds ms by replaying   *)
(* records (CalculateBoard), going forward applies them one by one, and    *)
(* playing from an earlier point deletes what followed it.                 *)
(***************************************************************************)
EXTENDS Match

CONSTANT
    NewGameAnywhere  \* may `new game' be typed at the end of an earlier game?

ASSUME NewGameAssumption == NewGameAnywhere \in BOOLEAN

(* CalculateBoard on ms and the current game's GAMEINFO record. *)
Recalculate(s) ==
    LET t == CalculateBoard(s.lMatch[s.plGame], s.plLastMove)
    IN [s EXCEPT !.ms = t.ms, !.lMatch[s.plGame].info = t.info]

NextRecord(s) == s.lMatch[s.plGame].recs[s.plLastMove + 1]

(* SetTurn of set.c, with CancelCubeAction. *)
SetTurn(s, i) ==
    LET m == s.ms
    IN [s EXCEPT !.fNextTurn = FALSE,
                 !.ms = [m EXCEPT
                           !.side = IF m.fTurn # i THEN SwapSides(m.side)
                                                   ELSE m.side,
                           !.fTurn = i, !.fMove = i,
                           !.fDoubled = FALSE, !.dice = FALSE]]

(* ChangeGame: go to the GAMEINFO record of game k.  The turn goes to the
   player of the first record if replaying has not given it to him. *)
ChangeGame(s, k) ==
    LET t == Recalculate([s EXCEPT !.plGame = k, !.plLastMove = 0])
    IN  IF move_is_last_in_match(t) \/ NextRecord(t).fPlayer = t.ms.fTurn
        THEN t ELSE SetTurn(t, NextRecord(t).fPlayer)

(* `next n' and `previous n' are n single steps. *)
CommandNext(s) ==
    IF s.plGame = 0 \/ move_is_last_in_match(s) THEN s
    ELSE LET gm == s.lMatch[s.plGame]
             n  == s.plLastMove + 1
             t  == ApplyMoveRecord(FixMatchState(s.ms, gm.recs[n]), gm.info,
                                   gm.recs[n])
         IN [s EXCEPT !.plLastMove = n,
                      !.ms = FixForNext(t.ms, gm.recs, n),
                      !.lMatch[s.plGame].info = t.info]

(* Mutant of CommandPrevious: ms is not recalculated. *)
CommandPreviousStale(s) ==
    IF s.plGame = 0 THEN s
    ELSE [s EXCEPT !.plLastMove = IF @ = 0 THEN 0 ELSE @ - 1]

CommandPrevious(s) ==
    IF s.plGame = 0 THEN s
    ELSE Recalculate([s EXCEPT !.plLastMove = IF @ = 0 THEN 0 ELSE @ - 1])

CommandNextGame(s) ==
    IF s.plGame \in 1..(Len(s.lMatch) - 1) THEN ChangeGame(s, s.plGame + 1)
    ELSE s

CommandPreviousGame(s) ==
    IF s.plGame > 1 THEN ChangeGame(s, s.plGame - 1) ELSE s

CommandFirstGame(s) == IF s.plGame = 0 THEN s ELSE ChangeGame(s, 1)

CommandFirstMove(s) == IF s.plGame = 0 THEN s ELSE ChangeGame(s, s.plGame)

(* Show the roll of the play that comes next; anything else is a step. *)
CommandNextRoll(s) ==
    IF move_is_last_in_match(s) THEN s
    ELSE IF NextRecord(s).mt # "normal" \/ s.ms.dice THEN CommandNext(s)
    ELSE LET t == Recalculate(s)
             p == NextRecord(s).fPlayer
         IN [t EXCEPT !.ms = [@ EXCEPT !.gs = "playing", !.fMove = p,
                                       !.fTurn = p, !.dice = TRUE]]

CommandPreviousRoll(s) ==
    IF s.plGame = 0 THEN s
    ELSE IF s.ms.dice
    THEN LET t == [Recalculate(s) EXCEPT !.ms.dice = FALSE]
         IN [t EXCEPT !.ms = FixForNext(@, s.lMatch[s.plGame].recs,
                                        s.plLastMove)]
    ELSE LET t == CommandPrevious(s)
         IN  IF t.plLastMove # s.plLastMove /\ NextRecord(t).mt = "normal"
             THEN CommandNextRoll(t) ELSE t

(* A step, and then the roll of the play that comes next. *)
ShowRoll(s) ==
    IF ~move_is_last_in_match(s) /\ NextRecord(s).mt = "normal"
    THEN CommandNextRoll(s) ELSE s

CommandNextRolled(s) == ShowRoll(CommandNext(s))

CommandPreviousRolled(s) ==
    IF s.plGame = 0 THEN s ELSE ShowRoll(CommandPrevious(s))

-----------------------------------------------------------------------------
DoNext         == CommandAllowed /\ Resolved /\ Install(CommandNext(cur))
DoPrevious     == CommandAllowed /\ Install(CommandPrevious(cur))
DoNextGame     == CommandAllowed /\ Install(CommandNextGame(cur))
DoPreviousGame == CommandAllowed /\ Install(CommandPreviousGame(cur))
DoFirstGame    == CommandAllowed /\ Install(CommandFirstGame(cur))
DoFirstMove    == CommandAllowed /\ Install(CommandFirstMove(cur))
DoNextRoll     == CommandAllowed /\ Resolved /\ Install(CommandNextRoll(cur))
DoPreviousRoll == CommandAllowed /\ Install(CommandPreviousRoll(cur))
DoNextRolled   == CommandAllowed /\ Resolved /\ Install(CommandNextRolled(cur))
DoPreviousRolled == CommandAllowed /\ Install(CommandPreviousRolled(cur))

Navigate ==
    \/ DoNext \/ DoPrevious \/ DoNextGame \/ DoPreviousGame
    \/ DoFirstGame \/ DoFirstMove \/ DoNextRoll \/ DoPreviousRoll
    \/ DoNextRolled \/ DoPreviousRolled

DoNewGameHere ==
    /\ \/ NewGameAnywhere
       \/ plGame = Len(lMatch)
       \/ ~move_is_last_in_match(cur)
    /\ DoNewGame

HNext == PlayCommand \/ DoNewGameHere \/ DoNewMatch \/ DoNextTurn \/ Navigate

HSpec == Init /\ [][HNext]_vars
-----------------------------------------------------------------------------
(* What a replay must give back.  The computer's dice, a pending resignation
   and the Crawford flags of the next game are not in any record. *)
Recorded(m) == [gs |-> m.gs, anScore |-> m.anScore, cGames |-> m.cGames,
                nMatchTo |-> m.nMatchTo, nCube |-> m.nCube]

InPlay(m) == [side |-> m.side, st |-> m.st, fMove |-> m.fMove,
              fDoubled |-> m.fDoubled, fCubeOwner |-> m.fCubeOwner,
              cBeavers |-> m.cBeavers]

(* Records and state agree: replaying the game up to the current record gives
   the state play has reached, so that going back and forth and playing on
   from there (CalculateBoard, InternalCommandNext, AddMoveRecord with its
   elisions, FixMatchState) never changes the game. *)
ReplayAgrees ==
    plGame # 0 /\ plLastMove > 0 =>
        LET t == CalculateBoard(lMatch[plGame], plLastMove)
        IN  /\ Recorded(t.ms) = Recorded(ms)
            /\ Playing(cur) =>
                  /\ InPlay(t.ms) = InPlay(ms)
                  /\ ms.fResigned = 0 => t.ms.fTurn = ms.fTurn
            /\ Ended(ms) => t.info = lMatch[plGame].info

(* Looking at the match never changes the record of it. *)
NavigationKeepsRecords == [][Navigate => UNCHANGED lMatch]_vars

(* Some record is deleted, other than a roll that its play replaces. *)
Undecided(recs) ==
    IF recs # <<>> /\ Last(recs).mt = "setdice" THEN Front(recs) ELSE recs

Discards ==
    \E k \in DOMAIN lMatch :
        \/ k > Len(lMatch')
        \/ ~IsPrefix(Undecided(lMatch[k].recs), lMatch'[k].recs)

TakeAfterNo == prompt' = "no" /\ plLastMove' = plLastMove + 1
                 /\ lMatch'[plGame'].recs[plLastMove'].mt = "take"

(* While a human has the turn of a game in progress, records of the match are
   deleted only after he has agreed to it, CommandTake apart. *)
DiscardNeedsYes ==
    [][ms.gs = "playing" /\ PlayerType[ms.fTurn] = "human" /\ Discards
          => prompt' = "yes" \/ TakeAfterNo]_vars

(* "Continuing will destroy the remainder of the match. Continue?": after the
   answer no, the remainder of the match is there. *)
NoKeepsRecords == [][prompt' = "no" => UNCHANGED lMatch]_vars
=============================================================================
