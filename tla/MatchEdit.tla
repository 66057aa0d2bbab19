------------------------------ MODULE MatchEdit ------------------------------
(***************************************************************************)
(* Editing the match while it is played: the `set' commands for the board, *)
(* the dice, the cube, the turn, the score and the Crawford flags, `clear  *)
(* turn' and the loading of a match ID.  Some of them write a record, some *)
(* change ms and the GAMEINFO record, and some change ms alone.            *)
(*                                                                         *)
(* The positions the user sets have chequers of both players on the board. *)
(***************************************************************************)
EXTENDS MatchHistory

CONSTANTS
    Scores,        \* the numbers `set score' is called with; -n is n-away
    Marks,         \* what is written behind them: "none", "crawford" or
                   \* "postcrawford"
    IDs,           \* the match IDs the user loads, as MatchFromID reads them
    QuietEdits,    \* does the user edit only while no offer is open?
    FlagsInGame,   \* are the Crawford flags set only before a game is over?
    TurnRecorded   \* does the user edit the board or the cube only where the
                   \* records tell whose turn it is?

ASSUME EditAssumption ==
    /\ Scores \subseteq Int
    /\ Marks \subseteq {"none", "crawford", "postcrawford"}
    /\ {QuietEdits, FlagsInGame, TurnRecorded} \subseteq BOOLEAN

VARIABLE
    written   \* did the last command write a record?

evars == <<vars, written>>

-----------------------------------------------------------------------------
(* Edits that add a record. *)

(* AddMoveRecord for the edits, which are made for the player on roll. *)
SetRecord(s, mt, v) == AddMoveRecord(s, Rec(mt, s.ms.fMove, v))

CommandSetBoard(s) == IF Playing(s) THEN SetRecord(s, "setboard", 0) ELSE s

CommandSetDice(s) == IF Playing(s) THEN SetRecord(s, "setdice", 0) ELSE s

CheckCubeAllowed(s) == Playing(s) /\ ~s.ms.fCrawford /\ CubeUse

(* CommandSetCubeOwner, and CommandSetCubeCentre for NoOne. *)
CommandSetCubeOwner(s, p) ==
    IF CheckCubeAllowed(s) THEN SetRecord(s, "setcubepos", p) ELSE s

CommandSetCubeValue(s, n) ==
    IF CheckCubeAllowed(s) THEN SetRecord(s, "setcubeval", n) ELSE s

-----------------------------------------------------------------------------
(* Edits of ms. *)

(* Mutant of CommandSetTurn: the board is not turned. *)
CommandSetTurnOnly(s, i) ==
    IF Playing(s) /\ s.ms.fResigned = 0
    THEN [SetTurn(s, i) EXCEPT !.ms.side = s.ms.side] ELSE s

CommandSetTurn(s, i) ==
    IF Playing(s) /\ s.ms.fResigned = 0 THEN SetTurn(s, i) ELSE s

(* The last of the first n records that is not a roll or a double. *)
Settled(recs, n) ==
    LET kept == {k \in 1..n : recs[k].mt \notin {"double", "setdice"}}
    IN  IF kept = {} THEN 0 ELSE CHOOSE k \in kept : \A j \in kept : j <= k

(* Rolls and doubles are popped from the end of the game, and with them the
   rest of it. *)
CommandClearTurn(s, ans) ==
    IF ~Playing(s) \/ s.ms.fResigned # 0 THEN s
    ELSE LET q == move_not_last_in_match_ok(s, ans)
             n == Settled(s.lMatch[s.plGame].recs, s.plLastMove)
         IN  IF Refused(q) THEN q
             ELSE [q EXCEPT !.fNextTurn = FALSE, !.ms.dice = FALSE,
                            !.plLastMove = n,
                            !.lMatch[s.plGame].recs =
                                IF n = s.plLastMove THEN @ ELSE SubSeq(@, 1, n)]

(* The GAMEINFO record of the current game gets the Crawford flag of ms. *)
RecordCrawford(s) ==
    IF s.plGame = 0 THEN s
    ELSE [s EXCEPT !.lMatch[s.plGame].info.fCrawfordGame = s.ms.fCrawford]

(* CancelCubeAction, which leaves the turn where the double put it. *)
CancelCubeAction(m) == [m EXCEPT !.fDoubled = FALSE]

(* The score `set score' is asked for, from number n and mark k. *)
ScoreAsked(len, n, k) ==
    IF k # "none" THEN len - 1 ELSE IF n < 0 THEN n + len ELSE n

ScoreRefused(len, n, k, v) ==
    \/ \E p \in Player : k[p] # "none" /\ (len = 0 \/ n[p] \notin {-1, len - 1})
    \/ \A p \in Player : k[p] = "crawford"
    \/ \E p \in Player : k[p] = "crawford" /\ k[Other(p)] = "postcrawford"
    \/ \E p \in Player : k[p] = "postcrawford" /\ v[Other(p)] = 0
    \/ \E p \in Player : v[p] < 0
    \/ len > 0 /\ \A p \in Player : v[p] >= len
    \/ /\ \E p \in Player : k[p] = "crawford"
       /\ \E p \in Player : v[p] >= len

(* The flags that go with score v: cleared, set, or, if it may be the
   Crawford game and nothing is said of it, left alone. *)
CrawfordForScore(m, k, v) ==
    LET len  == m.nMatchTo
        near == {p \in Player : v[p] = len - 1}
        craw == IF \E p \in Player : v[p] >= len THEN FALSE
                ELSE \/ \E p \in Player : k[p] = "crawford" \/ v[p] = 0
                     \/ m.fCrawford
    IN  IF len = 0 THEN m
        ELSE IF near = {}
        THEN [m EXCEPT !.fCrawford = FALSE, !.fPostCrawford = FALSE]
        ELSE IF near = Player \/ \E p \in Player : k[p] = "postcrawford"
        THEN [m EXCEPT !.fCrawford = FALSE, !.fPostCrawford = len > 1]
        ELSE [m EXCEPT !.fCrawford = craw, !.fPostCrawford = ~craw]

(* Mutant of CommandSetScore: the GAMEINFO record keeps its Crawford flag. *)
CommandSetScoreOnly(s, n, k) ==
    LET v == [p \in Player |-> ScoreAsked(s.ms.nMatchTo, n[p], k[p])]
        t == [s EXCEPT !.ms = CrawfordForScore(
                 [CancelCubeAction(@) EXCEPT !.anScore = v], k, v)]
    IN  IF ScoreRefused(s.ms.nMatchTo, n, k, v) THEN s
        ELSE IF Ended(s.ms) \/ s.plGame = 0 THEN t
        ELSE [t EXCEPT !.lMatch[s.plGame].info.anScore = v]

CommandSetScore(s, n, k) ==
    LET v == [p \in Player |-> ScoreAsked(s.ms.nMatchTo, n[p], k[p])]
        t == [s EXCEPT !.ms = CrawfordForScore(
                 [CancelCubeAction(@) EXCEPT !.anScore = v], k, v)]
    IN  IF ScoreRefused(s.ms.nMatchTo, n, k, v) THEN s
        ELSE IF Ended(s.ms) \/ s.plGame = 0 THEN t
        ELSE RecordCrawford([t EXCEPT !.lMatch[s.plGame].info.anScore = v])

OneAwayNow(m) == m.nMatchTo > 0 /\ \E p \in Player : m.nMatchTo - m.anScore[p] = 1

SetFlags(s, craw) ==
    LET m == [s.ms EXCEPT !.fCrawford = craw, !.fPostCrawford = ~craw]
    IN  RecordCrawford([s EXCEPT !.ms = IF craw THEN CancelCubeAction(m) ELSE m])

(* At the wrong score the flag can be turned off, and on if it is on. *)
CommandSetCrawford(s, b) ==
    IF OneAwayNow(s.ms) THEN SetFlags(s, b)
    ELSE IF s.ms.nMatchTo > 0 /\ s.ms.fCrawford
    THEN [s EXCEPT !.ms.fCrawford = b] ELSE s

CommandSetPostCrawford(s, b) ==
    IF OneAwayNow(s.ms) THEN SetFlags(s, ~b) ELSE s

-----------------------------------------------------------------------------
(***************************************************************************)
(* SetMatchID: a match with a single game that starts where the ID says.   *)
(* id holds what MatchFromID decodes; an offered double is stepped back.   *)
(* The board of a game in progress is kept.                                *)
(***************************************************************************)
IDGameInfo(id, craw) ==
    [i |-> 0, nMatch |-> id.nMatchTo, anScore |-> id.anScore,
     fCrawford |-> AutoCrawford /\ id.nMatchTo > 1, fCrawfordGame |-> craw,
     fWinner |-> NoOne, nPoints |-> 0, nAutoDoubles |-> 0]

(* Mutant of IDTurn: the turn stays with the player who was doubled. *)
IDTurnLeft(id) == id.fTurn

(* The turn and the player on roll, once an offered double is stepped back. *)
IDTurn(id) == IF id.fDoubled THEN Other(id.fTurn) ELSE id.fTurn
IDMove(id) == IF id.fDoubled THEN Other(id.fTurn) ELSE id.fMove

SetMatchID(s, id) ==
    LET away  == \E p \in Player : id.anScore[p] = id.nMatchTo - 1
        g     == IDGameInfo(id, id.fCrawford /\ id.nMatchTo # 1 /\ away)
        start == [s EXCEPT
                    !.lMatch = <<[info |-> g, recs |-> <<>>]>>,
                    !.plGame = 1, !.plLastMove = 0,
                    !.ms = [ApplyGameInfo(g) EXCEPT
                              !.gs = id.gs, !.fTurn = IDTurn(id),
                              !.fMove = IDMove(id),
                              !.fResigned = id.fResigned]]
        dice  == IF id.dice THEN CommandSetDice(start) ELSE start
        owner == IF id.fCubeOwner = NoOne THEN dice
                 ELSE AddMoveRecord(dice, Rec("setcubepos", 0, id.fCubeOwner))
        cube  == IF id.nCube = 1 THEN owner
                 ELSE CommandSetCubeValue(owner, id.nCube)
    IN  IF gameinfo_sanity_check(g) # "no"
        THEN [s EXCEPT !.aborted = gameinfo_sanity_check(g)]
        ELSE IF Playing(s) THEN CommandSetBoard(cube) ELSE cube

-----------------------------------------------------------------------------
(* No cube and no resignation is waiting for an answer. *)
Settling == QuietEdits => ~ms.fDoubled /\ ms.fResigned = 0

EditAllowed == CommandAllowed /\ Settling

(* `set turn', a roll that is only shown and the start of a game leave a turn
   that the records up to here do not give. *)
TurnKnown ==
    TurnRecorded /\ Playing(cur) =>
        LET past == [lMatch[plGame] EXCEPT !.recs = SubSeq(@, 1, plLastMove)]
        IN  CalculateBoard(past, plLastMove).ms.fMove = ms.fMove

DoSetBoard == EditAllowed /\ TurnKnown /\ Install(CommandSetBoard(cur))
DoSetDice  == EditAllowed /\ Install(CommandSetDice(cur))
DoSetCubeOwner ==
    /\ EditAllowed /\ TurnKnown
    /\ \E p \in Player \cup {NoOne} : Install(CommandSetCubeOwner(cur, p))
DoSetCubeValue ==
    /\ EditAllowed /\ TurnKnown
    /\ \E n \in CubeValues : Install(CommandSetCubeValue(cur, n))
DoSetTurn ==
    EditAllowed /\ \E i \in Player : Install(CommandSetTurn(cur, i))
DoClearTurn ==
    EditAllowed /\ \E ans \in BOOLEAN : Install(CommandClearTurn(cur, ans))
DoSetScore ==
    /\ EditAllowed
    /\ \E n \in [Player -> Scores], k \in [Player -> Marks] :
          Install(CommandSetScore(cur, n, k))
FlagsAllowed == EditAllowed /\ (FlagsInGame => ~Ended(ms))

DoSetCrawford ==
    FlagsAllowed /\ \E b \in BOOLEAN : Install(CommandSetCrawford(cur, b))
DoSetPostCrawford ==
    FlagsAllowed /\ \E b \in BOOLEAN : Install(CommandSetPostCrawford(cur, b))
DoSetMatchID ==
    EditAllowed /\ \E id \in IDs : Install(SetMatchID(cur, id))

Edit ==
    \/ DoSetBoard \/ DoSetDice \/ DoSetCubeOwner \/ DoSetCubeValue
    \/ DoSetTurn \/ DoClearTurn \/ DoSetScore
    \/ DoSetCrawford \/ DoSetPostCrawford \/ DoSetMatchID

Writes ==
    /\ lMatch' # lMatch /\ plGame' # 0
    /\ plGame' # plGame
         \/ ~IsPrefix(lMatch'[plGame'].recs, lMatch[plGame].recs)

EInit == Init /\ written = FALSE

ENext == (HNext \/ Edit) /\ written' = Writes

ESpec == EInit /\ [][ENext]_evars

-----------------------------------------------------------------------------
(* A match that is edited can still be replayed: whatever the user has set,
   once a record is written, going back and forth gives the state of play.
   `set turn' and `clear turn' write none: the record of what the player does
   next stands for them (FixMatchState, the turn of a setdice record). *)
EditsReplay == written => ReplayAgrees

(* The Crawford flags of ms and the GAMEINFO record of the game in progress
   agree, however `set score', `set crawford' and `set postcrawford' are
   combined with play and navigation; so a replay does not bring a cube back
   into the Crawford game. *)
FlagsRecorded ==
    Playing(cur) /\ plGame # 0 =>
        /\ ms.fCrawford = lMatch[plGame].info.fCrawfordGame
        /\ ~(ms.fCrawford /\ ms.fPostCrawford)
=============================================================================
