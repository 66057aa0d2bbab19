-------------------------------- MODULE Match --------------------------------
(***************************************************************************)
(* Playing a match: the commands of play.c and NextTurn, acting on the     *)
(* match state, the list of games and the position in it.                  *)
(*                                                                         *)
(* The commands call one another, so each is a function from the program   *)
(* state s, a record of all the variables, to the state it leaves; an      *)
(* early return leaves s.  A handler whose outcome depends on dice, on the *)
(* evaluation or on the player gets that outcome as an argument, or is the *)
(* set of the states it may leave.  Each action then installs one of them. *)
(***************************************************************************)
EXTENDS MatchState

CONSTANTS
    PlayerType,     \* ap[].pt: "human" or "gnu" for each player
    AutoGame,       \* fAutoGame: start the next game without being asked
    AutoCrawford,   \* fAutoCrawford: set the Crawford game from the score
    AutoRoll,       \* fAutoRoll: roll for a human who cannot double
    AutoMove,       \* fAutoMove or fAutoBearoff: play forced moves
    ConfirmNew,     \* fConfirmNew: ask before discarding a game
    Display,        \* fDisplay: show the board after every turn
    CubeUse,        \* fCubeUse: the doubling cube is in use
    nBeavers,       \* the number of beavers and raccoons allowed
    cAutoDoubles    \* the number of automatic doubles allowed

CONSTANTS
    Lengths,              \* match lengths the user asks for; 0 is a session
    Results,              \* the GameStatus values a chequer play may lead to
    ResignArgs,           \* arguments of `resign'; 0 stands for nonsense
    ResolveFirst,         \* is a resignation answered before cube or resign?
    CommandsWhilePending  \* may a command arrive while fNextTurn is set?

ASSUME SettingsAssumption ==
    /\ PlayerType \in [Player -> {"human", "gnu"}]
    /\ {AutoGame, AutoCrawford, AutoRoll, AutoMove, ConfirmNew, Display,
        CubeUse, ResolveFirst, CommandsWhilePending} \subseteq BOOLEAN
    /\ nBeavers \in Nat /\ cAutoDoubles \in Nat
    /\ Lengths \subseteq Nat /\ Results \subseteq 0..3
    /\ ResignArgs \subseteq -1..3
    /\ \A a \in 0..cAutoDoubles : 2 ^ a \in CubeValues

VARIABLES
    ms,             \* the match state
    lMatch,         \* the list of games
    plGame,         \* the current game, an index of lMatch; 0 is NULL
    plLastMove,     \* the current record of plGame; 0 is its GAMEINFO
    fNextTurn,      \* TurnDone was called and NextTurn is still to run
    automaticTask,  \* the computer is playing both sides by itself
    aborted,        \* the assertion that failed, "no" while none has
    prompt          \* the answer the last step got to a yes/no question

vars == <<ms, lMatch, plGame, plLastMove, fNextTurn, automaticTask, aborted,
          prompt>>

cur == [ms |-> ms, lMatch |-> lMatch, plGame |-> plGame,
        plLastMove |-> plLastMove, fNextTurn |-> fNextTurn,
        automaticTask |-> automaticTask, aborted |-> aborted,
        prompt |-> "none"]

Install(t) ==
    /\ t # cur
    /\ ms' = t.ms
    /\ lMatch' = t.lMatch
    /\ plGame' = t.plGame
    /\ plLastMove' = t.plLastMove
    /\ fNextTurn' = t.fNextTurn
    /\ automaticTask' = t.automaticTask
    /\ aborted' = t.aborted
    /\ prompt' = t.prompt

-----------------------------------------------------------------------------
(* The record list. *)

Rec(mt, p, v) == [mt |-> mt, fPlayer |-> p, v |-> v]

move_is_last_in_match(s) ==
    s.plGame = 0 \/ s.plLastMove = Len(s.lMatch[s.plGame].recs)

(* GetInputYN and, before it, the cases in which it is not called. *)
Answer(s, ans) == [s EXCEPT !.prompt = IF ans THEN "yes" ELSE "no"]

move_not_last_in_match_ok(s, ans) ==
    IF s.automaticTask \/ move_is_last_in_match(s) THEN s ELSE Answer(s, ans)

Refused(s) == s.prompt = "no"

(* add_moverecord_sanity_check: the assertion record r fails, "no" if none. *)
add_moverecord_sanity_check(r) ==
    IF r.mt = "resign" /\ r.v \notin 1..3 THEN "resign range" ELSE "no"

gameinfo_sanity_check(g) ==
    IF \/ g.nMatch > 0 /\ g.i > 2 * g.nMatch + 1
       \/ g.nMatch > 0 /\ \E p \in Player : g.anScore[p] >= g.nMatch
    THEN "gameinfo score"
    ELSE IF ~g.fCrawford /\ g.fCrawfordGame THEN "gameinfo crawford"
    ELSE "no"

(* A play takes the place of the roll it plays, and of two consecutive
   records setting the same thing the second one stays. *)
Elides(r, old) ==
    /\ r.fPlayer = old.fPlayer
    /\ \/ r.mt = "normal" /\ old.mt = "setdice"
       \/ r.mt = old.mt /\ r.mt \in {"setboard", "setdice", "setcubeval",
                                     "setcubepos"}

(* Mutant of AddMoveRecord: plLastMove does not notice an elision. *)
AddMoveRecordCount(s, r) ==
    LET gm   == s.lMatch[s.plGame]
        kept == SubSeq(gm.recs, 1, s.plLastMove)
        base == IF kept # <<>> /\ Elides(r, Last(kept))
                THEN Front(kept) ELSE kept
        t    == ApplyMoveRecord(FixMatchState(s.ms, r), gm.info, r)
    IN  [s EXCEPT !.ms = t.ms, !.plLastMove = Len(kept) + 1,
                  !.lMatch = Append(SubSeq(@, 1, s.plGame - 1),
                                    [info |-> t.info, recs |-> Append(base, r)])]

(* Mutant of AddMoveRecord: the games that follow are not deleted. *)
AddMoveRecordTail(s, r) ==
    LET gm   == s.lMatch[s.plGame]
        kept == SubSeq(gm.recs, 1, s.plLastMove)
        base == IF kept # <<>> /\ Elides(r, Last(kept))
                THEN Front(kept) ELSE kept
        t    == ApplyMoveRecord(FixMatchState(s.ms, r), gm.info, r)
    IN  [s EXCEPT !.ms = t.ms, !.plLastMove = Len(base) + 1,
                  !.lMatch[s.plGame] = [info |-> t.info,
                                        recs |-> Append(base, r)]]

(***************************************************************************)
(* AddMoveRecord: the games after plGame and the records after plLastMove  *)
(* are deleted, then the record is applied and appended.                   *)
(***************************************************************************)
AddMoveRecord(s, r) ==
    LET gm   == s.lMatch[s.plGame]
        kept == SubSeq(gm.recs, 1, s.plLastMove)
        base == IF kept # <<>> /\ Elides(r, Last(kept))
                THEN Front(kept) ELSE kept
        t    == ApplyMoveRecord(FixMatchState(s.ms, r), gm.info, r)
        recs == Append(base, r)
    IN  IF add_moverecord_sanity_check(r) # "no"
        THEN [s EXCEPT !.aborted = add_moverecord_sanity_check(r)]
        ELSE [s EXCEPT !.ms = t.ms, !.plLastMove = Len(recs),
                       !.lMatch = Append(SubSeq(@, 1, s.plGame - 1),
                                         [info |-> t.info, recs |-> recs])]

LinkToDouble(s) ==
    /\ s.plGame # 0 /\ s.plLastMove # 0
    /\ s.lMatch[s.plGame].recs[s.plLastMove].mt = "double"

TurnDone(s) == IF s.aborted = "no" THEN [s EXCEPT !.fNextTurn = TRUE] ELSE s

(* The turn is a human's, or the computer is carrying out its decision. *)
MayAct(s, fComputerDecision) ==
    PlayerType[s.ms.fTurn] = "human" \/ fComputerDecision

Playing(s) == s.ms.gs = "playing"

-----------------------------------------------------------------------------
(* Resignations. *)

CommandAgree(s, fComputerDecision, ans) ==
    IF ~(Playing(s) /\ MayAct(s, fComputerDecision) /\ s.ms.fResigned # 0)
    THEN s
    ELSE LET q == move_not_last_in_match_ok(s, ans)
         IN  IF Refused(q) THEN q
             ELSE TurnDone(AddMoveRecord(q, Rec("resign", Other(s.ms.fTurn),
                                                s.ms.fResigned)))

(* Mutant of CommandDecline: the turn does not go back. *)
CommandDeclineTurn(s, fComputerDecision) ==
    IF ~(Playing(s) /\ MayAct(s, fComputerDecision) /\ s.ms.fResigned # 0)
    THEN s
    ELSE TurnDone([s EXCEPT !.ms.fResignationDeclined = s.ms.fResigned,
                            !.ms.fResigned = 0])

(* Mutant of CommandDecline: the cube that was on offer is taken back. *)
CommandDeclineDouble(s, fComputerDecision) ==
    IF ~(Playing(s) /\ MayAct(s, fComputerDecision) /\ s.ms.fResigned # 0)
    THEN s
    ELSE TurnDone([s EXCEPT !.ms.fResignationDeclined = s.ms.fResigned,
                            !.ms.fResigned = 0, !.ms.fDoubled = FALSE,
                            !.ms.fTurn = s.ms.fMove])

CommandDecline(s, fComputerDecision) ==
    IF ~(Playing(s) /\ MayAct(s, fComputerDecision) /\ s.ms.fResigned # 0)
    THEN s
    ELSE TurnDone([s EXCEPT !.ms.fResignationDeclined = s.ms.fResigned,
                            !.ms.fResigned = 0,
                            !.ms.fTurn = Other(@)])

(* Nonsense, and an offer the opponent has declined already, clear
   fResigned; a valid offer passes the decision to the opponent. *)
CommandResign(s, fComputerDecision, v) ==
    IF ~(Playing(s) /\ MayAct(s, fComputerDecision)) THEN s
    ELSE IF \/ v \notin {-1, 1, 2, 3}
            \/ v >= 0 /\ v <= s.ms.fResignationDeclined
    THEN [s EXCEPT !.ms.fResigned = 0]
    ELSE TurnDone([s EXCEPT !.ms.fResigned = v, !.ms.fTurn = Other(@)])

-----------------------------------------------------------------------------
(* The cube. *)

CommandRedouble(s, fComputerDecision, ans) ==
    IF ~(/\ s.ms.nMatchTo = 0
         /\ s.ms.cBeavers < nBeavers
         /\ Playing(s) /\ s.ms.fDoubled
         /\ MayAct(s, fComputerDecision)
         /\ s.ms.nCube < MAX_CUBE \div 2)
    THEN s
    ELSE LET q == move_not_last_in_match_ok(s, ans)
         IN  IF Refused(q) THEN q
             ELSE TurnDone(AddMoveRecord(
                    [q EXCEPT !.ms.fCubeOwner = Other(s.ms.fMove)],
                    Rec("double", s.ms.fTurn, 0)))

(* Mutant of CommandDouble: no Crawford rule. *)
CommandDoubleCrawford(s, fComputerDecision, ans) ==
    IF ~(/\ Playing(s) /\ MayAct(s, fComputerDecision) /\ CubeUse
         /\ s.ms.fTurn = s.ms.fMove /\ ~s.ms.dice /\ ~s.ms.fDoubled
         /\ s.ms.fCubeOwner \in {NoOne, s.ms.fTurn}
         /\ s.ms.nCube < MAX_CUBE)
    THEN s
    ELSE TurnDone(AddMoveRecord(s, Rec("double", s.ms.fTurn, 0)))

CommandDouble(s, fComputerDecision, ans) ==
    IF ~(Playing(s) /\ MayAct(s, fComputerDecision) /\ ~s.ms.fCrawford
         /\ CubeUse)
    THEN s
    ELSE LET q == move_not_last_in_match_ok(s, ans)
         IN  IF Refused(q) THEN q
             ELSE IF s.ms.fDoubled
             THEN CommandRedouble(q, fComputerDecision, ans)
             ELSE IF /\ s.ms.fTurn = s.ms.fMove
                     /\ ~s.ms.dice
                     /\ s.ms.fCubeOwner \in {NoOne, s.ms.fTurn}
                     /\ s.ms.nCube < MAX_CUBE
             THEN TurnDone(AddMoveRecord(q, Rec("double", s.ms.fTurn, 0)))
             ELSE q

CommandDrop(s, fComputerDecision, ans) ==
    IF ~(Playing(s) /\ s.ms.fDoubled /\ MayAct(s, fComputerDecision))
    THEN s
    ELSE LET q == move_not_last_in_match_ok(s, ans)
         IN  IF Refused(q) \/ ~LinkToDouble(q) THEN q
             ELSE TurnDone(AddMoveRecord(q, Rec("drop", s.ms.fTurn, 0)))

(* The body of the `if (!move_not_last_in_match_ok())' is the call that
   plays the sound: a refusal does not return. *)
CommandTake(s, fComputerDecision, ans) ==
    IF ~(Playing(s) /\ s.ms.fDoubled /\ MayAct(s, fComputerDecision))
    THEN s
    ELSE LET q == move_not_last_in_match_ok(s, ans)
         IN  IF ~LinkToDouble(q) THEN q
             ELSE TurnDone(AddMoveRecord(q, Rec("take", s.ms.fTurn, 0)))

CommandAccept(s, ans) ==
    IF s.ms.fResigned # 0 THEN CommandAgree(s, FALSE, ans)
    ELSE IF s.ms.fDoubled THEN CommandTake(s, FALSE, ans)
    ELSE s

CommandReject(s, ans) ==
    IF s.ms.fResigned # 0 THEN CommandDecline(s, FALSE)
    ELSE IF s.ms.fDoubled THEN CommandDrop(s, FALSE, ans)
    ELSE s

-----------------------------------------------------------------------------
(* Rolling and moving. *)

(* What GameStatus may say of the position a play leads to: nobody bears off
   all his chequers with the first play from the starting position. *)
PlayResults(m) == {0} \cup (IF m.side = NoOne THEN {} ELSE Results)

(* Mutant of CommandMove: it does not ask. *)
CommandMoveUnasked(s, ans, n) ==
    IF ~(Playing(s) /\ MayAct(s, FALSE) /\ s.ms.dice /\ s.ms.fResigned = 0
         /\ ~s.ms.fDoubled)
    THEN s
    ELSE TurnDone(AddMoveRecord(s, Rec("normal", s.ms.fTurn, n)))

CommandMove(s, ans, n) ==
    IF ~(Playing(s) /\ MayAct(s, FALSE) /\ s.ms.dice /\ s.ms.fResigned = 0
         /\ ~s.ms.fDoubled)
    THEN s
    ELSE LET q == move_not_last_in_match_ok(s, ans)
         IN  IF Refused(q) THEN q
             ELSE TurnDone(AddMoveRecord(q, Rec("normal", s.ms.fTurn, n)))

(* What follows a roll: the player has a choice of moves, or the roll is
   played for him, leading to GameStatus n: a dance (n = 0), or a forced
   move or bear-off if these are automatic. *)
Choice == -1
RollOutcomes(m) == {Choice} \cup (IF AutoMove THEN PlayResults(m) ELSE {0})

CommandRoll(s, ans, out) ==
    IF ~(Playing(s) /\ MayAct(s, FALSE) /\ ~s.ms.fDoubled
         /\ s.ms.fResigned = 0 /\ ~s.ms.dice)
    THEN s
    ELSE LET q == move_not_last_in_match_ok(s, ans)
             rolled == AddMoveRecord(q, Rec("setdice", s.ms.fTurn, 0))
         IN  IF Refused(q) THEN q
             ELSE IF out = Choice THEN rolled
             ELSE TurnDone(AddMoveRecord(rolled, Rec("normal", s.ms.fTurn,
                                                     out)))

-----------------------------------------------------------------------------
(* The computer's turn. *)

(* GetDPEq: the player on roll has a live cube to turn. *)
GetDPEq(m) ==
    /\ m.fCubeOwner \in {NoOne, m.fMove}
    /\ m.nMatchTo > 0 =>
          /\ ~m.fCrawford
          /\ m.anScore[m.fMove] + m.nCube < m.nMatchTo
          /\ m.anScore[m.fMove] # m.nMatchTo - 1

(* fResigned is the offered value, or -1 and the computer picks one. *)
AnswerResignation(s, ans) ==
    {CommandDecline(s, TRUE)}
      \cup {CommandAgree([s EXCEPT !.ms.fResigned = v], TRUE, ans) :
               v \in IF s.ms.fResigned = -1 THEN 1..3 ELSE {s.ms.fResigned}}

AnswerDouble(s, ans) ==
    {CommandTake(s, TRUE, ans), CommandDrop(s, TRUE, ans)}
      \cup IF /\ s.ms.cBeavers < nBeavers
              /\ s.ms.nMatchTo = 0
              /\ s.ms.nCube < MAX_CUBE \div 2
           THEN {CommandRedouble(s, TRUE, ans)} ELSE {}

OfferResignation(s) ==
    {CommandResign(s, TRUE, v) :
        v \in {n \in 1..3 : n > s.ms.fResignationDeclined}}

OfferDouble(s, ans) ==
    IF CubeUse /\ ~s.ms.dice /\ s.ms.nCube < MAX_CUBE /\ GetDPEq(s.ms)
    THEN {CommandDouble(s, TRUE, ans)} ELSE {}

(* The computer's dice go to ms only; its play adds a record, and does not
   ask whether the rest of the match may be deleted. *)
RollOrMove(s) ==
    IF ~s.ms.dice
    THEN {[s EXCEPT !.ms.dice = TRUE]}
    ELSE {AddMoveRecord(s, Rec("normal", s.ms.fTurn, n)) :
             n \in PlayResults(s.ms)}

ComputerTurn(s, ans) ==
    IF ~Playing(s) THEN {s}
    ELSE IF s.ms.fResigned # 0 THEN AnswerResignation(s, ans)
    ELSE IF s.ms.fDoubled THEN AnswerDouble(s, ans)
    ELSE OfferResignation(s) \cup OfferDouble(s, ans) \cup RollOrMove(s)

(* StartAutomaticPlay *)
StartAutomaticPlay(s) ==
    IF \A p \in Player : PlayerType[p] = "gnu"
    THEN [s EXCEPT !.automaticTask = TRUE] ELSE s

CommandPlay(s, ans) ==
    IF ~(Playing(s) /\ PlayerType[s.ms.fTurn] # "human") THEN {s}
    ELSE {TurnDone(t) : t \in ComputerTurn(StartAutomaticPlay(s), ans)}

-----------------------------------------------------------------------------
(* Starting games and matches. *)

NewGameInfo(m) ==
    [i |-> m.cGames, nMatch |-> m.nMatchTo, anScore |-> m.anScore,
     fCrawford |-> AutoCrawford /\ m.nMatchTo > 1,
     fCrawfordGame |-> m.fCrawford,
     fWinner |-> NoOne, nPoints |-> 0, nAutoDoubles |-> 0]

(* The automatic doubles the opening rolls may lead to.  ms.nCube is doubled
   inside the message that is printed only if fDisplay: without it the limit
   is never reached and one tie after the other is counted. *)
AutoDoubles(m) ==
    IF m.nMatchTo = 0 /\ CubeUse /\ cAutoDoubles > 0
    THEN 0..(IF Display THEN cAutoDoubles ELSE cAutoDoubles + 1) ELSE {0}

(* NewGame: player w wins the opening roll after a automatic doubles. *)
NewGame(s, w, a) ==
    LET g     == NewGameInfo(s.ms)
        m     == ApplyGameInfo(g)
        start == [s EXCEPT
                    !.lMatch = Append(@, [info |-> [g EXCEPT !.nAutoDoubles = a],
                                          recs |-> <<>>]),
                    !.plGame = Len(s.lMatch) + 1,
                    !.plLastMove = 0,
                    !.ms = [m EXCEPT !.nCube = IF Display THEN 2 ^ a ELSE @]]
    IN  IF gameinfo_sanity_check(g) # "no"
        THEN [s EXCEPT !.aborted = gameinfo_sanity_check(g)]
        ELSE AddMoveRecord(start, Rec("setdice", w, 0))

NewGames(s) == {NewGame(s, w, a) : w \in Player, a \in AutoDoubles(s.ms)}

StartNewGame(s, ans) ==
    UNION {IF n.aborted # "no" \/ PlayerType[n.ms.fTurn] = "human"
           THEN {n} ELSE {TurnDone(t) : t \in ComputerTurn(n, ans)} :
           n \in NewGames(s)}

(* Mutant of MatchOver: off by one. *)
MatchOverLate(m) == m.nMatchTo > 0 /\ \E p \in Player : m.anScore[p] > m.nMatchTo

MatchOver(m) == m.nMatchTo > 0 /\ \E p \in Player : m.anScore[p] >= m.nMatchTo

(* Mutant of PopGame: PopGame(plGame, FALSE), the current game stays. *)
PopGameExclusive(s) == [s EXCEPT !.lMatch = SubSeq(@, 1, s.plGame),
                                 !.plGame = 0, !.plLastMove = 0]

(* PopGame(plGame, TRUE): the current game and the games after it go. *)
PopGame(s) == [s EXCEPT !.lMatch = SubSeq(@, 1, s.plGame - 1),
                        !.plGame = 0, !.plLastMove = 0]

CommandNewGame(s, ans) ==
    IF MatchOver(s.ms) THEN {s}
    ELSE IF ~Playing(s) /\ move_is_last_in_match(s)
    THEN StartNewGame(StartAutomaticPlay(s), ans)
    ELSE LET q == IF ConfirmNew THEN Answer(s, ans) ELSE s
         IN  IF Refused(q) THEN {q}
             ELSE StartNewGame(StartAutomaticPlay(PopGame(q)), ans)

(* get_input_discard, without an autosave file. *)
get_input_discard(s, ans) ==
    IF Playing(s) /\ ConfirmNew THEN Answer(s, ans) ELSE s

(* FreeMatch and ClearMatch *)
ClearMatch(s) ==
    [s EXCEPT !.lMatch = <<>>, !.plGame = 0, !.plLastMove = 0,
              !.ms = [@ EXCEPT !.nMatchTo = 0, !.cGames = 0,
                               !.anScore = [p \in Player |-> 0],
                               !.fMove = NoOne, !.fTurn = NoOne,
                               !.fCrawford = FALSE, !.fPostCrawford = FALSE,
                               !.gs = "none"]]

(* CommandNewMatch, and CommandNewSession for n = 0. *)
CommandNewMatch(s, n, ans) ==
    LET q == get_input_discard(s, ans)
    IN  IF Refused(q) THEN {q}
        ELSE CommandNewGame([ClearMatch(q) EXCEPT !.ms.nMatchTo = n], ans)

-----------------------------------------------------------------------------
(* NextTurn. *)

(* Mutant of GameEnded: only the board is looked at. *)
GameEndedBoard(m) == m.st # 0

GameEnded(m) == m.st # 0 \/ m.gs \in {"drop", "resigned"}

(* Mutant of SetCrawfordFlags: fPostCrawford is not looked at. *)
SetCrawfordFlagsAgain(m, winner) ==
    IF m.nMatchTo > 0 /\ AutoCrawford
    THEN [m EXCEPT !.fPostCrawford = @ \/ m.fCrawford,
                   !.fCrawford = /\ ~m.fCrawford
                                 /\ m.anScore[winner] = m.nMatchTo - 1]
    ELSE m

(* The Crawford flags for the next game, from the score. *)
SetCrawfordFlags(m, winner) ==
    LET post  == m.fPostCrawford
                    \/ (m.fCrawford /\ m.anScore[winner] < m.nMatchTo)
        craw  == /\ ~post /\ ~m.fCrawford
                 /\ m.anScore[winner] = m.nMatchTo - 1
                 /\ m.anScore[Other(winner)] # m.nMatchTo - 1
    IN  IF m.nMatchTo > 0 /\ AutoCrawford
        THEN [m EXCEPT !.fPostCrawford = post, !.fCrawford = craw]
        ELSE m

(* A human who cannot double has the dice rolled for him. *)
MustRoll(m) ==
    /\ AutoRoll /\ ~m.dice /\ ~m.fDoubled /\ m.fResigned = 0
    /\ \/ ~CubeUse \/ m.fCrawford
       \/ m.fCubeOwner # NoOne /\ m.fCubeOwner # m.fTurn
       \/ m.nMatchTo > 0 /\ m.anScore[m.fTurn] + m.nCube >= m.nMatchTo

(* The part of NextTurn after the end of a game has been dealt with. *)
PlayNext(s, ans) ==
    IF s.aborted # "no" THEN {s}
    ELSE IF ~Playing(s) THEN {[s EXCEPT !.aborted = "nextturn playing"]}
    ELSE IF PlayerType[s.ms.fTurn] = "human"
    THEN IF MustRoll(s.ms) THEN {CommandRoll(s, ans, o) : o \in RollOutcomes(s.ms)}
                           ELSE {s}
    ELSE {TurnDone(t) : t \in ComputerTurn(s, ans)}

NextTurn(s0, ans) ==
    LET s == [s0 EXCEPT !.fNextTurn = FALSE]
        winner == s.lMatch[s.plGame].info.fWinner
        done == [s EXCEPT !.ms = SetCrawfordFlags(@, winner)]
        won  == s.ms.nMatchTo > 0 /\ s.ms.anScore[winner] >= s.ms.nMatchTo
    IN  IF s.plGame = 0 THEN {s}
        ELSE IF ~GameEnded(s.ms) THEN PlayNext(s, ans)
        ELSE IF won \/ ~AutoGame
        THEN {[done EXCEPT !.automaticTask = FALSE]}
        ELSE UNION {PlayNext(n, ans) : n \in NewGames(done)}

-----------------------------------------------------------------------------
(* The specification. *)

Init ==
    /\ ms = InitialMatchState
    /\ lMatch = <<>> /\ plGame = 0 /\ plLastMove = 0
    /\ fNextTurn = FALSE /\ automaticTask = FALSE
    /\ aborted = "no" /\ prompt = "none"

(* CommandRoll asks to `resolve the resignation first'; the cube commands,
   CommandResign and CommandNext do not: ResolveFirst is a user who does. *)
Resolved == ResolveFirst => ms.fResigned = 0

(* run_cl runs NextTurn until fNextTurn is clear before it reads the next
   command; the web page takes commands between two NextTurns. *)
CommandAllowed == aborted = "no" /\ (fNextTurn => CommandsWhilePending)

DoAgree    == /\ CommandAllowed
              /\ \E ans \in BOOLEAN : Install(CommandAgree(cur, FALSE, ans))
DoDecline  == CommandAllowed /\ Install(CommandDecline(cur, FALSE))
DoResign   == /\ CommandAllowed /\ Resolved
              /\ \E v \in ResignArgs : Install(CommandResign(cur, FALSE, v))
DoDouble   == /\ CommandAllowed /\ Resolved
              /\ \E ans \in BOOLEAN : Install(CommandDouble(cur, FALSE, ans))
DoRedouble == /\ CommandAllowed /\ Resolved
              /\ \E ans \in BOOLEAN : Install(CommandRedouble(cur, FALSE, ans))
DoTake     == /\ CommandAllowed /\ Resolved
              /\ \E ans \in BOOLEAN : Install(CommandTake(cur, FALSE, ans))
DoDrop     == /\ CommandAllowed /\ Resolved
              /\ \E ans \in BOOLEAN : Install(CommandDrop(cur, FALSE, ans))
DoAccept   == /\ CommandAllowed
              /\ \E ans \in BOOLEAN : Install(CommandAccept(cur, ans))
DoReject   == /\ CommandAllowed
              /\ \E ans \in BOOLEAN : Install(CommandReject(cur, ans))
DoRoll     == /\ CommandAllowed
              /\ \E ans \in BOOLEAN, o \in RollOutcomes(ms) :
                    Install(CommandRoll(cur, ans, o))
DoMove     == /\ CommandAllowed
              /\ \E ans \in BOOLEAN, n \in PlayResults(ms) :
                    Install(CommandMove(cur, ans, n))
DoPlay     == /\ CommandAllowed
              /\ \E ans \in BOOLEAN : \E t \in CommandPlay(cur, ans) : Install(t)
DoNewGame  == /\ CommandAllowed
              /\ \E ans \in BOOLEAN :
                    \E t \in CommandNewGame(cur, ans) : Install(t)
DoNewMatch == /\ CommandAllowed
              /\ \E ans \in BOOLEAN, n \in Lengths :
                    \E t \in CommandNewMatch(cur, n, ans) : Install(t)
DoNextTurn == /\ aborted = "no" /\ fNextTurn
              /\ \E ans \in BOOLEAN : \E t \in NextTurn(cur, ans) : Install(t)

PlayCommand ==
    \/ DoAgree \/ DoDecline \/ DoResign
    \/ DoDouble \/ DoRedouble \/ DoTake \/ DoDrop \/ DoAccept \/ DoReject
    \/ DoRoll \/ DoMove \/ DoPlay

Next == PlayCommand \/ DoNewGame \/ DoNewMatch \/ DoNextTurn

Spec == Init /\ [][Next]_vars

-----------------------------------------------------------------------------
(* Properties. *)

Ended(m) == m.gs \in {"over", "drop", "resigned"}

Assertions == {"no", "resign range", "gameinfo score", "gameinfo crawford",
               "nextturn playing"}

(* The variables have their types, and plGame and plLastMove point into the
   list of games. *)
TypeOK ==
    /\ ms \in MatchStates
    /\ lMatch \in Seq(Game)
    /\ plGame \in 0..Len(lMatch)
    /\ plLastMove \in Nat
    /\ plGame # 0 => plLastMove <= Len(lMatch[plGame].recs)
    /\ fNextTurn \in BOOLEAN /\ automaticTask \in BOOLEAN
    /\ aborted \in Assertions /\ prompt \in {"none", "yes", "no"}

(* The player who must answer a cube, else the player on roll: a double goes
   to the opponent, a beaver back to the doubler, a raccoon to the opponent. *)
Decider(m) == IF m.fDoubled /\ m.cBeavers % 2 = 0
              THEN Other(m.fMove) ELSE m.fMove

(* Throughout a game the turn is with the player who has a decision to make:
   the one on roll, the one who must answer the cube, or, while a resignation
   is offered, the opponent of the player who would otherwise decide.  This
   is what MayAct relies on in every command of play.c. *)
TurnWithDecider ==
    ms.gs = "playing" =>
        /\ ms.fMove \in Player
        /\ ms.fTurn = IF ms.fResigned = 0 THEN Decider(ms)
                                          ELSE Other(Decider(ms))

(* "We may get here in three different scenarios" (ComputerTurn): when the
   cube is to be answered it was offered by its owner or from the middle, or
   it is a beaver, or it is a raccoon. *)
CubeScenarios ==
    ms.gs = "playing" /\ ms.fDoubled /\ ms.fResigned = 0 =>
        \/ ms.fMove # ms.fTurn /\ ms.fCubeOwner \in {NoOne, ms.fMove}
        \/ ms.fMove = ms.fTurn /\ ms.fCubeOwner = Other(ms.fMove)
        \/ ms.fMove # ms.fTurn /\ ms.fCubeOwner = ms.fTurn

(* A cube that is offered can be taken without passing MAX_CUBE, however many
   beavers and raccoons came before; beavers stay within nBeavers, occur only
   in money play and are gone once the cube is answered. *)
CubeWithinLimits ==
    ms.gs = "playing" =>
        /\ ms.fDoubled => 2 * ms.nCube <= MAX_CUBE
        /\ ms.cBeavers <= nBeavers
        /\ ms.cBeavers > 0 => ms.fDoubled /\ ms.nMatchTo = 0

(* In the Crawford game the cube is never turned or offered. *)
CrawfordCubeless ==
    ms.gs = "playing" /\ ms.fCrawford =>
        ms.nCube = 1 /\ ms.fCubeOwner = NoOne /\ ~ms.fDoubled

(* The board always shows the player on roll in anBoard[1]: no sequence of
   doubles, beavers, resignations and plays leaves it turned the wrong way. *)
BoardShowsMover == ms.gs = "playing" => ms.side \in {NoOne, ms.fMove}

(* The score after the game described by GAMEINFO g. *)
ScoreAfter(g) == IF g.fWinner = NoOne THEN g.anScore
                 ELSE [g.anScore EXCEPT ![g.fWinner] = @ + g.nPoints]

(* The ledger: each game starts from the score and the number of games that
   the one before it ended with, and every game but the last has a winner. *)
ScoreChain ==
    \A k \in 1..(Len(lMatch) - 1) :
        LET g == lMatch[k].info  h == lMatch[k + 1].info
        IN  /\ g.fWinner # NoOne
            /\ h.anScore = ScoreAfter(g)
            /\ h.i = g.i + 1
            /\ h.nMatch = g.nMatch

(* Reference definition of the Crawford rule: game k of a match is played
   without the cube iff a player is one point short of the match for the
   first time. *)
OneAway(g) == \E p \in Player : g.anScore[p] = g.nMatch - 1
IsCrawfordGame(k) ==
    /\ k > 1 /\ OneAway(lMatch[k].info)
    /\ \A j \in 1..(k - 1) : ~OneAway(lMatch[j].info)

(* With `automatic crawford' on, exactly the Crawford game of a match is
   marked as one; NextTurn derives that from fCrawford, fPostCrawford and
   the winner's score alone. *)
CrawfordRule ==
    AutoCrawford =>
        \A k \in DOMAIN lMatch : lMatch[k].info.nMatch > 0 =>
            (lMatch[k].info.fCrawfordGame <=> IsCrawfordGame(k))

(* No assertion of add_moverecord_sanity_check or NextTurn fails: the games
   of a match stay below 2 * nMatch + 2, no game starts once the match is
   won, no game is a Crawford game while the rule is off, and NextTurn never
   finds the game neither over nor in progress. *)
NoAssertionFails == aborted = "no"

-----------------------------------------------------------------------------
(* What the match is to its players: see MatchRules.  Between games the cube
   is put away, whatever ms still says of it. *)
OnCube(v) == IF ms.gs = "playing" THEN v ELSE NoOne
Offered == ms.gs = "playing" /\ ms.fDoubled
Resigning == ms.gs = "playing" /\ ms.fResigned # 0

Rules == INSTANCE MatchRules WITH
    MaxCube <- MAX_CUBE, JacobyRule <- Jacoby, MaxAuto <- cAutoDoubles,
    length <- ms.nMatchTo, score <- ms.anScore, playing <- ms.gs = "playing",
    cube <- IF ms.gs = "playing" THEN ms.nCube ELSE 1,
    owner <- OnCube(ms.fCubeOwner),
    doubler <- IF Offered THEN ms.fMove ELSE NoOne,
    answerer <- IF Offered THEN Decider(ms) ELSE NoOne,
    resigner <- IF Resigning THEN Other(ms.fTurn) ELSE NoOne,
    stake <- IF Resigning THEN ms.fResigned ELSE 0,
    crawford <- ms.gs = "playing" /\ ms.fCrawford

(* The commands implement the rules of a match.  Every step of the program,
   whatever is typed, pending or answered, is a rule or invisible: points are
   only ever scored at the end of a game, for its winner, and as many as the
   cube and the accepted resignation say; the cube is turned only by an
   answer, and goes to the opponent of the player who first offered it; a
   resignation that is declined leaves the cube as it was. *)
ImplementsRules == Rules!RSpec
=============================================================================
