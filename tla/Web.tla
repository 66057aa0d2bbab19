--------------------------------- MODULE Web ---------------------------------
(***************************************************************************)
(* The page around the program (gnubg_web.html, graphics.js): a command    *)
(* runs at once, and whatever it leaves to be done, the computer's turn or *)
(* the next game, is done by timers that call doNextTurn.  A timer is set  *)
(* after every command and for every line of output that shows a board or  *)
(* offers a resignation; nothing else keeps the game going.  The same      *)
(* lines decide what the page shows and which buttons can be pressed.      *)
(*                                                                         *)
(* Every action is an action of Match together with the lines it prints.   *)
(***************************************************************************)
EXTENDS Match

CONSTANTS
    MaxTimers,         \* timers told apart; MaxTimers stands for "or more"
    MaxGames,          \* the user plays on only within these bounds ...
    MaxRecords,        \* ... on games and on records of a game
    Impatient          \* does the user type `play' before the page shows the
                       \* computer's turn, or `play' or `show board' while a
                       \* resignation is open?

ASSUME WebAssumption ==
    /\ MaxTimers \in Nat \ {0} /\ MaxGames \in Nat /\ MaxRecords \in Nat
    /\ Impatient \in BOOLEAN

VARIABLES
    timers,     \* the number of pending timers that call doNextTurn
    page        \* lastBoard, resignationOfferPending and the enabled buttons

wvars == <<vars, timers, page>>

Least(a, b) == IF a < b THEN a ELSE b

(* The fields of a `board:' line the page reads. *)
Shown(m) == [fMove |-> m.fMove, side |-> m.side, st |-> m.st, dice |-> m.dice,
             fDoubled |-> m.fDoubled, nCube |-> m.nCube,
             fCubeOwner |-> m.fCubeOwner, nMatchTo |-> m.nMatchTo,
             anScore |-> m.anScore, fCrawford |-> m.fCrawford]

(* The other line the page reads: "... offers to resign ...". *)
Offer == [offers |-> TRUE]

(* ShowBoard, if c says that it is called. *)
ShowBoard(c, m) == IF c /\ m.gs # "none" THEN <<Shown(m)>> ELSE <<>>

-----------------------------------------------------------------------------
(* The page. *)

(* The buttons drawBoard enables. *)
Buttons(b, resignationOffered) ==
    IF b.dice THEN {"resign"}
    ELSE IF b.fDoubled
    THEN {"accept", "reject"} \cup (IF b.nMatchTo > 0 THEN {} ELSE {"beaver"})
    ELSE IF resignationOffered THEN {"accept", "reject"}
    ELSE {"roll", "double", "resign"}

(* Mutant of updateBoard: the board after an offer is drawn. *)
updateBoardAlways(p, line) ==
    IF line = Offer
    THEN [p EXCEPT !.enabled = Buttons(p.board, TRUE)]
    ELSE [board |-> line, pending |-> FALSE, enabled |-> Buttons(line, FALSE)]

(* An offer is drawn on the last board, and the line that comes after it,
   whichever it is, is ignored. *)
updateBoard(p, line) ==
    IF p.pending THEN [p EXCEPT !.pending = FALSE]
    ELSE IF line = Offer
    THEN [p EXCEPT !.pending = TRUE, !.enabled = Buttons(p.board, TRUE)]
    ELSE [board |-> line, pending |-> FALSE, enabled |-> Buttons(line, FALSE)]

(* The page after all the lines. *)
Updated(p, lines) ==
    LET upto[k \in 0..Len(lines)] ==
          IF k = 0 THEN p ELSE updateBoard(upto[k - 1], lines[k])
    IN  upto[Len(lines)]

(* writeLog for each line: update the page and set a timer, with n timers
   already pending. *)
writeLog(lines, n) ==
    /\ page' = Updated(page, lines)
    /\ timers' = Least(n + Len(lines), MaxTimers)

(* Mutant of gnubgCommand: the command sets no timer of its own. *)
gnubgCommandUntimed(lines) == writeLog(lines, timers)

(* The command has run; gnubgCommand sets a timer after it. *)
gnubgCommand(lines) == writeLog(lines, timers + 1)

-----------------------------------------------------------------------------
(* What the program prints, from the match states before and after a step. *)

(* CommandResign *)
OfferLines(m, m2) ==
    IF Display /\ m.fResigned = 0 /\ m2.fResigned # 0 /\ m2.gs = "playing"
    THEN <<Offer>> ELSE <<>>

(* DiceRolled *)
RollLines(m) == ShowBoard(Display, [m EXCEPT !.dice = TRUE])

(* ComputerTurn offers a resignation, or shows its roll. *)
ComputerLines(m, m2) ==
    OfferLines(m, m2)
      \o ShowBoard(Display /\ ~m.dice /\ m2.dice /\ m2.gs = "playing", m2)

(* The match state NewGame leaves for the last game of l. *)
Opening(l) ==
    [ApplySetDice(ApplyGameInfo(Last(l).info),
                  Rec("setdice", Last(l).recs[1].fPlayer, 0))
       EXCEPT !.gs = "playing"]

(* NewGame calls DiceRolled and ShowBoard, its callers show a human's turn. *)
NewGameLines(m) ==
    RollLines(m) \o ShowBoard(TRUE, m)
      \o ShowBoard(PlayerType[m.fTurn] = "human", m)

(* StartNewGame: the computer may play its opening roll at once. *)
StartLines(l, m2) ==
    NewGameLines(Opening(l))
      \o IF PlayerType[Opening(l).fTurn] = "human" THEN <<>>
         ELSE ComputerLines(Opening(l), m2)

(* NextTurn from m to m2, with a new game in l if started. *)
NextTurnLines(m, m2, started, l) ==
    LET base  == IF started THEN Opening(l) ELSE m
        human == PlayerType[base.fTurn] = "human"
    IN  IF GameEnded(m) /\ ~started
        THEN ShowBoard(MatchOver(m), m2)
        ELSE (IF started THEN NewGameLines(base) ELSE <<>>)
               \o ShowBoard(Display \/ human, base)
               \o (IF ~human THEN ComputerLines(base, m2)
                   ELSE IF MustRoll(base) THEN RollLines(base) ELSE <<>>)

-----------------------------------------------------------------------------
WInit ==
    /\ Init
    /\ timers = 0
    /\ page = [board |-> Shown(InitialMatchState), pending |-> FALSE,
               enabled |-> {}]

WithinBounds == /\ Len(lMatch) <= MaxGames
                /\ \A k \in DOMAIN lMatch : Len(lMatch[k].recs) <= MaxRecords

(* getResignation looks at the position and not at the dice: what the
   computer did not offer before its roll it does not offer after it. *)
OffersBeforeRolling ==
    ms'.gs = "playing" /\ ms'.dice /\ ms'.fResigned # 0
        => PlayerType[Other(ms'.fTurn)] = "human"

(* Commands that print no board. *)
WebQuiet ==
    /\ WithinBounds
    /\ \/ DoAgree \/ DoDecline \/ DoDouble \/ DoRedouble \/ DoTake \/ DoDrop
       \/ DoAccept \/ DoReject \/ DoMove
    /\ gnubgCommand(<<>>)

WebResign == WithinBounds /\ DoResign /\ gnubgCommand(OfferLines(ms, ms'))

WebRoll == WithinBounds /\ DoRoll /\ gnubgCommand(RollLines(ms))

WebPlay == /\ Impatient \/ (/\ ms.fResigned = 0 /\ ~page.pending
                            /\ page.board = Shown(ms))
           /\ WithinBounds /\ DoPlay /\ OffersBeforeRolling
           /\ gnubgCommand(ComputerLines(ms, ms'))

WebNew == /\ DoNewMatch \/ (WithinBounds /\ DoNewGame)
          /\ OffersBeforeRolling
          /\ gnubgCommand(IF prompt' = "no" \/ aborted' # "no" THEN <<>>
                          ELSE StartLines(lMatch', ms'))

WebShowBoard == /\ Impatient \/ ms.fResigned = 0
                /\ UNCHANGED vars
                /\ gnubgCommand(ShowBoard(TRUE, ms))

(* A timer fires.  MaxTimers pending timers may be more than that. *)
Fired == IF timers < MaxTimers THEN {timers - 1} ELSE {timers - 1, timers}

(* Bound: past WithinBounds a human whose dice were rolled for him has a
   move to choose. *)
DanceWithinBounds ==
    WithinBounds \/ ms.gs # "playing" \/ PlayerType[ms.fTurn] = "gnu"
        \/ ~fNextTurn'

(* Mutant of doNextTurn: the timer is set again, and NextTurn not called. *)
doNextTurnPolls == timers > 0 /\ UNCHANGED <<vars, page, timers>>

doNextTurn ==
    /\ timers > 0
    /\ \/ /\ ~fNextTurn /\ timers' \in Fired
          /\ UNCHANGED <<vars, page>>
       \/ /\ DoNextTurn
          /\ DanceWithinBounds /\ OffersBeforeRolling
          /\ \E n \in Fired :
                writeLog(IF aborted' # "no" \/ plGame = 0 THEN <<>>
                         ELSE NextTurnLines(ms, ms',
                                            Len(lMatch') > Len(lMatch), lMatch'),
                         n)

WNext == \/ WebQuiet \/ WebResign \/ WebRoll \/ WebPlay \/ WebNew
         \/ WebShowBoard \/ doNextTurn

(* The browser runs the timers that are set.  Nothing is assumed of the
   user, who need not type anything. *)
WSpec == WInit /\ [][WNext]_wvars /\ WF_wvars(doNextTurn)

-----------------------------------------------------------------------------
GnuToPlay == ms.gs = "playing" /\ PlayerType[ms.fTurn] = "gnu"

(* Whatever is left to be done has a timer that will do it: the chain of
   boards printed and timers set never breaks while the computer plays. *)
TimerPending == fNextTurn => timers > 0

(* The computer always comes to the end of its turn, whatever the user does
   or does not do meanwhile: no NextTurn is forgotten by the page. *)
GnuPlays == GnuToPlay ~> ~GnuToPlay

(* The game is waiting for the user and no timer will change the page. *)
Waiting == timers = 0 /\ ~fNextTurn /\ ms.gs = "playing"

(* Page p shows the board of m and the buttons of the decision to be made. *)
Serves(p, m) ==
    /\ p.board = Shown(m)
    /\ m.fResigned # 0 \/ m.fDoubled
          => {"accept", "reject"} \subseteq p.enabled
    /\ m.fResigned = 0 /\ ~m.fDoubled
          => ("roll" \in p.enabled <=> ~m.dice)

(* When the page waits, it is the user's turn, it shows the board of ms, and
   the buttons are those of the decision he has to make, although the line
   after a resignation offer has been ignored. *)
PageServes == Waiting => ~GnuToPlay /\ Serves(page, ms)
=============================================================================
