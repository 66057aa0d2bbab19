----------------------------- MODULE MatchProofs -----------------------------
(***************************************************************************)
(* Proofs about Match: for every match length, cube limit, setting and     *)
(* kind of players, and for matches of any number of games and records.    *)
(* First the invariant of a match, and what it means to add one record:    *)
(* for each type of record the invariant holds afterwards and the players  *)
(* see a step that the rules of MatchRules allow.  Then one lemma per      *)
(* command: it leads from a state with the invariant to another one, and   *)
(* the players see a rule.                                                 *)
(***************************************************************************)
EXTENDS Match, TLAPS

(* A user who answers a resignation before he does anything else, and who
   leaves the value of a resignation open only if a computer can pick it. *)
CarefulUser ==
    /\ ResolveFirst
    /\ -1 \in ResignArgs => \E p \in Player : PlayerType[p] = "gnu"

States == [ms : MatchStates, lMatch : Seq(Game), plGame : Nat,
           plLastMove : Nat, fNextTurn : BOOLEAN, automaticTask : BOOLEAN,
           aborted : Assertions, prompt : {"none", "yes", "no"}]

-----------------------------------------------------------------------------
(* The inductive invariant, from the match state outwards. *)

(* A game in progress. *)
InGame(m) ==
    /\ m.fMove \in Player /\ m.st = 0 /\ m.side \in {NoOne, m.fMove}
    /\ m.fTurn = IF m.fResigned = 0 THEN Decider(m) ELSE Other(Decider(m))
    /\ m.fResigned = -1 => PlayerType[m.fTurn] = "gnu"
    /\ m.fDoubled => /\ m.nCube < MAX_CUBE
                     /\ ~m.fCrawford
                     /\ IF m.cBeavers = 0
                        THEN m.fCubeOwner \in {NoOne, m.fMove}
                        ELSE m.fCubeOwner = Other(m.fMove)
    /\ m.cBeavers <= nBeavers
    /\ m.cBeavers > 0 => m.fDoubled /\ m.nMatchTo = 0
    /\ m.fCrawford => m.nCube = 1 /\ m.fCubeOwner = NoOne

(* Every game is worth a point at least, so there are no more games than
   points: what bounds the number of games in the GAMEINFO assertion. *)
Sound(m) ==
    /\ m \in MatchStates
    /\ m.cGames <= m.anScore[0] + m.anScore[1]
    /\ m.fCrawford => AutoCrawford /\ m.nMatchTo > 1
    /\ m.gs = "over" => m.st # 0
    /\ m.gs = "playing" => InGame(m)

(* The score of ms is the one the GAMEINFO record g of the game implies. *)
Fits(m, g) ==
    /\ g \in GameInfo
    /\ g.nMatch > 0 => \A p \in Player : g.anScore[p] < g.nMatch
    /\ m.nMatchTo = g.nMatch
    /\ m.gs = "playing" => m.anScore = g.anScore /\ m.cGames = g.i
    /\ Ended(m) => /\ g.fWinner \in Player /\ g.nPoints >= 1
                   /\ m.anScore = ScoreAfter(g) /\ m.cGames = g.i + 1

(* Game h follows game g. *)
Follows(g, h) ==
    /\ g.fWinner # NoOne
    /\ h.anScore = ScoreAfter(g) /\ h.i = g.i + 1 /\ h.nMatch = g.nMatch

(* Two GAMEINFO records of one game, before and after it is won. *)
SameStart(g, h) ==
    /\ h.anScore = g.anScore /\ h.i = g.i /\ h.nMatch = g.nMatch
    /\ h.fCrawfordGame = g.fCrawfordGame

(* No record but the GAMEINFO record of the next game sets these. *)
SameFlags(m, n) ==
    n.fCrawford = m.fCrawford /\ n.fPostCrawford = m.fPostCrawford

Chained(l) == \A k \in 1..(Len(l) - 1) : Follows(l[k].info, l[k+1].info)

(* The record list: no game before the first `new' command, and play goes on
   in the last game from then on. *)
Placed(s) ==
    /\ Chained(s.lMatch)
    /\ IF s.plGame = 0
       THEN s.lMatch = <<>> /\ s.ms.gs = "none"
       ELSE /\ s.plGame = Len(s.lMatch)
            /\ s.plLastMove = Len(s.lMatch[s.plGame].recs)
            /\ s.ms.gs # "none"
            /\ Fits(s.ms, s.lMatch[s.plGame].info)

Good(s) == /\ s \in States
           /\ s.aborted = "no"
           /\ Sound(s.ms)
           /\ Placed(s)

MatchInv == Good(cur) /\ prompt \in {"none", "yes", "no"}

-----------------------------------------------------------------------------
(* The rules of MatchRules as relations between what the players see of two
   match states: the refinement mapping of Match, as a record. *)

View(m) ==
    LET on == m.gs = "playing"
        offered == on /\ m.fDoubled
        resigning == on /\ m.fResigned # 0
    IN  [length |-> m.nMatchTo, score |-> m.anScore, playing |-> on,
         crawford |-> on /\ m.fCrawford,
         cube |-> IF on THEN m.nCube ELSE 1,
         owner |-> IF on THEN m.fCubeOwner ELSE NoOne,
         doubler |-> IF offered THEN m.fMove ELSE NoOne,
         answerer |-> IF offered THEN Decider(m) ELSE NoOne,
         resigner |-> IF resigning THEN Other(m.fTurn) ELSE NoOne,
         stake |-> IF resigning THEN m.fResigned ELSE 0]

SameGame(v, w) == /\ w.length = v.length /\ w.score = v.score
                  /\ w.playing = v.playing /\ w.crawford = v.crawford
SameOffer(v, w) == w.resigner = v.resigner /\ w.stake = v.stake
SameDoubler(v, w) == w.doubler = v.doubler /\ w.answerer = v.answerer
SameCube(v, w) == w.cube = v.cube /\ w.owner = v.owner

VQuiet(v) == v.playing /\ v.resigner = NoOne

VDouble(v, w) ==
    /\ VQuiet(v) /\ v.doubler = NoOne /\ ~v.crawford /\ 2 * v.cube <= MAX_CUBE
    /\ \E p \in Player : /\ v.owner \in {NoOne, p}
                         /\ w.doubler = p /\ w.answerer = Other(p)
    /\ SameGame(v, w) /\ SameCube(v, w) /\ SameOffer(v, w)

VBeaver(v, w) ==
    /\ VQuiet(v) /\ v.doubler \in Player /\ v.length = 0
    /\ 4 * v.cube <= MAX_CUBE
    /\ w.cube = 2 * v.cube /\ w.owner = Other(v.doubler)
    /\ w.doubler = v.doubler /\ w.answerer = Other(v.answerer)
    /\ SameGame(v, w) /\ SameOffer(v, w)

VTake(v, w) ==
    /\ VQuiet(v) /\ v.doubler \in Player /\ 2 * v.cube <= MAX_CUBE
    /\ w.cube = 2 * v.cube /\ w.owner = Other(v.doubler)
    /\ w.doubler = NoOne /\ w.answerer = NoOne
    /\ SameGame(v, w) /\ SameOffer(v, w)

VGain(v, w, p, points) ==
    /\ w.length = v.length /\ w.score = [v.score EXCEPT ![p] = @ + points]
    /\ w.playing = FALSE /\ w.cube = 1 /\ w.owner = NoOne
    /\ w.doubler = NoOne /\ w.answerer = NoOne /\ w.crawford = FALSE
    /\ w.resigner = NoOne /\ w.stake = 0

VDrop(v, w) == /\ VQuiet(v) /\ v.doubler \in Player
               /\ VGain(v, w, Other(v.answerer), v.cube)

VWin(v, w) ==
    /\ VQuiet(v) /\ v.doubler = NoOne
    /\ \E p \in Player, n \in 1..3 :
          /\ Jacoby /\ v.length = 0 /\ v.owner = NoOne => n = 1
          /\ VGain(v, w, p, v.cube * n)

VOffer(v, w) ==
    /\ VQuiet(v)
    /\ \/ v.doubler = NoOne /\ w.resigner \in Player
       \/ v.doubler \in Player /\ w.resigner = v.answerer
    /\ w.stake \in {-1, 1, 2, 3}
    /\ SameGame(v, w) /\ SameCube(v, w) /\ SameDoubler(v, w)

VDecline(v, w) ==
    /\ v.playing /\ v.resigner \in Player
    /\ w.resigner = NoOne /\ w.stake = 0
    /\ SameGame(v, w) /\ SameCube(v, w) /\ SameDoubler(v, w)

VAccept(v, w) ==
    /\ v.playing /\ v.resigner \in Player
    /\ \E n \in 1..3 : /\ v.stake \in {-1, n}
                       /\ VGain(v, w, Other(v.resigner), v.cube * n)

OneShort(len, sc) ==
    len > 1 /\ \E p \in Player : sc[p] = len - 1 /\ sc[Other(p)] < len - 1

VStart(len, sc, w) ==
    /\ ~(len > 0 /\ \E p \in Player : sc[p] >= len)
    /\ w.length = len /\ w.score = sc /\ w.playing = TRUE
    /\ \E a \in IF len = 0 THEN 0..cAutoDoubles ELSE {0} : w.cube = 2 ^ a
    /\ w.owner = NoOne /\ w.doubler = NoOne /\ w.answerer = NoOne
    /\ \/ w.resigner = NoOne /\ w.stake = 0
       \/ w.resigner \in Player /\ w.stake \in {-1, 1, 2, 3}
    /\ w.crawford \in BOOLEAN
    /\ w.crawford => OneShort(len, sc)

VNewMatch(w) == w.length \in Nat /\ VStart(w.length, [p \in Player |-> 0], w)

Rule(v, w) ==
    \/ v = w
    \/ VStart(v.length, v.score, w) \/ VNewMatch(w)
    \/ VDouble(v, w) \/ VBeaver(v, w) \/ VTake(v, w) \/ VDrop(v, w)
    \/ VWin(v, w) \/ VOffer(v, w) \/ VDecline(v, w) \/ VAccept(v, w)

(* What the players see of the step from m to n is a rule, or nothing. *)
Sees(m, n) == Rule(View(m), View(n))

(* The view of a game in progress, and between games. *)
LEMMA ViewPlaying ==
    ASSUME NEW m \in MatchStates, m.gs = "playing"
    PROVE  LET v == View(m)
           IN  /\ v.length = m.nMatchTo /\ v.score = m.anScore
               /\ v.playing = TRUE /\ v.crawford = m.fCrawford
               /\ v.cube = m.nCube /\ v.owner = m.fCubeOwner
               /\ v.doubler = IF m.fDoubled THEN m.fMove ELSE NoOne
               /\ v.answerer = IF m.fDoubled THEN Decider(m) ELSE NoOne
               /\ v.resigner = IF m.fResigned # 0 THEN Other(m.fTurn) ELSE NoOne
               /\ v.stake = IF m.fResigned # 0 THEN m.fResigned ELSE 0
<1>1. m.fCrawford \in BOOLEAN
  BY DEF MatchStates
<1>2. QED
  BY <1>1 DEF View

(* Between games the players see the score and an empty table only. *)
LEMMA ViewEnded ==
    ASSUME NEW m, m.gs # "playing"
    PROVE  LET v == View(m)
           IN  /\ v.length = m.nMatchTo /\ v.score = m.anScore
               /\ v.playing = FALSE /\ v.crawford = FALSE
               /\ v.cube = 1 /\ v.owner = NoOne
               /\ v.doubler = NoOne /\ v.answerer = NoOne
               /\ v.resigner = NoOne /\ v.stake = 0
BY DEF View

-----------------------------------------------------------------------------
(* Applying one record. *)

(* What ApplyMoveRecord does before it looks at the type of the record. *)
Fresh(m) == [m EXCEPT !.gs = "playing", !.fResigned = 0,
                      !.fResignationDeclined = 0]

(* Players are distinct from NoOne, and Other is an involution on them. *)
LEMMA Players ==
    /\ \A p \in Player : Other(p) \in Player /\ Other(Other(p)) = p
    /\ \A p \in Player : Other(p) # p /\ p # NoOne
    /\ Player \subseteq Player \cup {NoOne} /\ NoOne \in Player \cup {NoOne}
BY DEF Player, Other, NoOne

(* A cube below the limit can be doubled. *)
LEMMA Doubling ==
    ASSUME NEW c \in CubeValues
    PROVE  /\ c \in Nat /\ c >= 1
           /\ c < MAX_CUBE => 2 * c \in CubeValues /\ 2 * c <= MAX_CUBE
           /\ c < MAX_CUBE \div 2 => 2 * c < MAX_CUBE /\ c < MAX_CUBE
<1>1. c \in 1..MAX_CUBE /\ MAX_CUBE \in Nat
  BY CubeAssumption
<1>2. c < MAX_CUBE => 2 * c \in CubeValues /\ 2 * c <= MAX_CUBE
  BY <1>1, CubeAssumption
<1>3. 2 * (MAX_CUBE \div 2) <= MAX_CUBE /\ MAX_CUBE \div 2 \in Int
  BY <1>1
<1>4. QED
  BY <1>1, <1>2, <1>3

(* A game is worth at least a point. *)
LEMMA Product ==
    ASSUME NEW a \in Nat, NEW b \in Nat, a >= 1, b >= 1
    PROVE  a * b \in Nat /\ a * b >= 1
OBVIOUS

(* Fresh changes no other field. *)
LEMMA FreshFields ==
    ASSUME NEW m \in MatchStates
    PROVE  /\ Fresh(m) \in MatchStates
           /\ Fresh(m).gs = "playing" /\ Fresh(m).fResigned = 0
           /\ Fresh(m).side = m.side /\ Fresh(m).st = m.st
           /\ Fresh(m).dice = m.dice
           /\ Fresh(m).fTurn = m.fTurn /\ Fresh(m).fMove = m.fMove
           /\ Fresh(m).fDoubled = m.fDoubled /\ Fresh(m).cGames = m.cGames
           /\ Fresh(m).fCubeOwner = m.fCubeOwner
           /\ Fresh(m).fCrawford = m.fCrawford
           /\ Fresh(m).fPostCrawford = m.fPostCrawford
           /\ Fresh(m).nMatchTo = m.nMatchTo
           /\ Fresh(m).anScore = m.anScore
           /\ Fresh(m).nCube = m.nCube /\ Fresh(m).cBeavers = m.cBeavers
<1>0. 0 \in -1..3 /\ "playing" \in GameState
  BY DEF GameState
<1>1. Fresh(m) \in MatchStates
  BY <1>0 DEF Fresh, MatchStates
<1>2. /\ Fresh(m).gs = "playing" /\ Fresh(m).fResigned = 0
      /\ Fresh(m).side = m.side /\ Fresh(m).st = m.st
      /\ Fresh(m).dice = m.dice
      /\ Fresh(m).fTurn = m.fTurn /\ Fresh(m).fMove = m.fMove
      /\ Fresh(m).fDoubled = m.fDoubled /\ Fresh(m).cGames = m.cGames
  BY DEF Fresh, MatchStates
<1>3. /\ Fresh(m).fCubeOwner = m.fCubeOwner
      /\ Fresh(m).fCrawford = m.fCrawford
      /\ Fresh(m).fPostCrawford = m.fPostCrawford
      /\ Fresh(m).nMatchTo = m.nMatchTo
      /\ Fresh(m).anScore = m.anScore
      /\ Fresh(m).nCube = m.nCube /\ Fresh(m).cBeavers = m.cBeavers
  BY DEF Fresh, MatchStates
<1>4. QED
  BY <1>1, <1>2, <1>3

(* The types of the parts of a match state. *)
LEMMA Fields ==
    ASSUME NEW m \in MatchStates
    PROVE  /\ m.nCube \in CubeValues /\ m.anScore \in [Player -> Nat]
           /\ m.nMatchTo \in Nat /\ m.cGames \in Nat /\ m.cBeavers \in Nat
           /\ m.st \in 0..3 /\ m.fResigned \in -1..3
           /\ m.fResignationDeclined \in -1..3
           /\ m.fMove \in Player \cup {NoOne}
           /\ m.fTurn \in Player \cup {NoOne}
           /\ m.fCubeOwner \in Player \cup {NoOne}
           /\ m.side \in Player \cup {NoOne}
           /\ m.gs \in GameState
           /\ m.fCrawford \in BOOLEAN /\ m.fDoubled \in BOOLEAN
           /\ m.dice \in BOOLEAN /\ m.fPostCrawford \in BOOLEAN
BY DEF MatchStates

(* AddMoveRecord fixes the match state for record r, then applies r. *)
Applied(m, g, r) == ApplyMoveRecord(FixMatchState(m, r), g, r)

(* Record r may be added in match state m of the game with GAMEINFO g: the
   invariant holds afterwards, and the game has the start and the Crawford
   flags it had. *)
Applies(m, g, r) ==
    LET t == Applied(m, g, r)
    IN  /\ Sound(t.ms) /\ Fits(t.ms, t.info) /\ SameStart(g, t.info)
        /\ SameFlags(m, t.ms) /\ t.ms.gs # "none"

(* Applies, for the result given as a record. *)
LEMMA AppliesTo ==
    ASSUME NEW m, NEW g, NEW r, NEW t, NEW h,
           Applied(m, g, r) = [ms |-> t, info |-> h],
           Sound(t), Fits(t, h), SameStart(g, h), SameFlags(m, t),
           t.gs # "none"
    PROVE  Applies(m, g, r)
BY DEF Applies

(* A double by the player on roll gives his opponent the turn. *)
LEMMA OfferApplies ==
    ASSUME NEW m, NEW g, Sound(m), Fits(m, g), m.gs = "playing",
           m.fResigned = 0, ~m.fDoubled, m.fTurn = m.fMove, ~m.fCrawford,
           m.fCubeOwner \in {NoOne, m.fTurn}, m.nCube < MAX_CUBE
    PROVE  LET r == Rec("double", m.fTurn, 0)
           IN  /\ Applies(m, g, r)
               /\ VDouble(View(m), View(Applied(m, g, r).ms))
<1> DEFINE r == Rec("double", m.fTurn, 0)
           f == Fresh(m)
           t == [f EXCEPT !.fDoubled = TRUE, !.fTurn = Other(m.fTurn)]
<1>1. m \in MatchStates /\ f \in MatchStates /\ InGame(m)
  BY FreshFields DEF Sound
<1>2. m.fMove \in Player /\ Other(m.fTurn) \in Player
  BY <1>1, Players DEF InGame
<1>3. r.mt = "double" /\ r.fPlayer = m.fTurn
  BY DEF Rec
<1>4. Applied(m, g, r) = [ms |-> ApplyDouble(f, r), info |-> g]
  BY <1>3 DEF Applied, FixMatchState, ApplyMoveRecord, Fresh
<1>5. ApplyDouble(f, r) = [[f EXCEPT !.fMove = m.fMove]
                             EXCEPT !.fDoubled = TRUE,
                                    !.fTurn = Other(m.fTurn)]
  <2>1. f.nCube = m.nCube /\ f.fMove = m.fMove /\ ~f.fDoubled
    BY <1>1, FreshFields
  <2>2. m.fMove # NoOne
    BY <1>2, Players
  <2>3. m.nCube \in Nat
    BY <1>1, Fields, Doubling
  <2>4. ~(m.nCube >= MAX_CUBE)
    BY <2>3, CubeAssumption
  <2>5. QED
    BY <2>1, <2>2, <2>4, <1>3 DEF ApplyDouble
<1>6. [f EXCEPT !.fMove = m.fMove] = f
  BY <1>1, FreshFields DEF MatchStates
<1>7. ApplyDouble(f, r) = t
  BY <1>5, <1>6
<1>8. t \in MatchStates
  BY <1>1, <1>2, ZenonT(20) DEF MatchStates
<1>9. /\ t.gs = "playing" /\ t.fResigned = 0 /\ t.fDoubled
      /\ t.side = m.side /\ t.st = m.st /\ t.fTurn = Other(m.fTurn)
      /\ t.fMove = m.fMove /\ t.cGames = m.cGames
      /\ t.fCubeOwner = m.fCubeOwner /\ t.fCrawford = m.fCrawford
      /\ t.nMatchTo = m.nMatchTo /\ t.anScore = m.anScore
      /\ t.nCube = m.nCube /\ t.cBeavers = m.cBeavers
      /\ t.fPostCrawford = m.fPostCrawford
  BY <1>1, FreshFields DEF MatchStates
<1> HIDE DEF t, f
<1>10. m.cBeavers = 0
  BY <1>1, Fields DEF InGame
<1>11. InGame(t)
  BY <1>1, <1>2, <1>9, <1>10 DEF InGame, Decider
<1>12. Sound(t)
  BY <1>8, <1>9, <1>11 DEF Sound
<1>13. Fits(t, g) /\ SameStart(g, g) /\ SameFlags(m, t)
  BY <1>9 DEF Fits, SameStart, SameFlags, Ended
<1>14. VDouble(View(m), View(t))
  <2>1. Decider(t) = Other(m.fMove) /\ m.fMove \in Player
    BY <1>2, <1>9, <1>10 DEF Decider
  <2>2. 2 * m.nCube <= MAX_CUBE
    BY <1>1, Fields, Doubling
  <2>3. QED
    BY <1>1, <1>8, <1>9, <2>1, <2>2, ViewPlaying
       DEF VDouble, VQuiet, SameGame, SameCube, SameOffer
<1>15. Applied(m, g, r) = [ms |-> t, info |-> g]
  BY <1>4, <1>7
<1>16. QED
  BY <1>9, <1>12, <1>13, <1>14, <1>15, AppliesTo

(* A beaver or raccoon by the player who must answer the cube: the cube goes
   up at once, the decision back to the other player, and it can still be
   taken.  CommandRedouble sets the owner before it adds the record. *)
LEMMA BeaverApplies ==
    ASSUME NEW m, NEW g, Sound(m), Fits(m, g), m.gs = "playing",
           m.fResigned = 0, m.fDoubled, m.nMatchTo = 0,
           m.cBeavers < nBeavers, m.nCube < MAX_CUBE \div 2
    PROVE  LET o == [m EXCEPT !.fCubeOwner = Other(m.fMove)]
               r == Rec("double", m.fTurn, 0)
           IN  /\ Applies(o, g, r) /\ SameFlags(m, o)
               /\ VBeaver(View(m), View(Applied(o, g, r).ms))
<1> DEFINE r == Rec("double", m.fTurn, 0)
           o == [m EXCEPT !.fCubeOwner = Other(m.fMove)]
           f == Fresh(o)
           t == [f EXCEPT !.cBeavers = m.cBeavers + 1,
                          !.nCube = 2 * m.nCube,
                          !.fCubeOwner = Other(m.fMove),
                          !.fTurn = Other(m.fTurn)]
<1>1. m \in MatchStates /\ InGame(m)
  BY DEF Sound
<1>2. /\ m.fMove \in Player /\ m.fTurn \in Player
      /\ Other(m.fMove) \in Player /\ Other(m.fTurn) \in Player
      /\ Other(m.fMove) \in Player \cup {NoOne}
      /\ Other(m.fTurn) \in Player \cup {NoOne}
  BY <1>1, Players DEF InGame, Decider
<1>3. o \in MatchStates
  BY <1>1, <1>2 DEF MatchStates
<1>4. /\ o.gs = m.gs /\ o.fResigned = m.fResigned /\ o.fDoubled = m.fDoubled
      /\ o.side = m.side /\ o.st = m.st /\ o.fTurn = m.fTurn
      /\ o.fMove = m.fMove /\ o.cGames = m.cGames
      /\ o.fCubeOwner = Other(m.fMove) /\ o.fCrawford = m.fCrawford
      /\ o.fPostCrawford = m.fPostCrawford
      /\ o.nMatchTo = m.nMatchTo /\ o.anScore = m.anScore
      /\ o.nCube = m.nCube /\ o.cBeavers = m.cBeavers
  BY <1>1 DEF MatchStates
<1>5. f \in MatchStates
  BY <1>3, FreshFields
<1>6. r.mt = "double" /\ r.fPlayer = m.fTurn
  BY DEF Rec
<1>7. FixMatchState(o, r) = o
  BY <1>4, <1>6 DEF FixMatchState
<1>8. Applied(o, g, r) = [ms |-> ApplyDouble(f, r), info |-> g]
  BY <1>6, <1>7 DEF Applied, ApplyMoveRecord, Fresh
<1>9. /\ m.nCube \in Nat /\ m.cBeavers \in Nat
      /\ 2 * m.nCube \in CubeValues /\ 2 * m.nCube < MAX_CUBE
      /\ m.nCube < MAX_CUBE /\ ~(m.nCube >= MAX_CUBE)
  <2>1. m.nCube \in CubeValues /\ m.cBeavers \in Nat
    BY <1>1, Fields
  <2>2. /\ m.nCube \in Nat /\ 2 * m.nCube \in CubeValues
        /\ 2 * m.nCube < MAX_CUBE /\ m.nCube < MAX_CUBE
    BY <2>1, Doubling
  <2>3. QED
    BY <2>1, <2>2, CubeAssumption
<1>10. /\ f.nCube = m.nCube /\ f.fMove = m.fMove /\ f.fDoubled
       /\ f.cBeavers = m.cBeavers
  BY <1>3, <1>4, FreshFields
<1>11. [f EXCEPT !.fMove = m.fMove] = f
  BY <1>5, <1>10 DEF MatchStates
<1>12. ApplyDouble(f, r) = t
  <2>1. m.fMove # NoOne
    BY <1>2, Players
  <2>2. QED
    BY <1>6, <1>9, <1>10, <1>11, <2>1 DEF ApplyDouble
<1>13. t \in MatchStates
  <2>1. m.cBeavers + 1 \in Nat
    BY <1>9
  <2>2. QED
    BY <1>2, <1>5, <1>9, <2>1 DEF MatchStates
<1>14. /\ t.gs = "playing" /\ t.fResigned = 0 /\ t.fDoubled
       /\ t.side = m.side /\ t.st = m.st /\ t.fTurn = Other(m.fTurn)
       /\ t.fMove = m.fMove /\ t.cGames = m.cGames
       /\ t.fCubeOwner = Other(m.fMove) /\ t.fCrawford = m.fCrawford
       /\ t.fPostCrawford = m.fPostCrawford
       /\ t.nMatchTo = m.nMatchTo /\ t.anScore = m.anScore
       /\ t.nCube = 2 * m.nCube /\ t.cBeavers = m.cBeavers + 1
  <2>1. /\ f.gs = "playing" /\ f.fResigned = 0
        /\ f.side = m.side /\ f.st = m.st /\ f.cGames = m.cGames
        /\ f.fCrawford = m.fCrawford
        /\ f.fPostCrawford = m.fPostCrawford
        /\ f.nMatchTo = m.nMatchTo /\ f.anScore = m.anScore
    BY <1>3, <1>4, FreshFields
  <2>2. QED
    BY <1>5, <1>10, <2>1 DEF MatchStates
<1> HIDE DEF t, f, o, r
<1>15. InGame(t) /\ Decider(t) = Other(m.fTurn) /\ m.fTurn = Decider(m)
  <2>1. /\ m.cBeavers % 2 = 0 => (m.cBeavers + 1) % 2 # 0
        /\ m.cBeavers % 2 # 0 => (m.cBeavers + 1) % 2 = 0
    BY <1>9
  <2>2. Decider(t) = Other(m.fTurn) /\ m.fTurn = Decider(m)
    BY <1>1, <1>2, <1>14, <2>1, Players DEF InGame, Decider
  <2>3. nBeavers \in Nat
    BY SettingsAssumption
  <2>4. QED
    BY <1>1, <1>2, <1>9, <1>14, <2>2, <2>3, Players DEF InGame
<1>16. Sound(t)
  BY <1>13, <1>14, <1>15 DEF Sound
<1>17. Fits(t, g) /\ SameStart(g, g) /\ SameFlags(m, o) /\ SameFlags(o, t)
  BY <1>4, <1>14 DEF Fits, SameStart, SameFlags, Ended
<1>18. Applies(o, g, r)
  BY <1>8, <1>12, <1>14, <1>16, <1>17, AppliesTo
<1>19. VBeaver(View(m), View(t))
  <2>1. 4 * m.nCube <= MAX_CUBE
    BY <1>9, Doubling
  <2>2. QED
    BY <1>1, <1>2, <1>13, <1>14, <1>15, <2>1, ViewPlaying
       DEF VBeaver, VQuiet, SameGame, SameOffer
<1>20. Applied(o, g, r).ms = t
  BY <1>8, <1>12
<1>21. QED
  BY <1>17, <1>18, <1>19, <1>20 DEF o, r

(* A take: the cube goes up once more and to the player who took it, and the
   player on roll has the turn. *)
LEMMA TakeApplies ==
    ASSUME NEW m, NEW g, Sound(m), Fits(m, g), m.gs = "playing",
           m.fResigned = 0, m.fDoubled
    PROVE  LET r == Rec("take", m.fTurn, 0)
           IN  /\ Applies(m, g, r)
               /\ VTake(View(m), View(Applied(m, g, r).ms))
<1> DEFINE r == Rec("take", m.fTurn, 0)
           f == Fresh(m)
           t == ApplyTake(f)
<1>1. m \in MatchStates /\ f \in MatchStates /\ InGame(m)
  BY FreshFields DEF Sound
<1>2. /\ m.fMove \in Player /\ Other(m.fMove) \in Player
      /\ m.fMove \in Player \cup {NoOne}
      /\ Other(m.fMove) \in Player \cup {NoOne}
  BY <1>1, Players DEF InGame
<1>3. r.mt = "take"
  BY DEF Rec
<1>4. f.fDoubled /\ f.fMove = m.fMove /\ f.nCube = m.nCube
  BY <1>1, FreshFields
<1>5. Applied(m, g, r) = [ms |-> t, info |-> g]
  BY <1>3, <1>4 DEF Applied, FixMatchState, ApplyMoveRecord, Fresh
<1>6. 2 * m.nCube \in CubeValues
  BY <1>1, Fields, Doubling DEF InGame
<1>7. t \in MatchStates
  <2> HIDE DEF f
  <2>1. t = [f EXCEPT !.nCube = 2 * m.nCube, !.cBeavers = 0,
                      !.fDoubled = FALSE, !.fCubeOwner = Other(m.fMove),
                      !.fTurn = m.fMove]
    BY <1>4 DEF ApplyTake
  <2>2. 0 \in Nat
    OBVIOUS
  <2>3. QED
    BY <1>1, <1>2, <1>6, <2>1, <2>2, ZenonT(40) DEF MatchStates
<1>8. /\ t.gs = "playing" /\ t.fResigned = 0 /\ ~t.fDoubled
      /\ t.side = m.side /\ t.st = m.st /\ t.fTurn = m.fMove
      /\ t.fMove = m.fMove /\ t.cGames = m.cGames
      /\ t.fCrawford = m.fCrawford /\ t.fPostCrawford = m.fPostCrawford
      /\ t.nMatchTo = m.nMatchTo /\ t.anScore = m.anScore
      /\ t.cBeavers = 0 /\ t.nCube = 2 * m.nCube
      /\ t.fCubeOwner = Other(m.fMove)
  BY <1>1, <1>4, FreshFields DEF ApplyTake, MatchStates
<1> HIDE DEF t, f
<1>9. InGame(t)
  BY <1>1, <1>8, SettingsAssumption DEF InGame, Decider
<1>10. Sound(t)
  BY <1>7, <1>8, <1>9 DEF Sound
<1>11. Fits(t, g) /\ SameStart(g, g) /\ SameFlags(m, t)
  BY <1>8 DEF Fits, SameStart, SameFlags, Ended
<1>12. VTake(View(m), View(t))
  <2>1. 2 * m.nCube <= MAX_CUBE
    BY <1>1, Fields, Doubling DEF InGame
  <2>2. QED
    BY <1>1, <1>2, <1>7, <1>8, <2>1, ViewPlaying
       DEF VTake, VQuiet, SameGame, SameOffer
<1>13. QED
  BY <1>5, <1>8, <1>10, <1>11, <1>12, AppliesTo

(* The end of a game in progress, with at least one point for the winner. *)
LEMMA GameOver ==
    ASSUME NEW m \in MatchStates, NEW g, Fits(m, g), m.gs = "playing",
           m.cGames <= m.anScore[0] + m.anScore[1],
           m.fCrawford => AutoCrawford /\ m.nMatchTo > 1,
           NEW gs \in {"over", "drop", "resigned"}, gs = "over" => m.st # 0,
           NEW w \in Player, NEW n \in Nat, n >= 1
    PROVE  LET t == ApplyGameOver(m, g, gs, w, n)
           IN  /\ Sound(t.ms) /\ Fits(t.ms, t.info) /\ SameStart(g, t.info)
               /\ SameFlags(m, t.ms) /\ t.ms.gs # "none"
               /\ \A v : v.length = m.nMatchTo /\ v.score = m.anScore
                         => VGain(v, View(t.ms), w, n)
<1> DEFINE sc == [m.anScore EXCEPT ![w] = @ + n]
           t == [m EXCEPT !.gs = gs, !.cGames = m.cGames + 1, !.anScore = sc]
           h == [g EXCEPT !.fWinner = w, !.nPoints = n]
<1>1. m.anScore \in [Player -> Nat] /\ m.cGames \in Nat
  BY Fields
<1>2. sc \in [Player -> Nat] /\ sc[w] = m.anScore[w] + n
  BY <1>1
<1>3. sc[0] + sc[1] = m.anScore[0] + m.anScore[1] + n
  BY <1>1 DEF Player
<1>4. gs \in GameState /\ m.cGames + 1 \in Nat
  BY <1>1 DEF GameState
<1> HIDE DEF sc
<1>5. t \in MatchStates
  BY <1>2, <1>4 DEF MatchStates
<1>6. /\ t.gs = gs /\ t.cGames = m.cGames + 1 /\ t.anScore = sc
      /\ t.fCrawford = m.fCrawford /\ t.nMatchTo = m.nMatchTo /\ t.st = m.st
      /\ t.fPostCrawford = m.fPostCrawford
  BY DEF MatchStates
<1>7. g \in GameInfo /\ w \in Player \cup {NoOne}
  BY DEF Fits
<1>8. h \in GameInfo
  BY <1>7 DEF GameInfo
<1>9. /\ h.fWinner = w /\ h.nPoints = n
      /\ h.anScore = g.anScore /\ h.i = g.i /\ h.nMatch = g.nMatch
      /\ h.fCrawfordGame = g.fCrawfordGame
  BY <1>7 DEF GameInfo
<1> HIDE DEF t, h
<1>10. Sound(t)
  <2>1. t.cGames <= t.anScore[0] + t.anScore[1]
    <3>1. m.anScore[0] \in Nat /\ m.anScore[1] \in Nat
      BY <1>1 DEF Player
    <3>2. QED
      BY <3>1, <1>1, <1>3, <1>6
  <2>2. QED
    BY <2>1, <1>5, <1>6 DEF Sound
<1>11. Fits(t, h)
  <2>1. ScoreAfter(h) = sc
    BY <1>9, Players DEF ScoreAfter, sc, Fits
  <2>2. QED
    BY <2>1, <1>6, <1>8, <1>9 DEF Fits, Ended
<1>12. SameStart(g, h) /\ SameFlags(m, t)
  BY <1>6, <1>9 DEF SameStart, SameFlags
<1>13. ApplyGameOver(m, g, gs, w, n) = [ms |-> t, info |-> h]
  BY DEF ApplyGameOver, t, h, sc
<1>14. \A v : v.length = m.nMatchTo /\ v.score = m.anScore
              => VGain(v, View(t), w, n)
  BY <1>6, ViewEnded DEF VGain, sc
<1>15. QED
  BY <1>6, <1>10, <1>11, <1>12, <1>13, <1>14

(* A drop ends the game. *)
LEMMA DropApplies ==
    ASSUME NEW m, NEW g, Sound(m), Fits(m, g), m.gs = "playing",
           m.fResigned = 0, m.fDoubled
    PROVE  LET r == Rec("drop", m.fTurn, 0)
           IN  /\ Applies(m, g, r)
               /\ VDrop(View(m), View(Applied(m, g, r).ms))
<1> DEFINE r == Rec("drop", m.fTurn, 0)
           f == Fresh(m)
           d == [f EXCEPT !.fDoubled = FALSE, !.cBeavers = 0]
           t == ApplyGameOver(d, g, "drop", Other(m.fTurn), m.nCube)
<1>1. m \in MatchStates /\ f \in MatchStates /\ InGame(m)
  BY FreshFields DEF Sound
<1>2. r.mt = "drop" /\ r.fPlayer = m.fTurn /\ f.fDoubled /\ f.nCube = m.nCube
  BY <1>1, FreshFields DEF Rec
<1>3. Applied(m, g, r) = t
  BY <1>2 DEF Applied, FixMatchState, ApplyMoveRecord, ApplyDrop, Fresh
<1>4. d \in MatchStates
  BY <1>1 DEF MatchStates
<1>5. /\ d.gs = "playing" /\ d.cGames = m.cGames /\ d.anScore = m.anScore
      /\ d.fCrawford = m.fCrawford /\ d.nMatchTo = m.nMatchTo
      /\ d.fPostCrawford = m.fPostCrawford
  BY <1>1, FreshFields DEF MatchStates
<1>6. Other(m.fTurn) \in Player
  BY <1>1, Players DEF InGame, Decider
<1>7. m.nCube \in Nat /\ m.nCube >= 1
  BY <1>1, Fields, Doubling
<1> HIDE DEF d
<1>8. Fits(d, g)
  BY <1>5 DEF Fits, Ended
<1>9. /\ Sound(t.ms) /\ Fits(t.ms, t.info) /\ SameStart(g, t.info)
      /\ SameFlags(d, t.ms) /\ t.ms.gs # "none"
      /\ \A v : v.length = m.nMatchTo /\ v.score = m.anScore
                => VGain(v, View(t.ms), Other(m.fTurn), m.nCube)
  BY <1>4, <1>5, <1>6, <1>7, <1>8, GameOver DEF Sound
<1>10. Applies(m, g, r)
  BY <1>3, <1>5, <1>9 DEF Applies, SameFlags
<1> HIDE DEF t
<1>11. VDrop(View(m), View(t.ms))
  <2>1. m.fMove \in Player /\ m.fTurn = Decider(m)
    BY <1>1 DEF InGame
  <2>2. /\ View(m).length = m.nMatchTo /\ View(m).score = m.anScore
        /\ View(m).doubler = m.fMove /\ View(m).answerer = m.fTurn
        /\ View(m).cube = m.nCube /\ VQuiet(View(m))
    BY <1>1, <2>1, ViewPlaying DEF VQuiet
  <2>3. QED
    BY <1>9, <2>1, <2>2 DEF VDrop
<1>12. QED
  BY <1>3, <1>10, <1>11

(* A resignation that was agreed to ends the game. *)
LEMMA ResignApplies ==
    ASSUME NEW m, NEW g, Sound(m), Fits(m, g), m.gs = "playing",
           NEW v \in 1..3
    PROVE  LET r == Rec("resign", Other(m.fTurn), v)
           IN  /\ Applies(m, g, r)
               /\ m.fResigned \in {-1, v} =>
                     VAccept(View(m), View(Applied(m, g, r).ms))
<1> DEFINE r == Rec("resign", Other(m.fTurn), v)
           f == Fresh(m)
           d == [f EXCEPT !.fResigned = v]
           t == ApplyGameOver(d, g, "resigned", m.fTurn, m.nCube * v)
<1>1. m \in MatchStates /\ f \in MatchStates /\ InGame(m)
  BY FreshFields DEF Sound
<1>2. m.fTurn \in Player /\ Other(Other(m.fTurn)) = m.fTurn
  BY <1>1, Players DEF InGame, Decider
<1>3. /\ r.mt = "resign" /\ r.fPlayer = Other(m.fTurn) /\ r.v = v
      /\ f.nCube = m.nCube
  BY <1>1, FreshFields DEF Rec
<1>4. Applied(m, g, r) = t
  BY <1>2, <1>3 DEF Applied, FixMatchState, ApplyMoveRecord, ApplyResign, Fresh
<1>5. d \in MatchStates
  <2>1. v \in -1..3
    OBVIOUS
  <2>2. QED
    BY <1>1, <2>1 DEF MatchStates
<1>6. /\ d.gs = "playing" /\ d.cGames = m.cGames /\ d.anScore = m.anScore
      /\ d.fCrawford = m.fCrawford /\ d.nMatchTo = m.nMatchTo
      /\ d.fPostCrawford = m.fPostCrawford
  BY <1>1, FreshFields DEF MatchStates
<1>7. m.nCube * v \in Nat /\ m.nCube * v >= 1
  <2>1. m.nCube \in Nat /\ m.nCube >= 1
    BY <1>1, Fields, Doubling
  <2>2. v \in Nat /\ v >= 1
    OBVIOUS
  <2>3. QED
    BY <2>1, <2>2, Product
<1> HIDE DEF d
<1>8. Fits(d, g)
  BY <1>6 DEF Fits, Ended
<1>9. /\ Sound(t.ms) /\ Fits(t.ms, t.info) /\ SameStart(g, t.info)
      /\ SameFlags(d, t.ms) /\ t.ms.gs # "none"
      /\ \A w : w.length = m.nMatchTo /\ w.score = m.anScore
                => VGain(w, View(t.ms), m.fTurn, m.nCube * v)
  BY <1>2, <1>5, <1>6, <1>7, <1>8, GameOver DEF Sound
<1>10. Applies(m, g, r)
  BY <1>4, <1>6, <1>9 DEF Applies, SameFlags
<1> HIDE DEF t
<1>11. m.fResigned \in {-1, v} => VAccept(View(m), View(t.ms))
  <2>1. SUFFICES ASSUME m.fResigned \in {-1, v}
                 PROVE  VAccept(View(m), View(t.ms))
    OBVIOUS
  <2>2. m.fResigned # 0 /\ Other(m.fTurn) \in Player
    BY <1>2, <2>1, Players
  <2>3. /\ View(m).length = m.nMatchTo /\ View(m).score = m.anScore
        /\ View(m).resigner = Other(m.fTurn) /\ View(m).stake = m.fResigned
        /\ View(m).cube = m.nCube /\ View(m).playing = TRUE
    BY <1>1, <2>2, ViewPlaying
  <2>4. QED
    BY <1>2, <1>9, <2>1, <2>2, <2>3 DEF VAccept
<1>12. QED
  BY <1>4, <1>10, <1>11

(* A chequer play by the player on roll passes the turn and turns the board,
   or ends the game. *)
LEMMA NormalApplies ==
    ASSUME NEW m, NEW g, Sound(m), Fits(m, g), m.gs = "playing",
           m.fResigned = 0, ~m.fDoubled, NEW n \in 0..3
    PROVE  LET r == Rec("normal", m.fTurn, n)
               t == Applied(m, g, r).ms
           IN  /\ Applies(m, g, r)
               /\ n = 0 => View(t) = View(m) /\ t.gs = "playing"
               /\ n # 0 => VWin(View(m), View(t))
<1> DEFINE r == Rec("normal", m.fTurn, n)
           f == Fresh(m)
           p == Other(m.fTurn)
           t == [f EXCEPT !.fDoubled = FALSE, !.side = p, !.st = n,
                          !.fMove = p, !.fTurn = p, !.dice = FALSE]
<1>1. m \in MatchStates /\ f \in MatchStates /\ InGame(m)
  BY FreshFields DEF Sound
<1>2. /\ m.fTurn = m.fMove /\ m.fTurn \in Player /\ p \in Player
      /\ p \in Player \cup {NoOne} /\ m.cBeavers = 0
  BY <1>1, Players, Fields DEF InGame, Decider
<1>3. /\ r.mt = "normal" /\ r.fPlayer = m.fTurn /\ r.v = n
      /\ f.fMove = m.fMove /\ f.side = m.side
  BY <1>1, FreshFields DEF Rec
<1>4. Applied(m, g, r) = ApplyNormal(f, g, r)
  BY <1>3 DEF Applied, FixMatchState, ApplyMoveRecord, Fresh
<1>5. [PlayMove([f EXCEPT !.fDoubled = FALSE], r) EXCEPT !.dice = FALSE] = t
  <2> DEFINE e == [f EXCEPT !.fDoubled = FALSE]
  <2>1. e \in MatchStates /\ e.fMove = m.fMove /\ e.side = m.side
    BY <1>1, <1>3, ZenonT(20) DEF MatchStates
  <2> HIDE DEF e
  <2>2. PlayMove(e, r) = [e EXCEPT !.side = p, !.st = n, !.fMove = p,
                                   !.fTurn = p]
    BY <1>1, <1>2, <1>3, <2>1 DEF PlayMove, InGame
  <2>3. QED
    BY <1>1, <2>2 DEF e, MatchStates
<1>6. t \in MatchStates
  BY <1>1, <1>2 DEF MatchStates
<1>7. /\ t.gs = "playing" /\ t.fResigned = 0 /\ ~t.fDoubled
      /\ t.side = p /\ t.st = n /\ t.fTurn = p /\ t.fMove = p
      /\ t.cGames = m.cGames /\ t.fCubeOwner = m.fCubeOwner
      /\ t.fCrawford = m.fCrawford /\ t.nMatchTo = m.nMatchTo
      /\ t.fPostCrawford = m.fPostCrawford
      /\ t.anScore = m.anScore /\ t.nCube = m.nCube /\ t.cBeavers = 0
  BY <1>1, <1>2, FreshFields DEF MatchStates
<1> HIDE DEF t, f
<1>8. Fits(t, g) /\ SameFlags(m, t)
  BY <1>7 DEF Fits, SameFlags, Ended
<1>9. CASE n = 0
  <2>1. InGame(t)
    BY <1>1, <1>2, <1>7, <1>9, SettingsAssumption DEF InGame, Decider
  <2>2. Sound(t)
    BY <1>6, <1>7, <2>1 DEF Sound
  <2>3. Applied(m, g, r) = [ms |-> t, info |-> g]
    BY <1>4, <1>5, <1>7, <1>9 DEF ApplyNormal
  <2>4. SameStart(g, g)
    BY DEF SameStart
  <2>5. View(t) = View(m)
    BY <1>1, <1>7 DEF View, MatchStates
  <2>6. QED
    BY <1>7, <1>8, <1>9, <2>2, <2>3, <2>4, <2>5, AppliesTo
<1>10. CASE n # 0
  <2> DEFINE k == GameValue(t, n)
             o == ApplyGameOver(t, g, "over", m.fTurn, m.nCube * k)
  <2>1. Applied(m, g, r) = o
    BY <1>3, <1>4, <1>5, <1>7, <1>10 DEF ApplyNormal
  <2>2. m.nCube \in Nat /\ m.nCube >= 1
    BY <1>1, Fields, Doubling
  <2>3. k \in Nat /\ k >= 1 /\ k \in 1..3
    BY <1>10 DEF GameValue
  <2>4. m.nCube * k \in Nat /\ m.nCube * k >= 1
    BY <2>2, <2>3, Product
  <2>5. Jacoby /\ m.nMatchTo = 0 /\ m.fCubeOwner = NoOne => k = 1
    BY <1>7 DEF GameValue
  <2> HIDE DEF k
  <2>6. /\ Sound(o.ms) /\ Fits(o.ms, o.info) /\ SameStart(g, o.info)
        /\ SameFlags(t, o.ms) /\ o.ms.gs # "none"
        /\ \A v : v.length = m.nMatchTo /\ v.score = m.anScore
                  => VGain(v, View(o.ms), m.fTurn, m.nCube * k)
    BY <1>2, <1>6, <1>7, <1>8, <1>10, <2>4, GameOver DEF Sound
  <2>7. Applies(m, g, r)
    BY <1>8, <2>1, <2>6 DEF Applies, SameFlags
  <2> HIDE DEF o
  <2>8. VWin(View(m), View(o.ms))
    <3>1. /\ View(m).length = m.nMatchTo /\ View(m).score = m.anScore
          /\ View(m).doubler = NoOne /\ VQuiet(View(m))
          /\ View(m).cube = m.nCube /\ View(m).owner = m.fCubeOwner
      BY <1>1, ViewPlaying DEF VQuiet
    <3>2. QED
      BY <1>2, <2>3, <2>5, <2>6, <3>1 DEF VWin
  <2>9. QED
    BY <1>10, <2>1, <2>7, <2>8
<1>11. QED
  BY <1>9, <1>10

(* A roll by the player on roll. *)
LEMMA RollApplies ==
    ASSUME NEW m, NEW g, Sound(m), Fits(m, g), m.gs = "playing",
           m.fResigned = 0, ~m.fDoubled
    PROVE  LET r == Rec("setdice", m.fTurn, 0)
               t == Applied(m, g, r).ms
           IN  /\ Applies(m, g, r)
               /\ t.gs = "playing" /\ t.fResigned = 0 /\ ~t.fDoubled
               /\ t.fTurn = m.fTurn /\ View(t) = View(m)
<1> DEFINE r == Rec("setdice", m.fTurn, 0)
           f == Fresh(m)
           t == ApplySetDice(f, r)
<1>1. m \in MatchStates /\ f \in MatchStates /\ InGame(m)
  BY FreshFields DEF Sound
<1>2. /\ m.fTurn = m.fMove /\ m.fTurn \in Player
      /\ m.fTurn \in Player \cup {NoOne} /\ m.cBeavers = 0
  BY <1>1, Players, Fields DEF InGame, Decider
<1>3. /\ r.mt = "setdice" /\ r.fPlayer = m.fTurn
      /\ f.fMove = m.fMove /\ f.side = m.side
  BY <1>1, FreshFields DEF Rec
<1>4. Applied(m, g, r) = [ms |-> t, info |-> g]
  BY <1>3 DEF Applied, FixMatchState, ApplyMoveRecord, Fresh
<1>5. t \in MatchStates
  <2>1. (IF f.fMove # r.fPlayer THEN SwapSides(f.side) ELSE f.side) = f.side
    BY <1>2, <1>3
  <2>2. f.side \in Player \cup {NoOne}
    BY <1>1, Fields
  <2>3. QED
    BY <1>1, <1>2, <1>3, <2>1, <2>2, ZenonT(20) DEF ApplySetDice, MatchStates
<1>6. /\ t.gs = "playing" /\ t.fResigned = 0 /\ ~t.fDoubled
      /\ t.side = m.side /\ t.st = m.st /\ t.fTurn = m.fTurn
      /\ t.fMove = m.fTurn
      /\ t.cGames = m.cGames /\ t.fCubeOwner = m.fCubeOwner
      /\ t.fCrawford = m.fCrawford /\ t.nMatchTo = m.nMatchTo
      /\ t.fPostCrawford = m.fPostCrawford
      /\ t.anScore = m.anScore /\ t.nCube = m.nCube /\ t.cBeavers = 0
  BY <1>1, <1>2, <1>3, FreshFields DEF ApplySetDice, MatchStates
<1> HIDE DEF t, f
<1>7. InGame(t)
  BY <1>1, <1>2, <1>6, SettingsAssumption DEF InGame, Decider
<1>8. Sound(t)
  BY <1>5, <1>6, <1>7 DEF Sound
<1>9. Fits(t, g) /\ SameStart(g, g) /\ SameFlags(m, t)
  BY <1>6 DEF Fits, SameStart, SameFlags, Ended
<1>10. Applies(m, g, r)
  BY <1>4, <1>6, <1>8, <1>9, AppliesTo
<1>11. View(t) = View(m)
  BY <1>1, <1>6 DEF View, MatchStates
<1>12. QED
  BY <1>4, <1>6, <1>10, <1>11

(* No match is won yet. *)
Unwon(m) == m.nMatchTo > 0 => \A p \in Player : m.anScore[p] < m.nMatchTo

(* What NewGame puts into ms and into the list before the first roll. *)
OpeningInfo(m, a) == [NewGameInfo(m) EXCEPT !.nAutoDoubles = a]
OpeningState(m, a) ==
    [ApplyGameInfo(NewGameInfo(m)) EXCEPT
        !.nCube = IF Display THEN 2 ^ a ELSE @]

(* A Crawford game is due only when one player is a point short of the match
   and the other is not. *)
CrawfordDue(m) == m.fCrawford => OneShort(m.nMatchTo, m.anScore)

(* The GAMEINFO record of a game that starts before the match is won passes
   the assertions, and the first roll gives its winner the turn.  The board
   is in the starting position, which no play can end the game from. *)
LEMMA OpeningApplies ==
    ASSUME NEW m, Sound(m), Unwon(m), NEW w \in Player,
           NEW a \in AutoDoubles(m)
    PROVE  LET r == Rec("setdice", w, 0)
               t == Applied(OpeningState(m, a), OpeningInfo(m, a), r).ms
           IN  /\ gameinfo_sanity_check(NewGameInfo(m)) = "no"
               /\ OpeningState(m, a) \in MatchStates
               /\ OpeningInfo(m, a) \in GameInfo
               /\ OpeningInfo(m, a).i = m.cGames
               /\ OpeningInfo(m, a).anScore = m.anScore
               /\ OpeningInfo(m, a).nMatch = m.nMatchTo
               /\ OpeningInfo(m, a).fCrawfordGame = m.fCrawford
               /\ Applies(OpeningState(m, a), OpeningInfo(m, a), r)
               /\ t.gs = "playing" /\ t.fResigned = 0 /\ ~t.fDoubled
               /\ t.dice /\ t.side = NoOne /\ t.fCrawford = m.fCrawford
               /\ t.fPostCrawford = (~m.fCrawford /\
                      \E p \in Player : m.anScore[p] = m.nMatchTo - 1)
               /\ CrawfordDue(m) =>
                      VStart(m.nMatchTo, m.anScore, View(t))
               /\ View(t).resigner = NoOne
<1> DEFINE r == Rec("setdice", w, 0)
           g == NewGameInfo(m)
           h == OpeningInfo(m, a)
           b == ApplyGameInfo(g)
           o == OpeningState(m, a)
           f == Fresh(o)
           t == ApplySetDice(f, r)
           pc == ~m.fCrawford /\ \E p \in Player : m.anScore[p] = m.nMatchTo - 1
<1>1. m \in MatchStates /\ m.cGames <= m.anScore[0] + m.anScore[1]
  BY DEF Sound
<1>2. /\ m.anScore \in [Player -> Nat] /\ m.nMatchTo \in Nat
      /\ m.cGames \in Nat /\ m.fCrawford \in BOOLEAN
  BY <1>1, Fields
<1>3. /\ a \in Nat /\ (Display => a \in 0..cAutoDoubles)
      /\ m.nMatchTo > 0 => a = 0
  BY SettingsAssumption DEF AutoDoubles
<1>4. 2 ^ 0 = 1 /\ 1 \in CubeValues
  BY CubeAssumption
<1>5. /\ g.i = m.cGames /\ g.nMatch = m.nMatchTo /\ g.anScore = m.anScore
      /\ g.fCrawford = (AutoCrawford /\ m.nMatchTo > 1)
      /\ g.fCrawfordGame = m.fCrawford /\ g.nAutoDoubles = 0
      /\ g \in GameInfo
  BY <1>2, Players DEF NewGameInfo, GameInfo
<1>6. /\ h \in GameInfo /\ h.i = m.cGames /\ h.anScore = m.anScore
      /\ h.nMatch = m.nMatchTo /\ h.fCrawfordGame = m.fCrawford
  BY <1>3, <1>5 DEF OpeningInfo, GameInfo
<1>7. gameinfo_sanity_check(g) = "no"
  <2>1. m.nMatchTo > 0 => m.cGames <= 2 * m.nMatchTo
    <3>1. m.anScore[0] \in Nat /\ m.anScore[1] \in Nat
      BY <1>2 DEF Player
    <3>2. m.nMatchTo > 0 => m.anScore[0] < m.nMatchTo /\ m.anScore[1] < m.nMatchTo
      BY DEF Unwon, Player
    <3>3. QED
      BY <1>1, <1>2, <3>1, <3>2
  <2>2. ~(m.nMatchTo > 0 /\ m.cGames > 2 * m.nMatchTo + 1)
    BY <1>2, <2>1
  <2>3. ~(m.nMatchTo > 0 /\ \E p \in Player : m.anScore[p] >= m.nMatchTo)
    BY <1>2 DEF Unwon
  <2>4. ~(~g.fCrawford /\ g.fCrawfordGame)
    BY <1>5 DEF Sound
  <2> HIDE DEF g
  <2>5. QED
    BY <1>5, <2>2, <2>3, <2>4 DEF gameinfo_sanity_check
<1>8. /\ o \in MatchStates
      /\ o.side = NoOne /\ o.st = 0 /\ ~o.fDoubled
      /\ o.cGames = m.cGames /\ o.fCubeOwner = NoOne
      /\ o.fCrawford = m.fCrawford /\ o.nMatchTo = m.nMatchTo
      /\ o.anScore = m.anScore /\ o.cBeavers = 0 /\ o.fMove = NoOne
      /\ o.nCube = (IF Display THEN 2 ^ a ELSE 1)
      /\ o.nMatchTo > 0 => o.nCube = 1
      /\ o.fPostCrawford = pc
  <2>1. InitialMatchState \in MatchStates
    <3>1. [p \in Player |-> 0] \in [Player -> Nat] /\ "none" \in GameState
      BY DEF GameState
    <3>2. 0 \in 0..3 /\ 0 \in -1..3
      OBVIOUS
    <3>3. QED
      BY <1>4, <3>1, <3>2, Players DEF InitialMatchState, MatchStates
  <2>2. /\ b \in MatchStates
        /\ b.side = NoOne /\ b.st = 0 /\ ~b.fDoubled
        /\ b.cGames = m.cGames /\ b.fCubeOwner = NoOne
        /\ b.fCrawford = m.fCrawford /\ b.nMatchTo = m.nMatchTo
        /\ b.anScore = m.anScore /\ b.cBeavers = 0 /\ b.fMove = NoOne
        /\ b.nCube = 1 /\ b.fPostCrawford = pc
    <3> HIDE DEF g
    <3>0. /\ pc \in BOOLEAN /\ 2 ^ g.nAutoDoubles = 1
          /\ pc = (/\ ~g.fCrawfordGame
                   /\ \E p \in Player : g.anScore[p] = g.nMatch - 1)
      BY <1>4, <1>5
    <3>1. b \in MatchStates
      <4>1. b = [InitialMatchState EXCEPT
                   !.nMatchTo = m.nMatchTo, !.anScore = m.anScore,
                   !.cGames = m.cGames, !.nCube = 1,
                   !.fCrawford = m.fCrawford, !.fPostCrawford = pc]
        BY <1>5, <3>0 DEF ApplyGameInfo
      <4> HIDE DEF pc, b
      <4>2. QED
        BY <1>2, <1>4, <2>1, <3>0, <4>1 DEF MatchStates
    <3>2. QED
      BY <1>4, <1>5, <3>1 DEF ApplyGameInfo, InitialMatchState
  <2> HIDE DEF b, g
  <2>3. (IF Display THEN 2 ^ a ELSE b.nCube) \in CubeValues
    BY <1>3, <1>4, <2>2, SettingsAssumption
  <2>4. o = [b EXCEPT !.nCube = IF Display THEN 2 ^ a ELSE b.nCube]
    BY DEF OpeningState, b, g
  <2>5. o \in MatchStates
    BY <2>2, <2>3, <2>4 DEF MatchStates
  <2>6. m.nMatchTo > 0 => (IF Display THEN 2 ^ a ELSE b.nCube) = 1
    BY <1>3, <1>4, <2>2
  <2>7. QED
    BY <2>2, <2>4, <2>5, <2>6 DEF MatchStates
<1> HIDE DEF o, g, h, b, pc
<1>9. /\ f \in MatchStates /\ f.fMove = NoOne /\ f.side = NoOne
      /\ f.gs = "playing" /\ f.fResigned = 0 /\ f.st = 0
      /\ f.cGames = m.cGames /\ f.fCubeOwner = NoOne
      /\ f.fCrawford = m.fCrawford /\ f.nMatchTo = m.nMatchTo
      /\ f.anScore = m.anScore /\ f.cBeavers = 0 /\ f.nCube = o.nCube
      /\ f.fPostCrawford = pc
  BY <1>8, FreshFields
<1>10. r.mt = "setdice" /\ r.fPlayer = w
  BY DEF Rec
<1>11. Applied(o, h, r) = [ms |-> t, info |-> h]
  BY <1>10 DEF Applied, FixMatchState, ApplyMoveRecord, Fresh
<1>12. t = [f EXCEPT !.dice = TRUE, !.fDoubled = FALSE, !.side = NoOne,
                     !.fTurn = w, !.fMove = w]
  BY <1>9, <1>10, Players DEF ApplySetDice, SwapSides
<1> HIDE DEF f
<1>13. t \in MatchStates
  BY <1>9, <1>12, Players, ZenonT(20) DEF MatchStates
<1>14. /\ t.gs = "playing" /\ t.fResigned = 0 /\ t.st = 0 /\ ~t.fDoubled
       /\ t.side = NoOne /\ t.fTurn = w /\ t.fMove = w
       /\ t.cGames = m.cGames /\ t.fCubeOwner = NoOne
       /\ t.fCrawford = m.fCrawford /\ t.nMatchTo = m.nMatchTo
       /\ t.anScore = m.anScore /\ t.cBeavers = 0 /\ t.nCube = o.nCube
       /\ t.fPostCrawford = pc /\ t.dice
  BY <1>9, <1>12 DEF MatchStates
<1> HIDE DEF t
<1>15. InGame(t)
  <2>1. t.fCrawford => t.nCube = 1
    BY <1>2, <1>8, <1>14 DEF Sound
  <2>2. QED
    BY <2>1, <1>14, SettingsAssumption DEF InGame, Decider
<1>16. Sound(t)
  BY <1>1, <1>13, <1>14, <1>15 DEF Sound
<1>17. Fits(t, h) /\ SameStart(h, h) /\ SameFlags(o, t)
  BY <1>6, <1>8, <1>14 DEF Fits, SameStart, SameFlags, Ended, Unwon
<1>18. Applies(o, h, r)
  BY <1>11, <1>14, <1>16, <1>17, AppliesTo
<1>19. /\ View(t).length = m.nMatchTo /\ View(t).score = m.anScore
       /\ View(t).playing = TRUE /\ View(t).crawford = m.fCrawford
       /\ View(t).cube = o.nCube /\ View(t).owner = NoOne
       /\ View(t).doubler = NoOne /\ View(t).answerer = NoOne
       /\ View(t).resigner = NoOne /\ View(t).stake = 0
  BY <1>13, <1>14, ViewPlaying
<1>20. CrawfordDue(m) => VStart(m.nMatchTo, m.anScore, View(t))
  <2>1. \E e \in IF m.nMatchTo = 0 THEN 0..cAutoDoubles ELSE {0} :
           o.nCube = 2 ^ e
    <3>1. cAutoDoubles \in Nat
      BY SettingsAssumption
    <3>2. CASE m.nMatchTo = 0 /\ Display
      BY <1>3, <1>8, <3>2
    <3>3. CASE m.nMatchTo # 0 \/ ~Display
      <4>1. o.nCube = 2 ^ 0
        BY <1>2, <1>4, <1>8, <3>3
      <4>2. 0 \in IF m.nMatchTo = 0 THEN 0..cAutoDoubles ELSE {0}
        BY <3>1
      <4>3. QED
        BY <4>1, <4>2, Zenon
    <3>4. QED
      BY <3>2, <3>3
  <2>2. ~(m.nMatchTo > 0 /\ \E p \in Player : m.anScore[p] >= m.nMatchTo)
    BY <1>2 DEF Unwon
  <2>3. QED
    BY <1>2, <1>19, <2>1, <2>2 DEF VStart, CrawfordDue
<1>21. QED
  BY <1>6, <1>7, <1>8, <1>11, <1>14, <1>18, <1>19, <1>20 DEF o, h, g, pc
-----------------------------------------------------------------------------
(* What every command but the `new' ones does to the list of games: the
   games keep their starts and the Crawford flags. *)
Keeps(s, t) ==
    /\ t.plGame = s.plGame /\ Len(t.lMatch) = Len(s.lMatch)
    /\ \A k \in 1..Len(s.lMatch) :
          SameStart(s.lMatch[k].info, t.lMatch[k].info)
    /\ SameFlags(s.ms, t.ms)

(* A step of the game in progress. *)
Leads(s, t) == Good(t) /\ Sees(s.ms, t.ms) /\ Keeps(s, t)

(* Such a step is taken only in a game, and NextTurn is to follow if it ends
   the game. *)
Pends(s, t) == IF Playing(s) THEN Playing(t) \/ t.fNextTurn ELSE t = s

(* Changing the program state. *)

(* Nothing happens. *)
LEMMA LeadsSelf ==
    ASSUME NEW s, Good(s)
    PROVE  Leads(s, s) /\ Pends(s, s) /\ Keeps(s, s)
BY DEF Leads, Pends, Keeps, Sees, Rule, SameStart, SameFlags

(* A step that the players do not see, and another one. *)
LEMMA KeepsOn ==
    ASSUME NEW s, NEW e, NEW t, Keeps(s, e), Keeps(e, t)
    PROVE  Keeps(s, t)
BY DEF Keeps, SameStart, SameFlags

(* A step that the players do not see, and then a rule. *)
LEMMA LeadsOn ==
    ASSUME NEW s, NEW e, NEW t, Keeps(s, e), View(e.ms) = View(s.ms),
           Leads(e, t)
    PROVE  Leads(s, t)
BY KeepsOn DEF Leads, Sees

(* A new ms for the same stage of the same game. *)
LEMMA NewMs ==
    ASSUME NEW s, Good(s), NEW m, Sound(m), m.gs = s.ms.gs,
           m.anScore = s.ms.anScore, m.cGames = s.ms.cGames,
           m.nMatchTo = s.ms.nMatchTo
    PROVE  LET t == [s EXCEPT !.ms = m]
           IN  /\ Good(t) /\ t.ms = m /\ t.fNextTurn = s.fNextTurn
               /\ t.lMatch = s.lMatch /\ t.plGame = s.plGame
               /\ SameFlags(s.ms, m) => Keeps(s, t)
<1> DEFINE t == [s EXCEPT !.ms = m]
<1>1. s \in States /\ m \in MatchStates
  BY DEF Good, Sound
<1>2. t \in States
  BY <1>1 DEF States
<1>3. /\ t.ms = m /\ t.lMatch = s.lMatch /\ t.plGame = s.plGame
      /\ t.plLastMove = s.plLastMove /\ t.aborted = s.aborted
      /\ t.fNextTurn = s.fNextTurn
  BY <1>1 DEF States
<1> HIDE DEF t
<1>4. Placed(t)
  BY <1>3 DEF Good, Placed, Fits, Ended
<1>5. SameFlags(s.ms, m) => Keeps(s, t)
  BY <1>3 DEF Keeps, SameStart
<1>6. QED
  BY <1>2, <1>3, <1>4, <1>5 DEF Good, t

(* The flags that are not part of the match. *)
LEMMA NewFlags ==
    ASSUME NEW s, Good(s), NEW t \in States, t.ms = s.ms,
           t.lMatch = s.lMatch, t.plGame = s.plGame,
           t.plLastMove = s.plLastMove, t.aborted = "no"
    PROVE  Good(t) /\ Leads(s, t)
BY DEF Good, Placed, Leads, Keeps, Sees, Rule, SameStart, SameFlags

(* TurnDone only schedules NextTurn. *)
LEMMA GoodTurnDone ==
    ASSUME NEW s, Good(s)
    PROVE  /\ Good(TurnDone(s)) /\ TurnDone(s).fNextTurn = TRUE
           /\ TurnDone(s).ms = s.ms /\ Keeps(s, TurnDone(s))
           /\ \A r : Leads(r, s) => Leads(r, TurnDone(s))
<1>1. s \in States /\ s.aborted = "no"
  BY DEF Good
<1>2. TurnDone(s) = [s EXCEPT !.fNextTurn = TRUE]
  BY <1>1 DEF TurnDone
<1> DEFINE t == [s EXCEPT !.fNextTurn = TRUE]
<1>3. /\ t \in States /\ t.fNextTurn = TRUE
      /\ t.ms = s.ms /\ t.lMatch = s.lMatch /\ t.plGame = s.plGame
      /\ t.plLastMove = s.plLastMove /\ t.aborted = "no"
  BY <1>1 DEF States
<1> HIDE DEF t
<1>4. Good(t) /\ Leads(s, t)
  BY <1>3, NewFlags
<1>5. \A r : Leads(r, s) => Leads(r, t)
  BY <1>3, <1>4, KeepsOn DEF Leads
<1>6. QED
  BY <1>2, <1>3, <1>4, <1>5 DEF Leads, t

(* Asking a question records the answer. *)
LEMMA GoodAnswer ==
    ASSUME NEW s, Good(s), NEW ans \in BOOLEAN
    PROVE  /\ Good(Answer(s, ans)) /\ Answer(s, ans).ms = s.ms
           /\ Leads(s, Answer(s, ans))
           /\ Answer(s, ans).lMatch = s.lMatch
           /\ Answer(s, ans).plGame = s.plGame
           /\ Answer(s, ans).fNextTurn = s.fNextTurn
<1> DEFINE t == Answer(s, ans)
<1>1. s \in States /\ s.aborted = "no"
  BY DEF Good
<1>2. t \in States
  BY <1>1 DEF Answer, States
<1>3. /\ t.ms = s.ms /\ t.lMatch = s.lMatch /\ t.plGame = s.plGame
      /\ t.plLastMove = s.plLastMove /\ t.aborted = "no"
      /\ t.fNextTurn = s.fNextTurn
  BY <1>1 DEF Answer, States
<1> HIDE DEF t
<1>4. Good(t) /\ Leads(s, t)
  BY <1>2, <1>3, NewFlags
<1>5. QED
  BY <1>3, <1>4 DEF t

(* During play the current record is the last one, so nothing is asked. *)
LEMMA NotAsked ==
    ASSUME NEW s, Good(s), NEW ans
    PROVE  move_not_last_in_match_ok(s, ans) = s
BY DEF move_not_last_in_match_ok, move_is_last_in_match, Good, Placed

(***************************************************************************)
(* AddMoveRecord: the games after the current one and the records after    *)
(* the current one are cut off, and the record extends what is left.       *)
(***************************************************************************)
LEMMA GoodAddMoveRecord ==
    ASSUME NEW s \in States, s.aborted = "no", Chained(s.lMatch),
           s.plGame \in 1..Len(s.lMatch), NEW r \in Record,
           s.plLastMove <= Len(s.lMatch[s.plGame].recs),
           add_moverecord_sanity_check(r) = "no",
           Applies(s.ms, s.lMatch[s.plGame].info, r)
    PROVE  /\ Good(AddMoveRecord(s, r))
           /\ AddMoveRecord(s, r).ms
                = Applied(s.ms, s.lMatch[s.plGame].info, r).ms
           /\ AddMoveRecord(s, r).fNextTurn = s.fNextTurn
           /\ SameFlags(s.ms, AddMoveRecord(s, r).ms)
           /\ s.plGame = Len(s.lMatch) => Keeps(s, AddMoveRecord(s, r))
           /\ AddMoveRecord(s, r).plGame = s.plGame
<1> DEFINE gm == s.lMatch[s.plGame]
           kept == SubSeq(gm.recs, 1, s.plLastMove)
           base == IF kept # <<>> /\ Elides(r, Last(kept))
                   THEN Front(kept) ELSE kept
           recs == Append(base, r)
           a == Applied(s.ms, gm.info, r)
           new == [info |-> a.info, recs |-> recs]
           cut == SubSeq(s.lMatch, 1, s.plGame - 1)
           l == Append(cut, new)
           t == AddMoveRecord(s, r)
<1>1. s.lMatch \in Seq(Game) /\ s.plGame \in Nat /\ s.plLastMove \in Nat
  BY DEF States
<1>2. gm \in Game /\ gm.recs \in Seq(Record)
  <2>1. gm \in Game
    BY <1>1
  <2>2. QED
    BY <2>1 DEF Game
<1>3. kept \in Seq(Record)
  BY <1>1, <1>2
<1>4. base \in Seq(Record)
  <2>1. kept # <<>> => Front(kept) \in Seq(Record)
    <3> HIDE DEF kept
    <3>1. SUFFICES ASSUME kept # <<>> PROVE Front(kept) \in Seq(Record)
      OBVIOUS
    <3>2. Len(kept) \in Nat /\ Len(kept) >= 1
      BY <1>3, <3>1
    <3>3. QED
      BY <1>3, <3>2 DEF Front
  <2>2. QED
    BY <1>3, <2>1
<1> HIDE DEF base
<1>5. recs \in Seq(Record) /\ Len(recs) \in Nat
  BY <1>4
<1>6. /\ Sound(a.ms) /\ Fits(a.ms, a.info) /\ SameStart(gm.info, a.info)
      /\ a.ms.gs # "none" /\ SameFlags(s.ms, a.ms)
  BY DEF Applies
<1> HIDE DEF recs, a
<1>7. new \in Game
  BY <1>5, <1>6 DEF Game, Fits
<1>8. /\ cut \in Seq(Game) /\ Len(cut) = s.plGame - 1
      /\ \A k \in 1..(s.plGame - 1) : cut[k] = s.lMatch[k]
  BY <1>1
<1> HIDE DEF new, cut
<1>9. /\ l \in Seq(Game) /\ Len(l) = s.plGame
      /\ l[s.plGame] = new
      /\ \A k \in 1..(s.plGame - 1) : l[k] = s.lMatch[k]
  BY <1>1, <1>7, <1>8
<1> HIDE DEF l, gm
<1>10. Chained(l)
  <2>1. SUFFICES ASSUME NEW k \in 1..(s.plGame - 1)
                 PROVE  Follows(l[k].info, l[k+1].info)
    BY <1>9 DEF Chained
  <2>2. Follows(s.lMatch[k].info, s.lMatch[k+1].info) /\ l[k] = s.lMatch[k]
    BY <1>1, <1>9 DEF Chained
  <2>3. CASE k + 1 = s.plGame
    <3>1. l[k+1].info = a.info /\ s.lMatch[k+1] = gm
      BY <1>9, <2>3 DEF new, gm
    <3>2. QED
      BY <1>6, <2>2, <3>1 DEF Follows, SameStart
  <2>4. CASE k + 1 # s.plGame
    <3>1. k + 1 \in 1..(s.plGame - 1)
      BY <1>1, <2>4
    <3>2. QED
      BY <1>9, <2>2, <3>1
  <2>5. QED
    BY <2>3, <2>4
<1>11. t = [s EXCEPT !.ms = a.ms, !.plLastMove = Len(recs), !.lMatch = l]
  BY DEF AddMoveRecord, Applied, a, l, cut, new, recs, base, gm
<1>12. t \in States
  BY <1>5, <1>6, <1>9, <1>11 DEF States, Sound
<1>13. /\ t.ms = a.ms /\ t.plLastMove = Len(recs) /\ t.lMatch = l
       /\ t.plGame = s.plGame /\ t.aborted = "no"
       /\ t.fNextTurn = s.fNextTurn
  BY <1>11 DEF States
<1> HIDE DEF t
<1>14. Placed(t)
  BY <1>1, <1>6, <1>9, <1>10, <1>13 DEF Placed, new
<1>15. s.plGame = Len(s.lMatch) => Keeps(s, t)
  <2>1. ASSUME NEW k \in 1..s.plGame
        PROVE  SameStart(s.lMatch[k].info, l[k].info)
    <3>1. CASE k = s.plGame
      BY <1>6, <1>9, <3>1 DEF new, gm
    <3>2. CASE k # s.plGame
      <4>1. k \in 1..(s.plGame - 1)
        BY <1>1, <3>2
      <4>2. QED
        BY <1>9, <4>1 DEF SameStart
    <3>3. QED
      BY <3>1, <3>2
  <2>2. QED
    BY <1>6, <1>9, <1>13, <2>1 DEF Keeps
<1>16. QED
  BY <1>6, <1>12, <1>13, <1>14, <1>15 DEF Good, t, a, gm

(* In a game in progress there is a current game, and it fits ms. *)
LEMMA InProgress ==
    ASSUME NEW s, Good(s), Playing(s)
    PROVE  /\ s \in States /\ s.aborted = "no" /\ Chained(s.lMatch)
           /\ s.plGame \in 1..Len(s.lMatch) /\ s.plGame = Len(s.lMatch)
           /\ s.plLastMove = Len(s.lMatch[s.plGame].recs)
           /\ s.plLastMove <= Len(s.lMatch[s.plGame].recs)
           /\ Sound(s.ms) /\ s.ms.gs = "playing"
           /\ s.ms \in MatchStates /\ InGame(s.ms)
           /\ s.ms.fMove \in Player /\ s.ms.fTurn \in Player
           /\ Fits(s.ms, s.lMatch[s.plGame].info)
<1>1. /\ s \in States /\ s.aborted = "no" /\ Sound(s.ms) /\ Placed(s)
      /\ s.ms.gs = "playing"
  BY DEF Good, Playing
<1>2. s.lMatch \in Seq(Game) /\ s.plGame \in Nat /\ s.plLastMove \in Nat
  BY <1>1 DEF States
<1>3. /\ Chained(s.lMatch) /\ s.plGame # 0 /\ s.plGame = Len(s.lMatch)
      /\ s.plLastMove = Len(s.lMatch[s.plGame].recs)
      /\ Fits(s.ms, s.lMatch[s.plGame].info)
  BY <1>1 DEF Placed
<1>4. s.ms \in MatchStates /\ InGame(s.ms)
  BY <1>1 DEF Sound
<1>5. s.ms.fMove \in Player /\ s.ms.fTurn \in Player
  BY <1>4, Players DEF InGame, Decider
<1>6. QED
  BY <1>1, <1>2, <1>3, <1>4, <1>5

(* Adding a record that may be added, and ending the turn. *)
LEMMA AddRecord ==
    ASSUME NEW s, Good(s), Playing(s), NEW r \in Record,
           add_moverecord_sanity_check(r) = "no",
           Applies(s.ms, s.lMatch[s.plGame].info, r),
           Sees(s.ms, Applied(s.ms, s.lMatch[s.plGame].info, r).ms)
    PROVE  LET t == AddMoveRecord(s, r)
           IN  /\ Leads(s, t) /\ Leads(s, TurnDone(t))
               /\ Pends(s, TurnDone(t)) /\ TurnDone(t).ms = t.ms
               /\ t.ms = Applied(s.ms, s.lMatch[s.plGame].info, r).ms
<1> DEFINE t == AddMoveRecord(s, r)
<1>1. /\ Good(t) /\ Keeps(s, t)
      /\ t.ms = Applied(s.ms, s.lMatch[s.plGame].info, r).ms
  BY InProgress, GoodAddMoveRecord
<1> HIDE DEF t
<1>2. Leads(s, t)
  BY <1>1 DEF Leads
<1>3. QED
  BY <1>1, <1>2, GoodTurnDone DEF Pends, t

(* The records the commands make. *)
LEMMA Records ==
    ASSUME NEW p \in Player, NEW v \in Int
    PROVE  /\ \A mt \in {"normal", "double", "take", "drop", "setdice"} :
                /\ Rec(mt, p, v) \in Record
                /\ add_moverecord_sanity_check(Rec(mt, p, v)) = "no"
           /\ v \in 1..3 =>
                /\ Rec("resign", p, v) \in Record
                /\ add_moverecord_sanity_check(Rec("resign", p, v)) = "no"
BY DEF Rec, Record, MoveType, add_moverecord_sanity_check

(* CommandAgree ends the game for the points resigned. *)
LEMMA GoodAgree ==
    ASSUME NEW s, Good(s), NEW c \in BOOLEAN, NEW ans \in BOOLEAN,
           Playing(s) /\ c => s.ms.fResigned # -1
    PROVE  LET t == CommandAgree(s, c, ans)
           IN  /\ Leads(s, t) /\ Pends(s, t)
               /\ Playing(s) /\ c /\ s.ms.fResigned # 0 /\ s.prompt # "no"
                     => VAccept(View(s.ms), View(t.ms))
<1> DEFINE r == Rec("resign", Other(s.ms.fTurn), s.ms.fResigned)
           e == AddMoveRecord(s, r)
<1>1. CASE ~(Playing(s) /\ MayAct(s, c) /\ s.ms.fResigned # 0)
  BY <1>1, LeadsSelf DEF CommandAgree, MayAct
<1>2. CASE Playing(s) /\ MayAct(s, c) /\ s.ms.fResigned # 0
  <2>1. /\ s.ms.fTurn \in Player /\ InGame(s.ms) /\ s.ms \in MatchStates
        /\ Sound(s.ms) /\ s.ms.gs = "playing"
        /\ Fits(s.ms, s.lMatch[s.plGame].info)
    BY <1>2, InProgress
  <2>2. s.ms.fResigned \in 1..3
    <3>1. s.ms.fResigned \in -1..3
      BY <2>1, Fields
    <3>2. s.ms.fResigned # -1
      BY <1>2, <2>1 DEF MayAct, InGame
    <3>3. QED
      BY <1>2, <3>1, <3>2
  <2>3. r \in Record /\ add_moverecord_sanity_check(r) = "no"
    BY <2>1, <2>2, Players, Records
  <2>4. /\ Applies(s.ms, s.lMatch[s.plGame].info, r)
        /\ VAccept(View(s.ms),
                   View(Applied(s.ms, s.lMatch[s.plGame].info, r).ms))
    BY <2>1, <2>2, ResignApplies
  <2> HIDE DEF r
  <2>5. /\ Leads(s, TurnDone(e)) /\ Pends(s, TurnDone(e))
        /\ VAccept(View(s.ms), View(TurnDone(e).ms))
    BY <1>2, <2>3, <2>4, AddRecord DEF Sees, Rule
  <2>6. CommandAgree(s, c, ans) = IF Refused(s) THEN s ELSE TurnDone(e)
    BY <1>2, NotAsked DEF CommandAgree, r
  <2>7. QED
    BY <2>5, <2>6, LeadsSelf DEF Refused
<1>3. QED
  BY <1>1, <1>2

(* CommandDecline gives the turn back to the player who resigned. *)
LEMMA GoodDecline ==
    ASSUME NEW s, Good(s), NEW c \in BOOLEAN
    PROVE  Leads(s, CommandDecline(s, c)) /\ Pends(s, CommandDecline(s, c))
<1> DEFINE m == s.ms
           t == [m EXCEPT !.fResignationDeclined = m.fResigned,
                          !.fResigned = 0, !.fTurn = Other(m.fTurn)]
<1>1. CASE ~(Playing(s) /\ MayAct(s, c) /\ s.ms.fResigned # 0)
  BY <1>1, LeadsSelf DEF CommandDecline
<1>2. CASE Playing(s) /\ MayAct(s, c) /\ s.ms.fResigned # 0
  <2>1. /\ m \in MatchStates /\ Sound(m) /\ InGame(m) /\ m.fTurn \in Player
        /\ m.fMove \in Player /\ m.gs = "playing"
    BY <1>2, InProgress
  <2>2. Other(m.fTurn) \in Player \cup {NoOne} /\ m.fResigned \in -1..3
    BY <2>1, Players, Fields
  <2> HIDE DEF m
  <2>3. t \in MatchStates
    <3>1. 0 \in -1..3
      OBVIOUS
    <3>2. QED
      BY <2>1, <2>2, <3>1 DEF MatchStates
  <2>4. /\ t.gs = m.gs /\ t.fResigned = 0 /\ t.fDoubled = m.fDoubled
        /\ t.side = m.side /\ t.st = m.st /\ t.fTurn = Other(m.fTurn)
        /\ t.fMove = m.fMove /\ t.cGames = m.cGames
        /\ t.fCubeOwner = m.fCubeOwner /\ t.fCrawford = m.fCrawford
        /\ t.nMatchTo = m.nMatchTo /\ t.anScore = m.anScore
        /\ t.nCube = m.nCube /\ t.cBeavers = m.cBeavers
        /\ t.fPostCrawford = m.fPostCrawford
    BY <2>1 DEF MatchStates
  <2> HIDE DEF t
  <2>5. Decider(t) = Decider(m) /\ Decider(m) \in Player
    BY <2>1, <2>4, Players DEF Decider
  <2>6. InGame(t)
    <3>1. m.fTurn = Other(Decider(m))
      BY <1>2, <2>1 DEF InGame, m
    <3>2. t.fTurn = Decider(t)
      BY <2>4, <2>5, <3>1, Players
    <3>3. QED
      BY <2>1, <2>4, <3>2 DEF InGame
  <2>7. Sound(t)
    BY <2>1, <2>3, <2>4, <2>6 DEF Sound
  <2>8. VDecline(View(m), View(t))
    <3>1. m.fResigned # 0 /\ Other(m.fTurn) \in Player
      BY <1>2, <2>1, Players DEF m
    <3>2. QED
      BY <2>1, <2>3, <2>4, <2>5, <3>1, ViewPlaying
         DEF VDecline, SameGame, SameCube, SameDoubler
  <2> DEFINE e == [s EXCEPT !.ms = t]
  <2>9. Good(e) /\ e.ms = t /\ Keeps(s, e)
    BY <2>4, <2>7, NewMs DEF m, SameFlags
  <2> HIDE DEF e
  <2>10. Leads(s, e)
    BY <2>8, <2>9 DEF Leads, Sees, Rule, m
  <2>11. CommandDecline(s, c) = TurnDone(e)
    BY <1>2 DEF CommandDecline, t, m, e
  <2>12. QED
    BY <1>2, <2>9, <2>10, <2>11, GoodTurnDone DEF Pends
<1>3. QED
  BY <1>1, <1>2

(* An offer of a resignation, when none is pending. *)
LEMMA GoodResign ==
    ASSUME NEW s, Good(s), NEW c \in BOOLEAN, NEW v \in -1..3,
           s.ms.fResigned = 0,
           v = -1 /\ Playing(s) /\ MayAct(s, c)
              => PlayerType[Other(s.ms.fTurn)] = "gnu"
    PROVE  LET t == CommandResign(s, c, v)
           IN  /\ Leads(s, t) /\ Pends(s, t)
               /\ t = s \/ VOffer(View(s.ms), View(t.ms))
<1> DEFINE m == s.ms
           t == [m EXCEPT !.fResigned = v, !.fTurn = Other(m.fTurn)]
<1>1. CASE ~(Playing(s) /\ MayAct(s, c))
  BY <1>1, LeadsSelf DEF CommandResign
<1>2. CASE /\ Playing(s) /\ MayAct(s, c)
           /\ \/ v \notin {-1, 1, 2, 3}
              \/ v >= 0 /\ v <= s.ms.fResignationDeclined
  <2>1. s \in States /\ m \in MatchStates
    BY <1>2, InProgress
  <2>2. [m EXCEPT !.fResigned = 0] = m
    BY <2>1 DEF MatchStates
  <2>3. [s EXCEPT !.ms.fResigned = 0] = [s EXCEPT !.ms = [m EXCEPT !.fResigned = 0]]
    OBVIOUS
  <2>4. [s EXCEPT !.ms = m] = s
    BY <2>1 DEF States
  <2>5. QED
    BY <1>2, <2>2, <2>3, <2>4, LeadsSelf DEF CommandResign
<1>3. CASE /\ Playing(s) /\ MayAct(s, c)
           /\ ~ \/ v \notin {-1, 1, 2, 3}
                \/ v >= 0 /\ v <= s.ms.fResignationDeclined
  <2>1. /\ m \in MatchStates /\ Sound(m) /\ InGame(m) /\ m.fTurn \in Player
        /\ m.fMove \in Player /\ m.gs = "playing" /\ m.fResigned = 0
    BY <1>3, InProgress
  <2>2. Other(m.fTurn) \in Player \cup {NoOne} /\ v # 0
    BY <1>3, <2>1, Players
  <2>3. v = -1 => PlayerType[Other(m.fTurn)] = "gnu"
    BY <1>3
  <2> HIDE DEF m
  <2>4. t \in MatchStates
    BY <2>1, <2>2 DEF MatchStates
  <2>5. /\ t.gs = m.gs /\ t.fResigned = v /\ t.fDoubled = m.fDoubled
        /\ t.side = m.side /\ t.st = m.st /\ t.fTurn = Other(m.fTurn)
        /\ t.fMove = m.fMove /\ t.cGames = m.cGames
        /\ t.fCubeOwner = m.fCubeOwner /\ t.fCrawford = m.fCrawford
        /\ t.nMatchTo = m.nMatchTo /\ t.anScore = m.anScore
        /\ t.nCube = m.nCube /\ t.cBeavers = m.cBeavers
        /\ t.fPostCrawford = m.fPostCrawford
    BY <2>1 DEF MatchStates
  <2> HIDE DEF t
  <2>6. InGame(t)
    <3>1. Decider(t) = Decider(m) /\ m.fTurn = Decider(m)
      BY <2>1, <2>5 DEF Decider, InGame
    <3>2. t.fTurn = Other(Decider(t))
      BY <2>5, <3>1
    <3>3. QED
      BY <2>1, <2>2, <2>3, <2>5, <3>2 DEF InGame
  <2>7. Sound(t)
    BY <2>1, <2>4, <2>5, <2>6 DEF Sound
  <2>8. VOffer(View(m), View(t))
    <3>1. /\ Decider(t) = Decider(m) /\ m.fTurn = Decider(m)
          /\ Other(t.fTurn) = m.fTurn
      BY <2>1, <2>5, Players DEF Decider, InGame
    <3>2. v \in {-1, 1, 2, 3}
      BY <1>3
    <3>3. /\ SameGame(View(m), View(t)) /\ SameCube(View(m), View(t))
          /\ SameDoubler(View(m), View(t))
      BY <2>1, <2>4, <2>5, <3>1, ViewPlaying
         DEF SameGame, SameCube, SameDoubler
    <3>4. View(t).resigner = m.fTurn /\ View(t).stake = v
      BY <2>1, <2>2, <2>4, <2>5, <3>1, ViewPlaying
    <3>5. /\ VQuiet(View(m))
          /\ \/ View(m).doubler = NoOne
             \/ View(m).doubler \in Player /\ View(m).answerer = m.fTurn
      BY <2>1, <3>1, ViewPlaying DEF VQuiet
    <3>6. QED
      BY <2>1, <3>2, <3>3, <3>4, <3>5 DEF VOffer
  <2> DEFINE e == [s EXCEPT !.ms = t]
  <2>9. Good(e) /\ e.ms = t /\ Keeps(s, e)
    BY <2>5, <2>7, NewMs DEF m, SameFlags
  <2> HIDE DEF e
  <2>10. Leads(s, e)
    BY <2>8, <2>9 DEF Leads, Sees, Rule, m
  <2>11. CommandResign(s, c, v) = TurnDone(e)
    BY <1>3 DEF CommandResign, t, m, e
  <2>12. QED
    BY <1>3, <2>8, <2>9, <2>10, <2>11, GoodTurnDone DEF Pends, m
<1>4. QED
  BY <1>1, <1>2, <1>3

(* A beaver: ms is changed and the record added in one step. *)
LEMMA GoodRedouble ==
    ASSUME NEW s, Good(s), NEW c \in BOOLEAN, NEW ans \in BOOLEAN,
           s.ms.fResigned = 0
    PROVE  LET t == CommandRedouble(s, c, ans)
           IN  Leads(s, t) /\ Pends(s, t)
<1> DEFINE r == Rec("double", s.ms.fTurn, 0)
           g == s.lMatch[s.plGame].info
           o == [s.ms EXCEPT !.fCubeOwner = Other(s.ms.fMove)]
           p == [s EXCEPT !.ms = o]
           e == AddMoveRecord(p, r)
           G == /\ s.ms.nMatchTo = 0
                /\ s.ms.cBeavers < nBeavers
                /\ Playing(s) /\ s.ms.fDoubled
                /\ MayAct(s, c)
                /\ s.ms.nCube < MAX_CUBE \div 2
<1>1. CASE ~G
  BY <1>1, LeadsSelf DEF CommandRedouble
<1>2. CASE G
  <2>1. /\ s \in States /\ s.aborted = "no" /\ Chained(s.lMatch)
        /\ s.plGame \in 1..Len(s.lMatch) /\ s.plGame = Len(s.lMatch)
        /\ s.plLastMove <= Len(s.lMatch[s.plGame].recs)
        /\ Sound(s.ms) /\ s.ms.gs = "playing" /\ s.ms \in MatchStates
        /\ s.ms.fMove \in Player /\ s.ms.fTurn \in Player
        /\ Fits(s.ms, g)
    BY <1>2, InProgress
  <2>2. r \in Record /\ add_moverecord_sanity_check(r) = "no"
    BY <2>1, Records
  <2>3. /\ Applies(o, g, r) /\ SameFlags(s.ms, o)
        /\ VBeaver(View(s.ms), View(Applied(o, g, r).ms))
    BY <1>2, <2>1, BeaverApplies
  <2>4. o \in MatchStates
    BY <2>1, Players, ZenonT(20) DEF MatchStates
  <2> HIDE DEF o, r
  <2>5. p \in States
    BY <2>1, <2>4 DEF States
  <2>6. /\ p.ms = o /\ p.aborted = "no" /\ p.lMatch = s.lMatch
        /\ p.plGame = s.plGame /\ p.plLastMove = s.plLastMove
    BY <2>1 DEF States
  <2> HIDE DEF p
  <2>7. /\ Good(e) /\ Keeps(p, e) /\ e.ms = Applied(o, g, r).ms
    BY <2>1, <2>2, <2>3, <2>5, <2>6, GoodAddMoveRecord
  <2>8. Keeps(s, e)
    BY <2>3, <2>6, <2>7 DEF Keeps, SameFlags
  <2> HIDE DEF e
  <2>9. Leads(s, e)
    BY <2>3, <2>7, <2>8 DEF Leads, Sees, Rule
  <2>10. Leads(s, TurnDone(e)) /\ Pends(s, TurnDone(e))
    BY <1>2, <2>7, <2>9, GoodTurnDone DEF Pends
  <2>11. CommandRedouble(s, c, ans) = IF Refused(s) THEN s ELSE TurnDone(e)
    BY <1>2, NotAsked DEF CommandRedouble, e, p, o, r
  <2>12. QED
    BY <2>10, <2>11, LeadsSelf
<1>3. QED
  BY <1>1, <1>2

(* CommandDouble offers the cube, or beavers. *)
LEMMA GoodDouble ==
    ASSUME NEW s, Good(s), NEW c \in BOOLEAN, NEW ans \in BOOLEAN,
           s.ms.fResigned = 0
    PROVE  LET t == CommandDouble(s, c, ans)
           IN  Leads(s, t) /\ Pends(s, t)
<1> DEFINE r == Rec("double", s.ms.fTurn, 0)
           e == AddMoveRecord(s, r)
           G == Playing(s) /\ MayAct(s, c) /\ ~s.ms.fCrawford /\ CubeUse
           H == /\ s.ms.fTurn = s.ms.fMove
                /\ ~s.ms.dice
                /\ s.ms.fCubeOwner \in {NoOne, s.ms.fTurn}
                /\ s.ms.nCube < MAX_CUBE
<1>1. CASE ~G
  BY <1>1, LeadsSelf DEF CommandDouble
<1>2. CASE G
  <2>1. LET t == CommandRedouble(s, c, ans) IN Leads(s, t) /\ Pends(s, t)
    BY GoodRedouble
  <2>2. ~s.ms.fDoubled /\ H =>
           Leads(s, TurnDone(e)) /\ Pends(s, TurnDone(e))
    <3>1. SUFFICES ASSUME ~s.ms.fDoubled, H
                   PROVE  Leads(s, TurnDone(e)) /\ Pends(s, TurnDone(e))
      OBVIOUS
    <3>2. /\ Sound(s.ms) /\ s.ms.gs = "playing" /\ s.ms.fTurn \in Player
          /\ Fits(s.ms, s.lMatch[s.plGame].info)
      BY <1>2, InProgress
    <3>3. r \in Record /\ add_moverecord_sanity_check(r) = "no"
      BY <3>2, Records
    <3>4. /\ Applies(s.ms, s.lMatch[s.plGame].info, r)
          /\ VDouble(View(s.ms),
                     View(Applied(s.ms, s.lMatch[s.plGame].info, r).ms))
      BY <1>2, <3>1, <3>2, OfferApplies
    <3> HIDE DEF r
    <3>5. QED
      BY <1>2, <3>3, <3>4, AddRecord DEF Sees, Rule
  <2> HIDE DEF e
  <2>3. CommandDouble(s, c, ans)
          = IF Refused(s) THEN s
            ELSE IF s.ms.fDoubled THEN CommandRedouble(s, c, ans)
            ELSE IF H THEN TurnDone(e) ELSE s
    BY <1>2, NotAsked DEF CommandDouble, e
  <2>4. QED
    BY <2>1, <2>2, <2>3, LeadsSelf
<1>3. QED
  BY <1>1, <1>2

(* Answering the cube. *)
LEMMA GoodTakeDrop ==
    ASSUME NEW s, Good(s), NEW c \in BOOLEAN, NEW ans \in BOOLEAN,
           s.ms.fResigned = 0
    PROVE  /\ LET t == CommandTake(s, c, ans) IN Leads(s, t) /\ Pends(s, t)
           /\ LET t == CommandDrop(s, c, ans) IN Leads(s, t) /\ Pends(s, t)
<1> DEFINE G == Playing(s) /\ s.ms.fDoubled /\ MayAct(s, c)
           g == s.lMatch[s.plGame].info
           x == Rec("take", s.ms.fTurn, 0)
           y == Rec("drop", s.ms.fTurn, 0)
           t == TurnDone(AddMoveRecord(s, x))
           d == TurnDone(AddMoveRecord(s, y))
<1>1. CASE ~G
  BY <1>1, LeadsSelf DEF CommandTake, CommandDrop
<1>2. CASE G
  <2>1. /\ Sound(s.ms) /\ s.ms.gs = "playing" /\ s.ms.fTurn \in Player
        /\ Fits(s.ms, g)
    BY <1>2, InProgress
  <2>2. /\ x \in Record /\ add_moverecord_sanity_check(x) = "no"
        /\ y \in Record /\ add_moverecord_sanity_check(y) = "no"
    BY <2>1, Records
  <2>3. /\ Applies(s.ms, g, x)
        /\ VTake(View(s.ms), View(Applied(s.ms, g, x).ms))
    BY <1>2, <2>1, TakeApplies
  <2>4. /\ Applies(s.ms, g, y)
        /\ VDrop(View(s.ms), View(Applied(s.ms, g, y).ms))
    BY <1>2, <2>1, DropApplies
  <2> HIDE DEF x, y
  <2>5. Leads(s, t) /\ Pends(s, t)
    BY <1>2, <2>2, <2>3, AddRecord DEF Sees, Rule
  <2>6. Leads(s, d) /\ Pends(s, d)
    BY <1>2, <2>2, <2>4, AddRecord DEF Sees, Rule
  <2>7. /\ CommandTake(s, c, ans) \in {s, t}
        /\ CommandDrop(s, c, ans) \in {s, d}
    BY <1>2, NotAsked DEF CommandTake, CommandDrop, x, y
  <2> HIDE DEF t, d
  <2>8. QED
    BY <2>5, <2>6, <2>7, LeadsSelf
<1>3. QED
  BY <1>1, <1>2

(* The GameStatus values of a play. *)
LEMMA PlayStatus ==
    ASSUME NEW m, NEW n \in PlayResults(m)
    PROVE  n \in 0..3 /\ n \in Int /\ (m.side = NoOne => n = 0)
BY SettingsAssumption DEF PlayResults

(* A play by the player on roll, by himself or for him. *)
LEMMA GoodPlay ==
    ASSUME NEW s, Good(s), Playing(s), s.ms.fResigned = 0, ~s.ms.fDoubled,
           NEW n \in 0..3
    PROVE  LET t == AddMoveRecord(s, Rec("normal", s.ms.fTurn, n))
           IN  /\ Leads(s, t) /\ Leads(s, TurnDone(t))
               /\ Pends(s, TurnDone(t))
               /\ n = 0 => View(t.ms) = View(s.ms)
<1> DEFINE r == Rec("normal", s.ms.fTurn, n)
           a == Applied(s.ms, s.lMatch[s.plGame].info, r).ms
<1>1. /\ Sound(s.ms) /\ s.ms.gs = "playing" /\ s.ms.fTurn \in Player
      /\ Fits(s.ms, s.lMatch[s.plGame].info)
  BY InProgress
<1>2. r \in Record /\ add_moverecord_sanity_check(r) = "no"
  <2>1. n \in Int
    OBVIOUS
  <2>2. QED
    BY <1>1, <2>1, Records
<1>3. /\ Applies(s.ms, s.lMatch[s.plGame].info, r)
      /\ n = 0 => View(a) = View(s.ms)
      /\ n # 0 => VWin(View(s.ms), View(a))
  BY <1>1, NormalApplies
<1> HIDE DEF r
<1>4. Sees(s.ms, a)
  BY <1>3 DEF Sees, Rule
<1>5. QED
  BY <1>2, <1>3, <1>4, AddRecord DEF r

(* CommandMove plays on, or ends the game. *)
LEMMA GoodMove ==
    ASSUME NEW s, Good(s), NEW ans \in BOOLEAN, NEW n \in PlayResults(s.ms)
    PROVE  LET t == CommandMove(s, ans, n)
           IN  Leads(s, t) /\ Pends(s, t)
<1> DEFINE e == AddMoveRecord(s, Rec("normal", s.ms.fTurn, n))
           G == /\ Playing(s) /\ MayAct(s, FALSE) /\ s.ms.dice
                /\ s.ms.fResigned = 0 /\ ~s.ms.fDoubled
<1>1. CASE ~G
  BY <1>1, LeadsSelf DEF CommandMove
<1>2. CASE G
  <2>1. Leads(s, TurnDone(e)) /\ Pends(s, TurnDone(e))
    BY <1>2, PlayStatus, GoodPlay
  <2>2. CommandMove(s, ans, n) = IF Refused(s) THEN s ELSE TurnDone(e)
    BY <1>2, NotAsked DEF CommandMove
  <2> HIDE DEF e
  <2>3. QED
    BY <2>1, <2>2, LeadsSelf
<1>3. QED
  BY <1>1, <1>2

(* A roll, and the play that may follow it at once. *)
LEMMA GoodRoll ==
    ASSUME NEW s, Good(s), NEW ans \in BOOLEAN,
           NEW out \in RollOutcomes(s.ms)
    PROVE  LET t == CommandRoll(s, ans, out)
           IN  Leads(s, t) /\ Pends(s, t)
<1> DEFINE r == Rec("setdice", s.ms.fTurn, 0)
           e == AddMoveRecord(s, r)
           x == Rec("normal", s.ms.fTurn, out)
           f == TurnDone(AddMoveRecord(e, x))
           G == /\ Playing(s) /\ MayAct(s, FALSE) /\ ~s.ms.fDoubled
                /\ s.ms.fResigned = 0 /\ ~s.ms.dice
<1>1. CASE ~G
  BY <1>1, LeadsSelf DEF CommandRoll
<1>2. CASE G
  <2>1. /\ Sound(s.ms) /\ s.ms.gs = "playing" /\ s.ms.fTurn \in Player
        /\ Fits(s.ms, s.lMatch[s.plGame].info)
    BY <1>2, InProgress
  <2>2. r \in Record /\ add_moverecord_sanity_check(r) = "no"
    BY <2>1, Records
  <2>3. /\ Applies(s.ms, s.lMatch[s.plGame].info, r)
        /\ LET t == Applied(s.ms, s.lMatch[s.plGame].info, r).ms
           IN  /\ t.gs = "playing" /\ t.fResigned = 0 /\ ~t.fDoubled
               /\ t.fTurn = s.ms.fTurn /\ View(t) = View(s.ms)
    BY <1>2, <2>1, RollApplies
  <2> HIDE DEF r
  <2>4. /\ Leads(s, e) /\ Playing(e) /\ e.ms.fResigned = 0 /\ ~e.ms.fDoubled
        /\ e.ms.fTurn = s.ms.fTurn /\ View(e.ms) = View(s.ms)
    BY <1>2, <2>2, <2>3, AddRecord DEF Playing, Sees, Rule
  <2>5. Good(e) /\ Keeps(s, e) /\ Pends(s, e)
    BY <1>2, <2>4 DEF Leads, Pends
  <2> HIDE DEF e
  <2>6. out # Choice => out \in 0..3
    <3>1. 0 \in 0..3 /\ Results \subseteq 0..3
      BY SettingsAssumption
    <3>2. QED
      BY <3>1, Zenon DEF RollOutcomes, PlayResults
  <2>7. out # Choice => Leads(e, f) /\ Pends(e, f)
    BY <2>4, <2>5, <2>6, GoodPlay
  <2> HIDE DEF f
  <2>8. out # Choice => Leads(s, f) /\ Pends(s, f)
    BY <1>2, <2>4, <2>5, <2>7, LeadsOn DEF Pends
  <2>9. CommandRoll(s, ans, out)
          = IF Refused(s) THEN s ELSE IF out = Choice THEN e ELSE f
    BY <1>2, NotAsked DEF CommandRoll, r, e, f
  <2>10. QED
    BY <2>4, <2>5, <2>8, <2>9, LeadsSelf
<1>3. QED
  BY <1>1, <1>2

-----------------------------------------------------------------------------
(* The computer's turn. *)

(* The computer's answer to a resignation, with a value of its own choice if
   the player left it open. *)
LEMMA GoodAnswerResignation ==
    ASSUME NEW s, Good(s), Playing(s), s.ms.fResigned # 0, s.prompt # "no",
           NEW ans \in BOOLEAN, NEW t \in AnswerResignation(s, ans)
    PROVE  Leads(s, t)
<1> DEFINE V == IF s.ms.fResigned = -1 THEN 1..3 ELSE {s.ms.fResigned}
           u(v) == [s EXCEPT !.ms = [s.ms EXCEPT !.fResigned = v]]
<1>1. /\ s \in States /\ s.ms \in MatchStates /\ Sound(s.ms) /\ InGame(s.ms)
      /\ s.ms.gs = "playing"
  BY InProgress
<1>2. \/ t = CommandDecline(s, TRUE)
      \/ \E v \in V : t = CommandAgree(u(v), TRUE, ans)
  BY DEF AnswerResignation
<1>3. ASSUME NEW v \in V
      PROVE  Leads(s, CommandAgree(u(v), TRUE, ans))
  <2> DEFINE m == [s.ms EXCEPT !.fResigned = v]
  <2>1. v \in 1..3 /\ s.ms.fResigned \in {-1, v}
    BY <1>1, <1>3, Fields
  <2>2. m \in MatchStates
    <3>1. v \in -1..3
      BY <2>1
    <3>2. QED
      BY <1>1, <3>1 DEF MatchStates
  <2>3. /\ m.gs = s.ms.gs /\ m.fResigned = v /\ m.fDoubled = s.ms.fDoubled
        /\ m.side = s.ms.side /\ m.st = s.ms.st /\ m.fTurn = s.ms.fTurn
        /\ m.fMove = s.ms.fMove /\ m.cGames = s.ms.cGames
        /\ m.fCubeOwner = s.ms.fCubeOwner /\ m.fCrawford = s.ms.fCrawford
        /\ m.nMatchTo = s.ms.nMatchTo /\ m.anScore = s.ms.anScore
        /\ m.nCube = s.ms.nCube /\ m.cBeavers = s.ms.cBeavers
        /\ m.fPostCrawford = s.ms.fPostCrawford
    BY <1>1 DEF MatchStates
  <2> HIDE DEF m
  <2>4. InGame(m)
    BY <1>1, <2>1, <2>3 DEF InGame, Decider
  <2>5. Sound(m)
    BY <1>1, <2>2, <2>3, <2>4 DEF Sound
  <2>6. Good(u(v)) /\ u(v).ms = m /\ Keeps(s, u(v))
    <3>1. u(v) = [s EXCEPT !.ms = m]
      BY DEF m
    <3>2. SameFlags(s.ms, m)
      BY <2>3 DEF SameFlags
    <3> HIDE DEF u
    <3>3. QED
      BY <2>3, <2>5, <3>1, <3>2, NewMs
  <2>7. u(v).prompt # "no"
    BY <1>1 DEF States
  <2> HIDE DEF u
  <2> DEFINE e == CommandAgree(u(v), TRUE, ans)
  <2>8. u(v).ms.fResigned # -1 /\ u(v).ms.fResigned # 0 /\ Playing(u(v))
    BY <1>1, <2>1, <2>3, <2>6 DEF Playing
  <2>9. Leads(u(v), e) /\ VAccept(View(m), View(e.ms))
    BY <2>6, <2>7, <2>8, GoodAgree
  <2> HIDE DEF e
  <2>10. VAccept(View(s.ms), View(e.ms))
    <3>1. /\ View(m).stake = v /\ View(s.ms).stake \in {-1, v}
          /\ View(s.ms).length = View(m).length
          /\ View(s.ms).score = View(m).score
          /\ View(s.ms).cube = View(m).cube
          /\ View(s.ms).playing = View(m).playing
          /\ View(s.ms).resigner = View(m).resigner
      <4>1. m.gs = "playing" /\ v # 0 /\ s.ms.fResigned # 0
        BY <1>1, <2>1, <2>3
      <4>2. View(m).stake = v /\ View(s.ms).stake = s.ms.fResigned
        BY <1>1, <2>2, <2>3, <4>1, ViewPlaying
      <4>3. View(s.ms).resigner = View(m).resigner
        <5>1. View(s.ms).resigner = Other(s.ms.fTurn)
          BY <1>1, <4>1, ViewPlaying
        <5>2. View(m).resigner = Other(m.fTurn)
          BY <2>1, <2>2, <2>3, <4>1, ViewPlaying
        <5>3. QED
          BY <2>3, <5>1, <5>2
      <4>4. /\ View(s.ms).length = View(m).length
            /\ View(s.ms).score = View(m).score
            /\ View(s.ms).cube = View(m).cube
            /\ View(s.ms).playing = View(m).playing
        BY <1>1, <2>2, <2>3, <4>1, ViewPlaying
      <4>5. QED
        BY <2>1, <4>2, <4>3, <4>4
    <3>2. PICK n \in 1..3 :
              /\ View(m).stake \in {-1, n}
              /\ VGain(View(m), View(e.ms), Other(View(m).resigner),
                       View(m).cube * n)
      BY <2>9 DEF VAccept
    <3>3. n = v
      BY <2>1, <3>1, <3>2
    <3>4. VGain(View(s.ms), View(e.ms), Other(View(s.ms).resigner),
                View(s.ms).cube * n)
      BY <3>1, <3>2 DEF VGain
    <3>5. QED
      BY <2>9, <3>1, <3>3, <3>4 DEF VAccept
  <2>11. QED
    BY <2>6, <2>9, <2>10, KeepsOn DEF Leads, Sees, Rule, e
<1>4. QED
  BY <1>2, <1>3, GoodDecline

(* The computer rolls, or plays its roll. *)
LEMMA GoodRollOrMove ==
    ASSUME NEW s, Good(s), Playing(s), s.ms.fResigned = 0, ~s.ms.fDoubled,
           NEW t \in RollOrMove(s)
    PROVE  /\ Leads(s, t)
           /\ s.ms.side = NoOne => View(t.ms) = View(s.ms)
<1>1. /\ s \in States /\ s.ms \in MatchStates /\ Sound(s.ms)
      /\ InGame(s.ms) /\ s.ms.gs = "playing" /\ s.ms.fTurn \in Player
      /\ Fits(s.ms, s.lMatch[s.plGame].info)
  BY InProgress
<1>2. CASE ~s.ms.dice
  <2> DEFINE m == [s.ms EXCEPT !.dice = TRUE]
  <2>1. t = [s EXCEPT !.ms = m]
    BY <1>2 DEF RollOrMove
  <2>2. m \in MatchStates
    BY <1>1 DEF MatchStates
  <2>3. /\ m.gs = s.ms.gs /\ m.fResigned = s.ms.fResigned
        /\ m.fDoubled = s.ms.fDoubled
        /\ m.side = s.ms.side /\ m.st = s.ms.st /\ m.fTurn = s.ms.fTurn
        /\ m.fMove = s.ms.fMove /\ m.cGames = s.ms.cGames
        /\ m.fCubeOwner = s.ms.fCubeOwner /\ m.fCrawford = s.ms.fCrawford
        /\ m.nMatchTo = s.ms.nMatchTo /\ m.anScore = s.ms.anScore
        /\ m.nCube = s.ms.nCube /\ m.cBeavers = s.ms.cBeavers
        /\ m.fPostCrawford = s.ms.fPostCrawford
    BY <1>1 DEF MatchStates
  <2> HIDE DEF m
  <2>4. InGame(m)
    BY <1>1, <2>3 DEF InGame, Decider
  <2>5. Sound(m)
    BY <1>1, <2>2, <2>3, <2>4 DEF Sound
  <2>6. View(m) = View(s.ms)
    BY <2>3 DEF View, Decider
  <2>7. Good(t) /\ t.ms = m /\ Keeps(s, t)
    BY <2>1, <2>3, <2>5, NewMs DEF SameFlags
  <2>8. QED
    BY <2>6, <2>7 DEF Leads, Sees, Rule
<1>3. CASE s.ms.dice
  <2>1. PICK n \in PlayResults(s.ms) :
            t = AddMoveRecord(s, Rec("normal", s.ms.fTurn, n))
    BY <1>3 DEF RollOrMove
  <2>2. QED
    BY <2>1, PlayStatus, GoodPlay
<1>4. QED
  BY <1>2, <1>3

(* Every decision of ComputerTurn. *)
LEMMA GoodComputerTurn ==
    ASSUME NEW s, Good(s), s.prompt # "no", NEW ans \in BOOLEAN,
           NEW t \in ComputerTurn(s, ans)
    PROVE  Leads(s, t)
<1>1. CASE ~Playing(s)
  BY <1>1, LeadsSelf DEF ComputerTurn
<1>2. CASE Playing(s) /\ s.ms.fResigned # 0
  BY <1>2, GoodAnswerResignation DEF ComputerTurn
<1>3. CASE Playing(s) /\ s.ms.fResigned = 0 /\ s.ms.fDoubled
  <2>1. t \in {CommandTake(s, TRUE, ans), CommandDrop(s, TRUE, ans),
               CommandRedouble(s, TRUE, ans)}
    BY <1>3 DEF ComputerTurn, AnswerDouble
  <2>2. QED
    BY <1>3, <2>1, GoodTakeDrop, GoodRedouble
<1>4. CASE Playing(s) /\ s.ms.fResigned = 0 /\ ~s.ms.fDoubled
  <2>1. t \in OfferResignation(s) \/ t \in OfferDouble(s, ans)
          \/ t \in RollOrMove(s)
    BY <1>4 DEF ComputerTurn
  <2>2. CASE t \in OfferResignation(s)
    <3>1. PICK v \in 1..3 : t = CommandResign(s, TRUE, v)
      BY <2>2 DEF OfferResignation
    <3>2. v \in -1..3 /\ v # -1
      OBVIOUS
    <3>3. QED
      BY <1>4, <3>1, <3>2, GoodResign
  <2>3. CASE t \in OfferDouble(s, ans)
    <3>1. t = CommandDouble(s, TRUE, ans)
      BY <2>3 DEF OfferDouble
    <3>2. QED
      BY <1>4, <3>1, GoodDouble
  <2>4. CASE t \in RollOrMove(s)
    BY <1>4, <2>4, GoodRollOrMove
  <2>5. QED
    BY <2>1, <2>2, <2>3, <2>4
<1>5. QED
  BY <1>1, <1>2, <1>3, <1>4

(* In the first turn of a game the computer plays its opening roll, which
   nobody sees, or offers to resign. *)
LEMMA FirstTurn ==
    ASSUME NEW s, Good(s), Playing(s), s.ms.fResigned = 0, ~s.ms.fDoubled,
           s.ms.dice, s.ms.side = NoOne,
           NEW ans \in BOOLEAN, NEW t \in ComputerTurn(s, ans)
    PROVE  /\ Good(t) /\ Keeps(s, t)
           /\ View(t.ms) = View(s.ms) \/ VOffer(View(s.ms), View(t.ms))
<1>1. t \in OfferResignation(s) \/ t \in RollOrMove(s)
  BY DEF ComputerTurn, OfferDouble
<1>2. CASE t \in OfferResignation(s)
  <2>1. PICK v \in 1..3 : t = CommandResign(s, TRUE, v)
    BY <1>2 DEF OfferResignation
  <2>2. v \in -1..3 /\ v # -1
    OBVIOUS
  <2>3. QED
    BY <2>1, <2>2, GoodResign DEF Leads
<1>3. CASE t \in RollOrMove(s)
  BY <1>3, GoodRollOrMove DEF Leads
<1>4. QED
  BY <1>1, <1>2, <1>3

-----------------------------------------------------------------------------
(* New games. *)

(* A game may start: ms carries on from the last game of the list. *)
Ready(s) ==
    /\ s \in States /\ s.aborted = "no" /\ Sound(s.ms) /\ Unwon(s.ms)
    /\ Chained(s.lMatch)
    /\ s.lMatch # <<>> =>
          LET g == s.lMatch[Len(s.lMatch)].info
          IN  /\ g.fWinner # NoOne
              /\ s.ms.anScore = ScoreAfter(g) /\ s.ms.cGames = g.i + 1
              /\ s.ms.nMatchTo = g.nMatch

(* A game has been appended to list l, with the score and the Crawford flag
   of match state m. *)
Opens(l, m, n) ==
    LET k == Len(l) + 1
    IN  /\ n.plGame = k /\ Len(n.lMatch) = k
        /\ \A j \in 1..(k - 1) : SameStart(l[j].info, n.lMatch[j].info)
        /\ n.lMatch[k].info.anScore = m.anScore
        /\ n.lMatch[k].info.nMatch = m.nMatchTo
        /\ n.lMatch[k].info.fCrawfordGame = m.fCrawford
        /\ n.ms.fCrawford = m.fCrawford
        /\ n.ms.fPostCrawford = (~m.fCrawford /\
               \E p \in Player : m.anScore[p] = m.nMatchTo - 1)

(* The players see the start of a game. *)
SeesStart(m, n) ==
    CrawfordDue(m) => VStart(m.nMatchTo, m.anScore, View(n))

(* A game that has started, before or after the first play. *)
Begins(l, m, t) ==
    Good(t) /\ Playing(t) /\ Opens(l, m, t) /\ SeesStart(m, t.ms)

(* NewGame appends a game that follows the last one; the assertion on its
   GAMEINFO record holds because the match is not won. *)
LEMMA GoodNewGame ==
    ASSUME NEW s, Ready(s), NEW n \in NewGames(s)
    PROVE  /\ Begins(s.lMatch, s.ms, n)
           /\ n.ms.fResigned = 0 /\ ~n.ms.fDoubled /\ n.ms.dice
           /\ n.ms.side = NoOne /\ View(n.ms).resigner = NoOne
<1>1. PICK w \in Player, a \in AutoDoubles(s.ms) : n = NewGame(s, w, a)
  BY DEF NewGames
<1> DEFINE r == Rec("setdice", w, 0)
           h == OpeningInfo(s.ms, a)
           o == OpeningState(s.ms, a)
           new == [info |-> h, recs |-> <<>>]
           l == Append(s.lMatch, new)
           k == Len(s.lMatch) + 1
           p == [s EXCEPT !.lMatch = l, !.plGame = k, !.plLastMove = 0,
                          !.ms = o]
<1>2. /\ gameinfo_sanity_check(NewGameInfo(s.ms)) = "no"
      /\ o \in MatchStates /\ h \in GameInfo
      /\ h.i = s.ms.cGames /\ h.anScore = s.ms.anScore
      /\ h.nMatch = s.ms.nMatchTo
      /\ h.fCrawfordGame = s.ms.fCrawford
      /\ Applies(o, h, r)
      /\ LET t == Applied(o, h, r).ms
         IN  /\ t.gs = "playing" /\ t.fResigned = 0 /\ ~t.fDoubled
             /\ t.dice /\ t.side = NoOne /\ t.fCrawford = s.ms.fCrawford
             /\ t.fPostCrawford = (~s.ms.fCrawford /\
                    \E q \in Player : s.ms.anScore[q] = s.ms.nMatchTo - 1)
             /\ CrawfordDue(s.ms) =>
                    VStart(s.ms.nMatchTo, s.ms.anScore, View(t))
             /\ View(t).resigner = NoOne
  BY OpeningApplies DEF Ready
<1>3. s \in States /\ s.aborted = "no" /\ s.lMatch \in Seq(Game)
  BY DEF Ready, States
<1>4. n = AddMoveRecord(p, r)
  BY <1>1, <1>2 DEF NewGame, OpeningInfo, OpeningState
<1>5. r \in Record /\ add_moverecord_sanity_check(r) = "no"
  BY Records
<1> HIDE DEF h, o, r
<1>6. new \in Game
  BY <1>2 DEF Game
<1>7. new.info = h /\ new.recs = <<>>
  OBVIOUS
<1> HIDE DEF new
<1>8. /\ l \in Seq(Game) /\ Len(l) = k /\ k \in Nat /\ k >= 1 /\ l[k] = new
      /\ \A j \in 1..(k - 1) : l[j] = s.lMatch[j]
  BY <1>3, <1>6
<1>9. Chained(l)
  <2>1. SUFFICES ASSUME NEW j \in 1..(k - 1)
                 PROVE  Follows(l[j].info, l[j+1].info)
    BY <1>8 DEF Chained
  <2>2. CASE j + 1 = k
    <3>1. s.lMatch # <<>> /\ j = Len(s.lMatch) /\ l[j] = s.lMatch[j]
      BY <1>3, <1>8, <2>2
    <3>2. QED
      BY <1>2, <1>7, <1>8, <2>2, <3>1 DEF Ready, Follows
  <2>3. CASE j + 1 # k
    <3>1. j + 1 \in 1..(k - 1) /\ j \in 1..(Len(s.lMatch) - 1)
      BY <1>3, <2>3
    <3>2. QED
      BY <1>8, <3>1 DEF Ready, Chained
  <2>4. QED
    BY <2>2, <2>3
<1> HIDE DEF l, k
<1>10. p \in States
  BY <1>2, <1>3, <1>8 DEF States
<1>11. /\ p.lMatch = l /\ p.plGame = k /\ p.plLastMove = 0 /\ p.ms = o
       /\ p.aborted = "no"
  BY <1>3 DEF States
<1> HIDE DEF p
<1>12. /\ p.plGame \in 1..Len(p.lMatch)
       /\ p.lMatch[p.plGame].info = h
       /\ p.plLastMove <= Len(p.lMatch[p.plGame].recs)
  BY <1>7, <1>8, <1>11
<1>13. Good(n) /\ n.ms = Applied(o, h, r).ms /\ Keeps(p, n)
  <2>1. p.plGame = Len(p.lMatch)
    BY <1>8, <1>11
  <2>2. QED
    BY <1>2, <1>4, <1>5, <1>9, <1>10, <1>11, <1>12, <2>1, GoodAddMoveRecord
<1>14. Opens(s.lMatch, s.ms, n)
  <2>1. /\ n.plGame = k /\ Len(n.lMatch) = k
        /\ \A j \in 1..k : SameStart(l[j].info, n.lMatch[j].info)
    BY <1>8, <1>11, <1>13 DEF Keeps
  <2>2. SameStart(h, n.lMatch[k].info)
    BY <1>7, <1>8, <2>1
  <2>3. \A j \in 1..(k - 1) :
           SameStart(s.lMatch[j].info, n.lMatch[j].info)
    <3>1. SUFFICES ASSUME NEW j \in 1..(k - 1)
                   PROVE  SameStart(s.lMatch[j].info, n.lMatch[j].info)
      OBVIOUS
    <3>2. j \in 1..k /\ l[j] = s.lMatch[j]
      BY <1>8
    <3>3. QED
      BY <2>1, <3>2
  <2>4. k = Len(s.lMatch) + 1
    BY DEF k
  <2>5. QED
    BY <1>2, <1>13, <2>1, <2>2, <2>3, <2>4 DEF Opens, SameStart
<1>15. SeesStart(s.ms, n.ms)
  BY <1>2, <1>13 DEF SeesStart
<1>16. QED
  BY <1>2, <1>13, <1>14, <1>15 DEF Playing, Begins

(* The flags of the current score, and starting to play automatically. *)
LEMMA GoodStartAutomaticPlay ==
    ASSUME NEW s
    PROVE  LET t == StartAutomaticPlay(s)
           IN  /\ Good(s) => /\ Good(t) /\ Leads(s, t) /\ t.ms = s.ms
                             /\ t.prompt = s.prompt
               /\ Ready(s) => /\ Ready(t) /\ t.ms = s.ms
                              /\ t.lMatch = s.lMatch
                              /\ t.prompt = s.prompt
<1> DEFINE t == [s EXCEPT !.automaticTask = TRUE]
<1>1. StartAutomaticPlay(s) = t \/ StartAutomaticPlay(s) = s
  BY DEF StartAutomaticPlay
<1>2. s \in States =>
        /\ t \in States /\ t.ms = s.ms /\ t.lMatch = s.lMatch
        /\ t.plGame = s.plGame /\ t.plLastMove = s.plLastMove
        /\ t.aborted = s.aborted /\ t.prompt = s.prompt
  BY DEF States
<1> HIDE DEF t
<1>3. Good(s) => Good(t) /\ Leads(s, t)
  BY <1>2, NewFlags DEF Good
<1>4. Ready(s) => Ready(t)
  BY <1>2 DEF Ready
<1>5. QED
  BY <1>1, <1>2, <1>3, <1>4, LeadsSelf DEF Good, Ready

(* The first turn does not change how the game started. *)
LEMMA BeginsOn ==
    ASSUME NEW l, Len(l) \in Nat, NEW m, NEW n, Begins(l, m, n),
           View(n.ms).resigner = NoOne, NEW t, Good(t), Keeps(n, t),
           View(t.ms) = View(n.ms) \/ VOffer(View(n.ms), View(t.ms))
    PROVE  Begins(l, m, t)
<1> DEFINE k == Len(l) + 1
<1>1. /\ n.plGame = k /\ Len(n.lMatch) = k
      /\ \A j \in 1..(k - 1) : SameStart(l[j].info, n.lMatch[j].info)
      /\ n.lMatch[k].info.anScore = m.anScore
      /\ n.lMatch[k].info.nMatch = m.nMatchTo
      /\ n.lMatch[k].info.fCrawfordGame = m.fCrawford
  BY DEF Begins, Opens
<1>2. /\ t.plGame = k /\ Len(t.lMatch) = k
      /\ \A j \in 1..k : SameStart(n.lMatch[j].info, t.lMatch[j].info)
      /\ SameFlags(n.ms, t.ms)
  BY <1>1 DEF Keeps
<1>3. k \in 1..k /\ \A j \in 1..(k - 1) : j \in 1..k
  OBVIOUS
<1>4. \A j \in 1..(k - 1) : SameStart(l[j].info, t.lMatch[j].info)
  <2> HIDE DEF k
  <2>1. QED
    BY <1>1, <1>2, <1>3 DEF SameStart
<1>5. SameStart(n.lMatch[k].info, t.lMatch[k].info)
  BY <1>2, <1>3
<1>6. Opens(l, m, t)
  BY <1>1, <1>2, <1>4, <1>5 DEF Begins, Opens, SameStart, SameFlags
<1>7. Playing(t)
  <2>1. View(t.ms).playing = View(n.ms).playing
    BY DEF VOffer, SameGame
  <2>2. QED
    BY <2>1 DEF View, Begins, Playing
<1>8. SeesStart(m, t.ms)
  <2>1. SUFFICES ASSUME VStart(m.nMatchTo, m.anScore, View(n.ms)),
                        VOffer(View(n.ms), View(t.ms))
                 PROVE  VStart(m.nMatchTo, m.anScore, View(t.ms))
    BY DEF Begins, SeesStart
  <2> DEFINE v == View(n.ms)
             w == View(t.ms)
  <2> HIDE DEF v, w
  <2>2. VStart(m.nMatchTo, m.anScore, v) /\ VOffer(v, w)
    BY <2>1 DEF v, w
  <2>3. v.doubler = NoOne /\ NoOne \notin Player
    BY <2>2 DEF VStart, Player, NoOne
  <2>4. w.resigner \in Player /\ w.stake \in {-1, 1, 2, 3}
    BY <2>2, <2>3 DEF VOffer
  <2>5. SameGame(v, w) /\ SameCube(v, w) /\ SameDoubler(v, w)
    BY <2>2 DEF VOffer
  <2>6. VStart(m.nMatchTo, m.anScore, w)
    BY <2>2, <2>4, <2>5, Zenon DEF VStart, SameGame, SameCube, SameDoubler
  <2>7. QED
    BY <2>6 DEF w
<1>9. QED
  BY <1>6, <1>7, <1>8 DEF Begins

(* A new game, and the first turn if it is the computer's. *)
LEMMA FirstPlay ==
    ASSUME NEW s, Ready(s), NEW n \in NewGames(s), NEW ans \in BOOLEAN,
           NEW t, t = n \/ \E u \in ComputerTurn(n, ans) : t = TurnDone(u)
    PROVE  Begins(s.lMatch, s.ms, t)
<1>1. /\ Begins(s.lMatch, s.ms, n) /\ n.ms.fResigned = 0
      /\ ~n.ms.fDoubled /\ n.ms.dice /\ n.ms.side = NoOne
      /\ View(n.ms).resigner = NoOne
  BY GoodNewGame
<1>2. Good(n) /\ Playing(n)
  BY <1>1 DEF Begins
<1>3. ASSUME NEW u \in ComputerTurn(n, ans), t = TurnDone(u)
      PROVE  Begins(s.lMatch, s.ms, t)
  <2>1. /\ Good(u) /\ Keeps(n, u)
        /\ View(u.ms) = View(n.ms) \/ VOffer(View(n.ms), View(u.ms))
    BY <1>1, <1>2, FirstTurn
  <2>2. Good(t) /\ t.ms = u.ms /\ Keeps(n, t)
    BY <1>3, <2>1, GoodTurnDone, KeepsOn
  <2>3. Len(s.lMatch) \in Nat
    BY DEF Ready, States
  <2>4. QED
    BY <1>1, <2>1, <2>2, <2>3, BeginsOn
<1>4. QED
  BY <1>1, <1>3

(* StartNewGame. *)
LEMMA GoodStartNewGame ==
    ASSUME NEW s, Ready(s), NEW ans \in BOOLEAN,
           NEW t \in StartNewGame(s, ans)
    PROVE  Begins(s.lMatch, s.ms, t)
<1>1. PICK n \in NewGames(s) :
          t \in IF n.aborted # "no" \/ PlayerType[n.ms.fTurn] = "human"
                THEN {n} ELSE {TurnDone(u) : u \in ComputerTurn(n, ans)}
  BY DEF StartNewGame
<1>2. t = n \/ \E u \in ComputerTurn(n, ans) : t = TurnDone(u)
  BY <1>1
<1>3. QED
  BY <1>2, FirstPlay

(* Once a game is over the next one may start, unless the match is won. *)
LEMMA ReadyAfterGame ==
    ASSUME NEW s, Good(s), ~Playing(s), Unwon(s.ms)
    PROVE  Ready(s)
<1>1. /\ s \in States /\ s.aborted = "no" /\ Sound(s.ms) /\ Placed(s)
      /\ s.ms \in MatchStates
  BY DEF Good, Sound
<1>2. s.lMatch \in Seq(Game) /\ s.ms.gs \in GameState
  BY <1>1, Fields DEF States
<1>3. CASE s.plGame = 0
  BY <1>1, <1>3 DEF Ready, Placed
<1>4. CASE s.plGame # 0
  <2>1. Ended(s.ms)
    BY <1>1, <1>2, <1>4 DEF Placed, Playing, Ended, GameState
  <2>2. QED
    BY <1>1, <1>4, <2>1, Players DEF Placed, Ready, Fits
<1>5. QED
  BY <1>3, <1>4

(* A game in progress may be given up for another with the same score. *)
LEMMA ReadyAfterPop ==
    ASSUME NEW s, Good(s), Playing(s)
    PROVE  /\ Ready(PopGame(s)) /\ PopGame(s).ms = s.ms
           /\ PopGame(s).lMatch = SubSeq(s.lMatch, 1, s.plGame - 1)
<1> DEFINE k == s.plGame
           cut == SubSeq(s.lMatch, 1, k - 1)
           t == PopGame(s)
<1>1. /\ s \in States /\ s.aborted = "no" /\ Chained(s.lMatch)
      /\ k \in 1..Len(s.lMatch) /\ Sound(s.ms) /\ s.ms.gs = "playing"
      /\ Fits(s.ms, s.lMatch[k].info)
  BY InProgress
<1>2. s.lMatch \in Seq(Game)
  BY <1>1 DEF States
<1>3. /\ cut \in Seq(Game) /\ Len(cut) = k - 1
      /\ \A j \in 1..(k - 1) : cut[j] = s.lMatch[j]
  BY <1>1, <1>2
<1> HIDE DEF cut
<1>4. t = [s EXCEPT !.lMatch = cut, !.plGame = 0, !.plLastMove = 0]
  BY DEF PopGame, cut
<1>5. /\ t \in States /\ t.lMatch = cut /\ t.ms = s.ms
      /\ t.aborted = "no"
  <2>1. s \in States /\ cut \in Seq(Game) /\ 0 \in Nat /\ s.aborted = "no"
    BY <1>1, <1>3
  <2> DEFINE e == [s EXCEPT !.lMatch = cut, !.plGame = 0, !.plLastMove = 0]
  <2>2. e \in States
    BY <2>1 DEF States
  <2>3. e.lMatch = cut /\ e.ms = s.ms /\ e.aborted = "no"
    BY <2>1 DEF States
  <2>4. QED
    BY <1>4, <2>2, <2>3
<1> HIDE DEF t
<1>6. Chained(cut)
  <2>1. SUFFICES ASSUME NEW j \in 1..(Len(cut) - 1)
                 PROVE  Follows(cut[j].info, cut[j+1].info)
    BY DEF Chained
  <2>2. /\ j \in 1..(Len(s.lMatch) - 1) /\ j \in 1..(k - 1)
        /\ j + 1 \in 1..(k - 1)
    BY <1>1, <1>2, <1>3
  <2>3. QED
    BY <1>1, <1>3, <2>2 DEF Chained
<1>7. Unwon(t.ms)
  BY <1>1, <1>5 DEF Fits, Unwon
<1>8. ASSUME cut # <<>>
      PROVE  LET g == cut[Len(cut)].info
             IN  /\ g.fWinner # NoOne
                 /\ s.ms.anScore = ScoreAfter(g) /\ s.ms.cGames = g.i + 1
                 /\ s.ms.nMatchTo = g.nMatch
  <2>1. k - 1 \in 1..(Len(s.lMatch) - 1)
    BY <1>1, <1>2, <1>3, <1>8
  <2>2. cut[Len(cut)] = s.lMatch[k - 1] /\ (k - 1) + 1 = k
    BY <1>1, <1>3, <2>1
  <2>3. Follows(s.lMatch[k - 1].info, s.lMatch[k].info)
    BY <1>1, <2>1, <2>2 DEF Chained
  <2>4. QED
    BY <1>1, <2>2, <2>3 DEF Follows, Fits
<1>9. QED
  BY <1>1, <1>5, <1>6, <1>7, <1>8 DEF Ready, t, cut

(* The games before the one that `new game' starts: a game in progress is
   abandoned, and its points are not counted. *)
Before(s) == IF Playing(s) THEN SubSeq(s.lMatch, 1, s.plGame - 1)
             ELSE s.lMatch

(* CommandNewGame starts the next game, unless the match is over or the user
   thinks better of it. *)
LEMMA NewGameStarts ==
    ASSUME NEW s, Good(s), s.prompt # "no", NEW ans \in BOOLEAN,
           NEW t \in CommandNewGame(s, ans)
    PROVE  \/ t = s
           \/ t = Answer(s, ans) /\ Playing(s) /\ t.prompt = "no"
           \/ \E p : /\ Ready(p) /\ p.ms = s.ms /\ p.lMatch = Before(s)
                     /\ p.prompt # "no" /\ t \in StartNewGame(p, ans)
<1> DEFINE q == IF ConfirmNew THEN Answer(s, ans) ELSE s
<1>1. CASE MatchOver(s.ms)
  BY <1>1 DEF CommandNewGame
<1>2. CASE ~MatchOver(s.ms) /\ ~Playing(s) /\ move_is_last_in_match(s)
  <2>1. Unwon(s.ms)
    <3>1. s.ms.anScore \in [Player -> Nat] /\ s.ms.nMatchTo \in Nat
      BY Fields DEF Good, Sound
    <3>2. QED
      BY <1>2, <3>1 DEF MatchOver, Unwon
  <2> DEFINE p == StartAutomaticPlay(s)
  <2>2. /\ Ready(p) /\ p.ms = s.ms /\ p.lMatch = s.lMatch
        /\ p.prompt = s.prompt
    BY <1>2, <2>1, ReadyAfterGame, GoodStartAutomaticPlay
  <2>3. t \in StartNewGame(p, ans)
    BY <1>2 DEF CommandNewGame
  <2> HIDE DEF p
  <2>4. QED
    BY <1>2, <2>2, <2>3 DEF Before
<1>3. CASE ~MatchOver(s.ms) /\ ~(~Playing(s) /\ move_is_last_in_match(s))
  <2>1. Playing(s)
    BY <1>3 DEF Good, Placed, move_is_last_in_match
  <2>2. /\ Good(q) /\ Playing(q) /\ q.ms = s.ms
        /\ q.lMatch = s.lMatch /\ q.plGame = s.plGame
    BY <2>1, GoodAnswer DEF Playing
  <2>3. q = s \/ q = Answer(s, ans)
    OBVIOUS
  <2>4. q \in States
    BY <2>2 DEF Good
  <2> DEFINE e == PopGame(q)
             p == StartAutomaticPlay(e)
  <2>5. \/ t = q /\ q.prompt = "no"
        \/ q.prompt # "no" /\ t \in StartNewGame(p, ans)
    BY <1>3 DEF CommandNewGame, Refused
  <2> HIDE DEF q
  <2>6. e.prompt = q.prompt
    BY <2>4 DEF PopGame, States
  <2>7. /\ Ready(e) /\ e.ms = s.ms
        /\ e.lMatch = SubSeq(s.lMatch, 1, s.plGame - 1)
    BY <2>2, ReadyAfterPop
  <2> HIDE DEF e
  <2>8. /\ Ready(p) /\ p.ms = s.ms /\ p.prompt = q.prompt
        /\ p.lMatch = SubSeq(s.lMatch, 1, s.plGame - 1)
    BY <2>6, <2>7, GoodStartAutomaticPlay
  <2> HIDE DEF p
  <2>9. CASE t = q /\ q.prompt = "no"
    BY <2>1, <2>3, <2>9
  <2>10. CASE q.prompt # "no" /\ t \in StartNewGame(p, ans)
    BY <2>1, <2>8, <2>10 DEF Before
  <2>11. QED
    BY <2>5, <2>9, <2>10
<1>4. QED
  BY <1>1, <1>2, <1>3

(* The game it starts. *)
LEMMA GoodCommandNewGame ==
    ASSUME NEW s, Good(s), s.prompt # "no", NEW ans \in BOOLEAN,
           NEW t \in CommandNewGame(s, ans)
    PROVE  \/ Leads(s, t) /\ Pends(s, t)
           \/ Unwon(s.ms) /\ Begins(Before(s), s.ms, t)
<1>1. CASE t = s
  BY <1>1, LeadsSelf
<1>2. CASE t = Answer(s, ans) /\ Playing(s)
  BY <1>2, GoodAnswer DEF Pends, Playing
<1>3. ASSUME NEW p, Ready(p), p.ms = s.ms, p.lMatch = Before(s),
             t \in StartNewGame(p, ans)
      PROVE  Unwon(s.ms) /\ Begins(Before(s), s.ms, t)
  BY <1>3, GoodStartNewGame DEF Ready
<1>4. QED
  BY <1>1, <1>2, <1>3, NewGameStarts

(* A match to n points may start. *)
MatchReady(p, n) ==
    /\ Ready(p) /\ p.lMatch = <<>> /\ p.prompt # "no"
    /\ p.ms.nMatchTo = n /\ p.ms.fCrawford = FALSE
    /\ p.ms.anScore = [x \in Player |-> 0]

(* CommandNewMatch starts a list of games of its own, and the score. *)
LEMMA NewMatchStarts ==
    ASSUME NEW s, Good(s), s.prompt # "no", NEW ans \in BOOLEAN,
           NEW n \in Nat, NEW t \in CommandNewMatch(s, n, ans)
    PROVE  \/ t = Answer(s, ans) /\ Playing(s) /\ t.prompt = "no"
           \/ \E p : MatchReady(p, n) /\ t \in StartNewGame(p, ans)
<1> DEFINE q == get_input_discard(s, ans)
           m == [[q.ms EXCEPT !.nMatchTo = 0, !.cGames = 0,
                              !.anScore = [p \in Player |-> 0],
                              !.fMove = NoOne, !.fTurn = NoOne,
                              !.fCrawford = FALSE, !.fPostCrawford = FALSE,
                              !.gs = "none"] EXCEPT !.nMatchTo = n]
           c == [ClearMatch(q) EXCEPT !.ms.nMatchTo = n]
           d == [q EXCEPT !.lMatch = <<>>, !.plGame = 0, !.plLastMove = 0,
                          !.ms = m]
<1>1. Good(q) /\ (q = s \/ (Playing(s) /\ q = Answer(s, ans)))
  BY GoodAnswer DEF get_input_discard
<1>2. Refused(q) => t = q
  BY DEF CommandNewMatch
<1>3. ~Refused(q) => t \in CommandNewGame(c, ans)
  BY DEF CommandNewMatch
<1> HIDE DEF q
<1>4. q \in States /\ q.ms \in MatchStates /\ q.aborted = "no"
  BY <1>1 DEF Good, Sound
<1>5. m \in MatchStates
  <2>1. [p \in Player |-> 0] \in [Player -> Nat] /\ "none" \in GameState
    BY DEF GameState
  <2>2. QED
    BY <1>4, <2>1, Players DEF MatchStates
<1>6. /\ m.gs = "none" /\ m.cGames = 0 /\ m.fCrawford = FALSE
      /\ m.anScore = [p \in Player |-> 0] /\ m.nMatchTo = n
  BY <1>4 DEF MatchStates
<1>7. \A p \in Player : m.anScore[p] = 0
  BY <1>6
<1>8. c = d
  BY <1>4 DEF ClearMatch, States
<1> HIDE DEF m, c
<1>9. Sound(m)
  BY <1>5, <1>6, <1>7 DEF Sound, Player
<1>10. /\ d \in States /\ d.ms = m /\ d.lMatch = <<>> /\ d.plGame = 0
       /\ d.aborted = "no" /\ d.prompt = q.prompt
  <2>1. <<>> \in Seq(Game)
    OBVIOUS
  <2>2. d \in States
    BY <1>4, <1>5, <2>1 DEF States
  <2>3. QED
    BY <1>4, <2>2 DEF States
<1> HIDE DEF d
<1>11. Good(c) /\ c.ms = m /\ c.lMatch = <<>> /\ ~Playing(c)
  BY <1>6, <1>8, <1>9, <1>10 DEF Good, Placed, Chained, Playing
<1>12. c.prompt # "no" <=> ~Refused(q)
  BY <1>8, <1>10 DEF Refused
<1>13. ~MatchOver(m)
  BY <1>6, <1>7 DEF MatchOver, Player
<1>14. CASE ~Refused(q)
  <2> DEFINE p == StartAutomaticPlay(c)
  <2>1. Unwon(m)
    BY <1>6, <1>7 DEF Unwon
  <2>2. Ready(c) /\ c.prompt # "no"
    BY <1>11, <1>12, <1>14, <2>1, ReadyAfterGame
  <2>3. Ready(p) /\ p.ms = m /\ p.lMatch = <<>> /\ p.prompt # "no"
    BY <1>11, <2>2, GoodStartAutomaticPlay
  <2>4. c.plGame = 0
    BY <1>8, <1>10
  <2>5. t \in StartNewGame(p, ans)
    BY <1>3, <1>11, <1>13, <1>14, <2>4
       DEF CommandNewGame, move_is_last_in_match
  <2> HIDE DEF p
  <2>6. MatchReady(p, n)
    BY <1>6, <2>3 DEF MatchReady
  <2>7. QED
    BY <2>5, <2>6
<1>15. CASE Refused(q)
  BY <1>1, <1>2, <1>15 DEF Refused
<1>16. QED
  BY <1>14, <1>15

(* The game it starts. *)
LEMMA GoodCommandNewMatch ==
    ASSUME NEW s, Good(s), s.prompt # "no", NEW ans \in BOOLEAN,
           NEW n \in Nat, NEW t \in CommandNewMatch(s, n, ans)
    PROVE  \/ Leads(s, t) /\ Pends(s, t)
           \/ \E m : /\ m.nMatchTo = n /\ m.anScore = [p \in Player |-> 0]
                     /\ ~m.fCrawford /\ m.fCrawford \in BOOLEAN
                     /\ Begins(<<>>, m, t)
<1>1. CASE t = Answer(s, ans) /\ Playing(s)
  BY <1>1, GoodAnswer DEF Pends, Playing
<1>2. ASSUME NEW p, MatchReady(p, n), t \in StartNewGame(p, ans)
      PROVE  \E m : /\ m.nMatchTo = n /\ m.anScore = [x \in Player |-> 0]
                    /\ ~m.fCrawford /\ m.fCrawford \in BOOLEAN
                    /\ Begins(<<>>, m, t)
  <2>1. Begins(<<>>, p.ms, t)
    BY <1>2, GoodStartNewGame DEF MatchReady
  <2>2. QED
    BY <1>2, <2>1 DEF MatchReady
<1>3. \/ t = Answer(s, ans) /\ Playing(s) /\ t.prompt = "no"
      \/ \E p : MatchReady(p, n) /\ t \in StartNewGame(p, ans)
  BY NewMatchStarts
<1>4. QED
  BY <1>1, <1>2, <1>3

-----------------------------------------------------------------------------
(* NextTurn. *)

(* The turn NextTurn goes on with, of a game in progress. *)
LEMMA GoodPlayNext ==
    ASSUME NEW s, Good(s), Playing(s), s.prompt # "no", NEW ans \in BOOLEAN,
           NEW t \in PlayNext(s, ans)
    PROVE  Leads(s, t) /\ (Playing(t) \/ t.fNextTurn)
<1>1. s.aborted = "no"
  BY DEF Good
<1>2. \/ t = s
      \/ \E o \in RollOutcomes(s.ms) : t = CommandRoll(s, ans, o)
      \/ \E u \in ComputerTurn(s, ans) : t = TurnDone(u)
  BY <1>1 DEF PlayNext
<1>3. CASE t = s
  BY <1>3, LeadsSelf
<1>4. ASSUME NEW o \in RollOutcomes(s.ms), t = CommandRoll(s, ans, o)
      PROVE  Leads(s, t) /\ Pends(s, t)
  BY <1>4, GoodRoll
<1>5. ASSUME NEW u \in ComputerTurn(s, ans), t = TurnDone(u)
      PROVE  Leads(s, t) /\ t.fNextTurn
  <2>1. Leads(s, u) /\ Good(u)
    BY GoodComputerTurn DEF Leads
  <2>2. QED
    BY <1>5, <2>1, GoodTurnDone
<1>6. QED
  BY <1>2, <1>3, <1>4, <1>5 DEF Pends

(* The first turn of a game that NextTurn starts: the dice are rolled. *)
LEMMA GoodPlayFirst ==
    ASSUME NEW s, Ready(s), NEW n \in NewGames(s), NEW ans \in BOOLEAN,
           NEW t \in PlayNext(n, ans)
    PROVE  Begins(s.lMatch, s.ms, t)
<1>1. Good(n) /\ Playing(n) /\ n.ms.dice
  BY GoodNewGame DEF Begins
<1>2. t = n \/ \E u \in ComputerTurn(n, ans) : t = TurnDone(u)
  BY <1>1 DEF PlayNext, MustRoll, Good
<1>3. QED
  BY <1>2, FirstPlay

(* The Crawford game comes up only with `automatic crawford', and only in
   matches to more than a point. *)
LEMMA SoundCrawford ==
    ASSUME NEW m, Sound(m), NEW g, Fits(m, g), Ended(m)
    PROVE  LET t == SetCrawfordFlags(m, g.fWinner)
           IN  /\ Sound(t) /\ t.gs = m.gs /\ t.anScore = m.anScore
               /\ t.cGames = m.cGames /\ t.nMatchTo = m.nMatchTo
<1> DEFINE w == g.fWinner
           post == \/ m.fPostCrawford
                   \/ (m.fCrawford /\ m.anScore[w] < m.nMatchTo)
           craw == /\ ~post /\ ~m.fCrawford
                   /\ m.anScore[w] = m.nMatchTo - 1
                   /\ m.anScore[Other(w)] # m.nMatchTo - 1
           t == [m EXCEPT !.fPostCrawford = post, !.fCrawford = craw]
<1>1. /\ m \in MatchStates /\ m.nMatchTo \in Nat
      /\ m.fPostCrawford \in BOOLEAN
  BY Fields DEF Sound
<1>2. post \in BOOLEAN /\ craw \in BOOLEAN
  BY <1>1
<1>3. craw => m.nMatchTo > 1
  <2>1. /\ w \in Player /\ g \in GameInfo /\ g.nPoints >= 1
        /\ m.anScore = ScoreAfter(g) /\ w # NoOne
    BY Players DEF Fits
  <2>2. g.anScore \in [Player -> Nat] /\ g.nPoints \in Nat
    BY <2>1 DEF GameInfo
  <2>3. m.anScore[w] = g.anScore[w] + g.nPoints
    BY <2>1, <2>2 DEF ScoreAfter
  <2>4. m.anScore[w] >= 1
    BY <2>1, <2>2, <2>3
  <2>5. QED
    BY <1>1, <2>1, <2>2, <2>3, <2>4
<1> HIDE DEF post, craw
<1>4. t \in MatchStates
  BY <1>1, <1>2 DEF MatchStates
<1>5. /\ t.gs = m.gs /\ t.anScore = m.anScore /\ t.cGames = m.cGames
      /\ t.nMatchTo = m.nMatchTo /\ t.st = m.st /\ t.fCrawford = craw
  BY <1>1 DEF MatchStates
<1> HIDE DEF t
<1>6. AutoCrawford => Sound(t)
  BY <1>3, <1>4, <1>5 DEF Sound, Ended
<1>7. SetCrawfordFlags(m, w)
        = IF m.nMatchTo > 0 /\ AutoCrawford THEN t ELSE m
  BY DEF SetCrawfordFlags, t, post, craw
<1>8. QED
  BY <1>5, <1>6, <1>7

(* The match state once NextTurn has dealt with the end of the game. *)
Settled(s) == SetCrawfordFlags(s.ms, s.lMatch[s.plGame].info.fWinner)

(* Nothing is left to be done: the match is over, or the user starts the next
   game. *)
Rests(s, t) ==
    /\ Good(t) /\ t.lMatch = s.lMatch /\ t.plGame = s.plGame
    /\ t.fNextTurn = FALSE

(* The next game may start. *)
NextReady(s, p) ==
    /\ Ready(p) /\ p.ms = Settled(s) /\ p.lMatch = s.lMatch
    /\ p.prompt = s.prompt

(* What NextTurn goes on with: the game in progress, or the next one, which
   may start because the match is not won. *)
LEMMA NextTurnCases ==
    ASSUME NEW s0, Good(s0), NEW ans, NEW t \in NextTurn(s0, ans)
    PROVE  LET s == [s0 EXCEPT !.fNextTurn = FALSE]
           IN  \/ s0.plGame = 0 /\ t = s
               \/ s0.plGame # 0 /\ Playing(s0) /\ t \in PlayNext(s, ans)
               \/ /\ s0.plGame # 0 /\ Ended(s0.ms)
                  /\ \/ /\ Rests(s0, t) /\ t.ms = Settled(s0)
                        /\ t.ms.gs = s0.ms.gs
                     \/ \E p : /\ NextReady(s0, p)
                               /\ \E n \in NewGames(p) : t \in PlayNext(n, ans)
<1> DEFINE s == [s0 EXCEPT !.fNextTurn = FALSE]
           g == s.lMatch[s.plGame].info
           winner == g.fWinner
           done == [s EXCEPT !.ms = SetCrawfordFlags(s.ms, winner)]
           stop == [done EXCEPT !.automaticTask = FALSE]
           won == s.ms.nMatchTo > 0 /\ s.ms.anScore[winner] >= s.ms.nMatchTo
<1>1. s0 \in States /\ s0.aborted = "no"
  BY DEF Good
<1>2. /\ s \in States /\ s.ms = s0.ms /\ s.lMatch = s0.lMatch
      /\ s.plGame = s0.plGame /\ s.plLastMove = s0.plLastMove
      /\ s.aborted = "no" /\ s.fNextTurn = FALSE /\ s.prompt = s0.prompt
  BY <1>1 DEF States
<1>3. Good(s) /\ Keeps(s0, s)
  BY <1>2, NewFlags DEF Leads
<1>4. \/ s.plGame = 0 /\ t = s
      \/ s.plGame # 0 /\ ~GameEnded(s.ms) /\ t \in PlayNext(s, ans)
      \/ s.plGame # 0 /\ GameEnded(s.ms) /\ t = stop
      \/ /\ s.plGame # 0 /\ GameEnded(s.ms) /\ ~won
         /\ \E n \in NewGames(done) : t \in PlayNext(n, ans)
  BY DEF NextTurn
<1> HIDE DEF s
<1>5. s.plGame # 0 /\ ~GameEnded(s.ms) => Playing(s)
  <2>1. s.ms.gs \in GameState
    BY <1>3, Fields DEF Good, Sound
  <2>2. QED
    BY <1>3, <2>1 DEF Good, Placed, Sound, GameEnded, Playing, GameState
<1>6. ASSUME s.plGame # 0, GameEnded(s.ms)
      PROVE  /\ Ended(s.ms) /\ Sound(s.ms) /\ Fits(s.ms, g)
             /\ ~Playing(s) /\ Good(done) /\ Rests(s, stop)
             /\ done.ms = Settled(s) /\ stop.ms = Settled(s)
             /\ done.ms.gs = s.ms.gs /\ done.ms.anScore = s.ms.anScore
             /\ done.ms.nMatchTo = s.ms.nMatchTo /\ done.lMatch = s.lMatch
             /\ done.prompt = s.prompt
  <2>1. s.ms.gs \in GameState /\ Sound(s.ms) /\ s \in States
    BY <1>3, Fields DEF Good, Sound
  <2>2. ~Playing(s)
    BY <1>6, <2>1 DEF Sound, InGame, GameEnded, Playing
  <2>3. Ended(s.ms) /\ Fits(s.ms, g)
    BY <1>3, <1>6, <2>1, <2>2
       DEF Good, Placed, Ended, Playing, GameState
  <2> DEFINE m == SetCrawfordFlags(s.ms, winner)
  <2>4. /\ Sound(m) /\ m.gs = s.ms.gs /\ m.anScore = s.ms.anScore
        /\ m.cGames = s.ms.cGames /\ m.nMatchTo = s.ms.nMatchTo
    BY <2>1, <2>3, SoundCrawford
  <2>5. m = Settled(s)
    BY DEF Settled
  <2> HIDE DEF m
  <2>6. /\ Good([s EXCEPT !.ms = m]) /\ [s EXCEPT !.ms = m].ms = m
        /\ [s EXCEPT !.ms = m].lMatch = s.lMatch
        /\ [s EXCEPT !.ms = m].plGame = s.plGame
        /\ [s EXCEPT !.ms = m].fNextTurn = s.fNextTurn
    BY <1>3, <2>1, <2>4, NewMs
  <2>7. /\ Good(done) /\ done.ms = m /\ done.lMatch = s.lMatch
        /\ done.plGame = s.plGame /\ done.fNextTurn = FALSE
    BY <1>2, <2>6 DEF m
  <2>8. done.prompt = s.prompt
    BY <1>2 DEF States
  <2> HIDE DEF done
  <2>9. Rests(s, stop) /\ stop.ms = m
    <3>1. done \in States
      BY <2>7 DEF Good
    <3>2. /\ stop \in States /\ stop.ms = done.ms
          /\ stop.lMatch = done.lMatch /\ stop.plGame = done.plGame
          /\ stop.plLastMove = done.plLastMove
          /\ stop.aborted = done.aborted /\ stop.fNextTurn = done.fNextTurn
      BY <3>1 DEF States
    <3> HIDE DEF stop
    <3>3. QED
      BY <2>7, <3>2, NewFlags DEF Good, Rests
  <2>10. QED
    BY <2>1, <2>2, <2>3, <2>4, <2>5, <2>7, <2>8, <2>9
<1>7. ASSUME s.plGame # 0, GameEnded(s.ms), ~won
      PROVE  Ready(done)
  <2>1. /\ g \in GameInfo /\ winner \in Player
        /\ s.ms.anScore = ScoreAfter(g) /\ s.ms.nMatchTo = g.nMatch
        /\ g.nMatch > 0 => \A p \in Player : g.anScore[p] < g.nMatch
    BY <1>6, <1>7 DEF Fits
  <2>2. g.anScore \in [Player -> Nat] /\ g.nPoints \in Nat /\ g.nMatch \in Nat
    BY <2>1 DEF GameInfo
  <2>3. Unwon(s.ms)
    <3>1. SUFFICES ASSUME g.nMatch > 0, NEW p \in Player
                   PROVE  s.ms.anScore[p] < g.nMatch
      BY <2>1 DEF Unwon
    <3>2. CASE p = winner
      <4>1. s.ms \in MatchStates
        BY <1>3 DEF Good, Sound
      <4>2. s.ms.anScore[p] \in Nat
        BY <4>1, Fields
      <4>3. ~(g.nMatch > 0 /\ s.ms.anScore[p] >= g.nMatch)
        BY <1>7, <2>1, <3>2
      <4>4. QED
        BY <2>2, <3>1, <4>2, <4>3
    <3>3. CASE p # winner
      <4>1. s.ms.anScore[p] = g.anScore[p]
        BY <2>1, <2>2, <3>3, Players DEF ScoreAfter
      <4>2. QED
        BY <2>1, <3>1, <4>1
    <3>4. QED
      BY <3>2, <3>3
  <2>4. Unwon(done.ms)
    BY <1>6, <1>7, <2>3 DEF Unwon
  <2> HIDE DEF done
  <2>5. QED
    BY <1>6, <1>7, <2>4, ReadyAfterGame DEF Playing
<1>8. Settled(s) = Settled(s0) /\ (Playing(s) <=> Playing(s0))
  BY <1>2 DEF Settled, Playing
<1> HIDE DEF done, stop, won
<1>9. CASE s.plGame = 0 /\ t = s
  BY <1>2, <1>9 DEF s
<1>10. CASE s.plGame # 0 /\ ~GameEnded(s.ms) /\ t \in PlayNext(s, ans)
  BY <1>2, <1>5, <1>8, <1>10 DEF s
<1>11. CASE s.plGame # 0 /\ GameEnded(s.ms) /\ t = stop
  <2>1. Rests(s0, t) /\ t.ms = Settled(s0) /\ Ended(s0.ms)
    BY <1>2, <1>6, <1>8, <1>11 DEF Rests
  <2>2. t.ms.gs = s0.ms.gs
    BY <1>2, <1>6, <1>11
  <2>3. QED
    BY <1>2, <1>11, <2>1, <2>2
<1>12. ASSUME s.plGame # 0, GameEnded(s.ms), ~won,
              NEW n \in NewGames(done), t \in PlayNext(n, ans)
       PROVE  s0.plGame # 0 /\ Ended(s0.ms) /\ NextReady(s0, done)
  BY <1>2, <1>6, <1>7, <1>8, <1>12 DEF NextReady
<1>13. QED
  BY <1>4, <1>9, <1>10, <1>11, <1>12

(* NextTurn: the end of the game and of the match, the Crawford flags, the
   next game. *)
LEMMA GoodNextTurn ==
    ASSUME NEW s0, Good(s0), s0.prompt # "no", NEW ans \in BOOLEAN,
           NEW t \in NextTurn(s0, ans)
    PROVE  \/ /\ s0.plGame = 0
              /\ Rests(s0, t) /\ t.ms = s0.ms
           \/ /\ s0.plGame # 0 /\ Playing(s0)
              /\ Leads(s0, t) /\ (Playing(t) \/ t.fNextTurn)
           \/ /\ s0.plGame # 0 /\ Ended(s0.ms)
              /\ \/ Rests(s0, t) /\ t.ms = Settled(s0)
                 \/ /\ Unwon(Settled(s0))
                    /\ Begins(s0.lMatch, Settled(s0), t)
<1> DEFINE s == [s0 EXCEPT !.fNextTurn = FALSE]
<1>1. \/ s0.plGame = 0 /\ t = s
      \/ s0.plGame # 0 /\ Playing(s0) /\ t \in PlayNext(s, ans)
      \/ /\ s0.plGame # 0 /\ Ended(s0.ms)
         /\ \/ Rests(s0, t) /\ t.ms = Settled(s0)
            \/ \E p : /\ NextReady(s0, p)
                      /\ \E n \in NewGames(p) : t \in PlayNext(n, ans)
  BY NextTurnCases
<1>2. s0 \in States /\ s0.aborted = "no"
  BY DEF Good
<1>3. /\ s \in States /\ s.ms = s0.ms /\ s.lMatch = s0.lMatch
      /\ s.plGame = s0.plGame /\ s.plLastMove = s0.plLastMove
      /\ s.aborted = "no" /\ s.fNextTurn = FALSE /\ s.prompt = s0.prompt
  BY <1>2 DEF States
<1> HIDE DEF s
<1>4. Good(s) /\ Keeps(s0, s)
  BY <1>3, NewFlags DEF Leads
<1>5. CASE s0.plGame = 0 /\ t = s
  BY <1>3, <1>4, <1>5 DEF Rests
<1>6. CASE s0.plGame # 0 /\ Playing(s0) /\ t \in PlayNext(s, ans)
  <2>1. Leads(s, t) /\ (Playing(t) \/ t.fNextTurn)
    BY <1>3, <1>4, <1>6, GoodPlayNext DEF Playing
  <2>2. Leads(s0, t)
    BY <1>3, <1>4, <2>1, LeadsOn
  <2>3. QED
    BY <1>6, <2>1, <2>2
<1>7. ASSUME NEW p, NextReady(s0, p), NEW n \in NewGames(p),
             t \in PlayNext(n, ans)
      PROVE  Unwon(Settled(s0)) /\ Begins(s0.lMatch, Settled(s0), t)
  BY <1>7, GoodPlayFirst DEF NextReady, Ready
<1>8. QED
  BY <1>1, <1>5, <1>6, <1>7

-----------------------------------------------------------------------------
(* The specification. *)

(* CommandPlay is a turn of the computer's. *)
LEMMA GoodCommandPlay ==
    ASSUME NEW s, Good(s), s.prompt # "no", NEW ans \in BOOLEAN,
           NEW t \in CommandPlay(s, ans)
    PROVE  Leads(s, t) /\ Pends(s, t)
<1> DEFINE p == StartAutomaticPlay(s)
<1>1. CASE ~(Playing(s) /\ PlayerType[s.ms.fTurn] # "human")
  BY <1>1, LeadsSelf DEF CommandPlay
<1>2. CASE Playing(s) /\ PlayerType[s.ms.fTurn] # "human"
  <2>1. PICK u \in ComputerTurn(p, ans) : t = TurnDone(u)
    BY <1>2 DEF CommandPlay
  <2>2. Good(p) /\ Leads(s, p) /\ p.ms = s.ms /\ p.prompt # "no"
    BY GoodStartAutomaticPlay
  <2> HIDE DEF p
  <2>3. Leads(p, u) /\ Good(u)
    BY <2>2, GoodComputerTurn DEF Leads
  <2>4. Leads(s, t) /\ t.fNextTurn
    BY <2>1, <2>2, <2>3, LeadsOn, GoodTurnDone DEF Leads
  <2>5. QED
    BY <1>2, <2>4 DEF Pends
<1>3. QED
  BY <1>1, <1>2

(* Installing a good state. *)
LEMMA Installed ==
    ASSUME NEW t, Good(t), Install(t)
    PROVE  /\ MatchInv' /\ ms' = t.ms /\ lMatch' = t.lMatch
           /\ plGame' = t.plGame /\ fNextTurn' = t.fNextTurn
<1> DEFINE u == [t EXCEPT !.prompt = "none"]
<1>1. t \in States /\ t.aborted = "no"
  BY DEF Good
<1>2. u \in States
  BY <1>1 DEF States
<1>3. /\ u.ms = t.ms /\ u.lMatch = t.lMatch /\ u.plGame = t.plGame
      /\ u.plLastMove = t.plLastMove /\ u.aborted = "no"
  BY <1>1 DEF States
<1>4. Good(u)
  BY <1>2, <1>3, NewFlags
<1>5. cur' = u
  BY <1>1 DEF Install, cur, States
<1>6. prompt' \in {"none", "yes", "no"}
  BY <1>1 DEF Install, States
<1>7. Good(cur)' <=> Good(cur')
  BY DEF Good, Placed
<1> HIDE DEF u
<1>8. QED
  BY <1>4, <1>5, <1>6, <1>7 DEF MatchInv, Install

(* The initial state satisfies the invariant. *)
LEMMA InitInv == Init => MatchInv
<1> SUFFICES ASSUME Init PROVE MatchInv
  OBVIOUS
<1>1. InitialMatchState \in MatchStates
  <2>1. [p \in Player |-> 0] \in [Player -> Nat] /\ "none" \in GameState
    BY DEF GameState
  <2>2. 0 \in 0..3 /\ 0 \in -1..3 /\ 1 \in CubeValues
    BY CubeAssumption
  <2>3. QED
    BY <2>1, <2>2, Players DEF InitialMatchState, MatchStates
<1>2. Sound(InitialMatchState)
  <2>1. /\ InitialMatchState.anScore[0] = 0 /\ InitialMatchState.anScore[1] = 0
        /\ InitialMatchState.cGames = 0 /\ InitialMatchState.gs = "none"
        /\ ~InitialMatchState.fCrawford
    BY DEF InitialMatchState, Player
  <2>2. QED
    BY <1>1, <2>1 DEF Sound
<1>3. InitialMatchState.gs = "none"
  BY DEF InitialMatchState
<1>4. /\ cur.ms = InitialMatchState /\ cur.lMatch = <<>> /\ cur.plGame = 0
      /\ cur.aborted = "no"
  BY DEF Init, cur
<1>5. cur \in States
  <2>1. <<>> \in Seq(Game)
    OBVIOUS
  <2>2. QED
    BY <1>1, <2>1 DEF Init, cur, States, Assertions
<1>6. Good(cur)
  BY <1>2, <1>3, <1>4, <1>5 DEF Good, Placed, Chained
<1>7. QED
  BY <1>6 DEF MatchInv, Init

(* The start of the first game of a match. *)
StartsMatch(t) ==
    \E m : /\ m.nMatchTo \in Nat /\ m.anScore = [p \in Player |-> 0]
          /\ m.fCrawford = FALSE /\ Begins(<<>>, m, t)

(* A game that has ended is settled by NextTurn, which may start another. *)
Settles(s, t) ==
    /\ s.fNextTurn /\ s.plGame # 0 /\ Ended(s.ms)
    /\ \/ Rests(s, t) /\ t.ms = Settled(s)
       \/ Unwon(Settled(s)) /\ Begins(s.lMatch, Settled(s), t)

(* What a step of the program may do. *)
Step(s, t) ==
    \/ Leads(s, t) /\ Pends(s, t)
    \/ /\ s.fNextTurn => CommandsWhilePending
       /\ Unwon(s.ms) /\ Begins(Before(s), s.ms, t)
    \/ StartsMatch(t)
    \/ s.plGame = 0 /\ Rests(s, t) /\ t.ms = s.ms
    \/ Settles(s, t)

(* Every action installs such a state. *)
LEMMA StepCases ==
    ASSUME CarefulUser, MatchInv, Next
    PROVE  \E t : Install(t) /\ Step(cur, t)
<1>1. /\ Good(cur) /\ cur.ms = ms /\ cur.prompt # "no"
      /\ cur.fNextTurn = fNextTurn
  BY DEF MatchInv, cur
<1>2. Resolved => cur.ms.fResigned = 0
  BY <1>1 DEF Resolved, CarefulUser
<1>3. ASSUME NEW t, Install(t), Leads(cur, t), Pends(cur, t)
      PROVE  \E u : Install(u) /\ Step(cur, u)
  BY <1>3 DEF Step
<1>4. CASE DoAgree
  <2>1. PICK ans \in BOOLEAN : Install(CommandAgree(cur, FALSE, ans))
    BY <1>4 DEF DoAgree
  <2>2. QED
    BY <1>1, <1>3, <2>1, GoodAgree
<1>5. CASE DoDecline
  BY <1>1, <1>3, <1>5, GoodDecline DEF DoDecline
<1>6. CASE DoResign
  <2>1. PICK v \in ResignArgs : Install(CommandResign(cur, FALSE, v))
    BY <1>6 DEF DoResign
  <2>2. v \in -1..3 /\ cur.ms.fResigned = 0
    BY <1>2, <1>6, SettingsAssumption DEF DoResign
  <2>3. ASSUME v = -1, Playing(cur), MayAct(cur, FALSE)
        PROVE  PlayerType[Other(cur.ms.fTurn)] = "gnu"
    <3>1. PICK p \in Player : PlayerType[p] = "gnu"
      BY <2>1, <2>3 DEF CarefulUser
    <3>2. cur.ms.fTurn \in Player /\ PlayerType[cur.ms.fTurn] = "human"
      BY <1>1, <2>3, InProgress DEF MayAct
    <3>3. p = Other(cur.ms.fTurn)
      BY <3>1, <3>2 DEF Player, Other
    <3>4. QED
      BY <3>1, <3>3
  <2>4. QED
    BY <1>1, <1>3, <2>1, <2>2, <2>3, GoodResign
<1>7. CASE DoDouble
  <2>1. PICK ans \in BOOLEAN : Install(CommandDouble(cur, FALSE, ans))
    BY <1>7 DEF DoDouble
  <2>2. QED
    BY <1>1, <1>2, <1>3, <1>7, <2>1, GoodDouble DEF DoDouble
<1>8. CASE DoRedouble
  <2>1. PICK ans \in BOOLEAN : Install(CommandRedouble(cur, FALSE, ans))
    BY <1>8 DEF DoRedouble
  <2>2. QED
    BY <1>1, <1>2, <1>3, <1>8, <2>1, GoodRedouble DEF DoRedouble
<1>9. CASE DoTake
  <2>1. PICK ans \in BOOLEAN : Install(CommandTake(cur, FALSE, ans))
    BY <1>9 DEF DoTake
  <2>2. QED
    BY <1>1, <1>2, <1>3, <1>9, <2>1, GoodTakeDrop DEF DoTake
<1>10. CASE DoDrop
  <2>1. PICK ans \in BOOLEAN : Install(CommandDrop(cur, FALSE, ans))
    BY <1>10 DEF DoDrop
  <2>2. QED
    BY <1>1, <1>2, <1>3, <1>10, <2>1, GoodTakeDrop DEF DoDrop
<1>11. CASE DoAccept
  <2>1. PICK ans \in BOOLEAN : Install(CommandAccept(cur, ans))
    BY <1>11 DEF DoAccept
  <2> DEFINE t == CommandAccept(cur, ans)
  <2>2. Leads(cur, t) /\ Pends(cur, t)
    BY <1>1, GoodAgree, GoodTakeDrop, LeadsSelf DEF CommandAccept
  <2>3. QED
    BY <1>3, <2>1, <2>2
<1>12. CASE DoReject
  <2>1. PICK ans \in BOOLEAN : Install(CommandReject(cur, ans))
    BY <1>12 DEF DoReject
  <2> DEFINE t == CommandReject(cur, ans)
  <2>2. Leads(cur, t) /\ Pends(cur, t)
    BY <1>1, GoodDecline, GoodTakeDrop, LeadsSelf DEF CommandReject
  <2>3. QED
    BY <1>3, <2>1, <2>2
<1>13. CASE DoRoll
  <2>1. PICK ans \in BOOLEAN, o \in RollOutcomes(cur.ms) :
            Install(CommandRoll(cur, ans, o))
    BY <1>1, <1>13 DEF DoRoll
  <2>2. QED
    BY <1>1, <1>3, <2>1, GoodRoll
<1>14. CASE DoMove
  <2>1. PICK ans \in BOOLEAN, n \in PlayResults(cur.ms) :
            Install(CommandMove(cur, ans, n))
    BY <1>1, <1>14 DEF DoMove
  <2>2. QED
    BY <1>1, <1>3, <2>1, GoodMove
<1>15. CASE DoPlay
  <2>1. PICK ans \in BOOLEAN : \E t \in CommandPlay(cur, ans) : Install(t)
    BY <1>15 DEF DoPlay
  <2>2. QED
    BY <1>1, <1>3, <2>1, GoodCommandPlay
<1>16. CASE DoNewGame
  <2>1. PICK ans \in BOOLEAN :
            \E t \in CommandNewGame(cur, ans) : Install(t)
    BY <1>16 DEF DoNewGame
  <2>2. PICK t \in CommandNewGame(cur, ans) : Install(t)
    BY <2>1
  <2>3. \/ Leads(cur, t) /\ Pends(cur, t)
        \/ Unwon(cur.ms) /\ Begins(Before(cur), cur.ms, t)
    BY <1>1, GoodCommandNewGame
  <2>4. cur.fNextTurn => CommandsWhilePending
    BY <1>1, <1>16 DEF DoNewGame, CommandAllowed
  <2>5. QED
    BY <2>2, <2>3, <2>4 DEF Step
<1>17. CASE DoNewMatch
  <2>1. PICK ans \in BOOLEAN, n \in Lengths :
            \E t \in CommandNewMatch(cur, n, ans) : Install(t)
    BY <1>17 DEF DoNewMatch
  <2>2. PICK t \in CommandNewMatch(cur, n, ans) : Install(t)
    BY <2>1
  <2>3. n \in Nat
    BY SettingsAssumption
  <2>4. \/ Leads(cur, t) /\ Pends(cur, t)
        \/ \E m : /\ m.nMatchTo = n /\ m.anScore = [p \in Player |-> 0]
                  /\ ~m.fCrawford /\ m.fCrawford \in BOOLEAN
                  /\ Begins(<<>>, m, t)
    BY <1>1, <2>3, GoodCommandNewMatch
  <2>5. (Leads(cur, t) /\ Pends(cur, t)) \/ StartsMatch(t)
    BY <2>3, <2>4 DEF StartsMatch
  <2>6. QED
    BY <2>2, <2>5 DEF Step
<1>18. CASE DoNextTurn
  <2>1. PICK ans \in BOOLEAN : \E t \in NextTurn(cur, ans) : Install(t)
    BY <1>18 DEF DoNextTurn
  <2>2. PICK t \in NextTurn(cur, ans) : Install(t)
    BY <2>1
  <2>3. cur.fNextTurn
    BY <1>1, <1>18 DEF DoNextTurn
  <2>4. Step(cur, t)
    BY <1>1, <2>3, GoodNextTurn DEF Step, Settles, Pends
  <2>5. QED
    BY <2>2, <2>4
<1>19. QED
  BY <1>4, <1>5, <1>6, <1>7, <1>8, <1>9, <1>10, <1>11, <1>12, <1>13,
     <1>14, <1>15, <1>16, <1>17, <1>18 DEF Next, PlayCommand

(* Every step keeps the invariant. *)
LEMMA StepGood ==
    ASSUME NEW s, NEW t, Step(s, t)
    PROVE  Good(t)
BY DEF Step, Settles, StartsMatch, Leads, Begins, Rests

(* Every step of the program keeps the invariant. *)
LEMMA StepInv ==
    ASSUME CarefulUser, MatchInv, [Next]_vars
    PROVE  MatchInv'
<1>1. CASE UNCHANGED vars
  <2>1. cur' = cur /\ prompt' = prompt
    BY <1>1 DEF vars, cur
  <2>2. Good(cur)' <=> Good(cur')
    BY DEF Good, Placed
  <2>3. QED
    BY <2>1, <2>2 DEF MatchInv
<1>2. CASE Next
  BY <1>2, StepCases, StepGood, Installed
<1>3. QED
  BY <1>1, <1>2

(* MatchInv is an invariant of every match played by a careful user. *)
THEOREM MatchInvariant ==
    ASSUME CarefulUser
    PROVE  Spec => []MatchInv
<1>1. Init => MatchInv
  BY InitInv
<1>2. MatchInv /\ [Next]_vars => MatchInv'
  BY StepInv
<1>3. QED
  BY <1>1, <1>2, PTL DEF Spec

(* What the invariant says of the variables. *)
LEMMA Unfolded ==
    ASSUME MatchInv
    PROVE  /\ ms \in MatchStates /\ Sound(ms)
           /\ lMatch \in Seq(Game) /\ plGame \in Nat /\ plLastMove \in Nat
           /\ plGame # 0 => /\ plGame = Len(lMatch)
                            /\ plLastMove = Len(lMatch[plGame].recs)
           /\ fNextTurn \in BOOLEAN /\ automaticTask \in BOOLEAN
           /\ aborted = "no" /\ prompt \in {"none", "yes", "no"}
           /\ Chained(lMatch)
           /\ ms.gs = "playing" => InGame(ms)
<1>1. cur \in States /\ Sound(cur.ms) /\ Placed(cur) /\ cur.aborted = "no"
  BY DEF MatchInv, Good
<1>2. /\ cur.ms = ms /\ cur.lMatch = lMatch /\ cur.plGame = plGame
      /\ cur.plLastMove = plLastMove /\ cur.fNextTurn = fNextTurn
      /\ cur.automaticTask = automaticTask /\ cur.aborted = aborted
  BY DEF cur
<1>3. /\ cur.ms \in MatchStates /\ cur.lMatch \in Seq(Game)
      /\ cur.plGame \in Nat /\ cur.plLastMove \in Nat
      /\ cur.fNextTurn \in BOOLEAN /\ cur.automaticTask \in BOOLEAN
  BY <1>1 DEF States
<1>4. QED
  BY <1>1, <1>2, <1>3 DEF MatchInv, Placed, Sound

(* The variables always have their types: in particular the cube is never
   doubled past MAX_CUBE and no command indexes a list out of range. *)
THEOREM TypeCorrect ==
    ASSUME CarefulUser
    PROVE  Spec => []TypeOK
<1>1. ASSUME MatchInv PROVE TypeOK
  <2>1. Len(lMatch) \in Nat
    BY <1>1, Unfolded
  <2>2. plGame \in 0..Len(lMatch)
    BY <1>1, <2>1, Unfolded
  <2>3. plGame # 0 => plLastMove <= Len(lMatch[plGame].recs)
    BY <1>1, Unfolded
  <2>4. aborted \in Assertions
    BY <1>1, Unfolded DEF Assertions
  <2>5. QED
    BY <1>1, <2>2, <2>3, <2>4, Unfolded DEF TypeOK
<1>2. QED
  BY <1>1, MatchInvariant, PTL

(* The turn is always with the player who has a decision to make, through
   any sequence of doubles, beavers, takes, resignations and refusals. *)
THEOREM TurnIsWithDecider ==
    ASSUME CarefulUser
    PROVE  Spec => []TurnWithDecider
<1>1. MatchInv => TurnWithDecider
  BY Unfolded DEF TurnWithDecider, InGame
<1>2. QED
  BY <1>1, MatchInvariant, PTL

(* Every cube to be answered is in one of the three scenarios ComputerTurn
   distinguishes. *)
THEOREM CubeIsInScenario ==
    ASSUME CarefulUser
    PROVE  Spec => []CubeScenarios
<1>1. ASSUME MatchInv PROVE CubeScenarios
  <2>1. SUFFICES ASSUME ms.gs = "playing", ms.fDoubled, ms.fResigned = 0
                 PROVE  \/ ms.fMove # ms.fTurn /\ ms.fCubeOwner \in {NoOne, ms.fMove}
                        \/ ms.fMove = ms.fTurn /\ ms.fCubeOwner = Other(ms.fMove)
                        \/ ms.fMove # ms.fTurn /\ ms.fCubeOwner = ms.fTurn
    BY DEF CubeScenarios
  <2>2. InGame(ms) /\ ms.cBeavers \in Nat
    BY <1>1, <2>1, Unfolded, Fields
  <2>3. ms.fMove \in Player /\ Other(ms.fMove) # ms.fMove
    BY <2>2, Players DEF InGame
  <2>4. CASE ms.cBeavers % 2 = 0
    BY <2>1, <2>2, <2>3, <2>4 DEF InGame, Decider
  <2>5. CASE ms.cBeavers % 2 # 0
    BY <2>1, <2>2, <2>3, <2>5 DEF InGame, Decider
  <2>6. QED
    BY <2>4, <2>5
<1>2. QED
  BY <1>1, MatchInvariant, PTL

(* The cube stays within MAX_CUBE and the beavers within nBeavers. *)
THEOREM CubeIsWithinLimits ==
    ASSUME CarefulUser
    PROVE  Spec => []CubeWithinLimits
<1>1. ASSUME MatchInv PROVE CubeWithinLimits
  <2>1. SUFFICES ASSUME ms.gs = "playing"
                 PROVE  /\ ms.fDoubled => 2 * ms.nCube <= MAX_CUBE
                        /\ ms.cBeavers <= nBeavers
                        /\ ms.cBeavers > 0 => ms.fDoubled /\ ms.nMatchTo = 0
    BY DEF CubeWithinLimits
  <2>2. InGame(ms) /\ ms.nCube \in CubeValues
    BY <1>1, <2>1, Unfolded, Fields
  <2>3. ms.nCube < MAX_CUBE => 2 * ms.nCube <= MAX_CUBE
    BY <2>2, Doubling
  <2>4. QED
    BY <2>2, <2>3 DEF InGame
<1>2. QED
  BY <1>1, MatchInvariant, PTL

(* The Crawford game is played without the cube. *)
THEOREM CrawfordIsCubeless ==
    ASSUME CarefulUser
    PROVE  Spec => []CrawfordCubeless
<1>1. MatchInv => CrawfordCubeless
  BY Unfolded DEF CrawfordCubeless, InGame
<1>2. QED
  BY <1>1, MatchInvariant, PTL

(* The board always shows the player on roll. *)
THEOREM BoardIsMovers ==
    ASSUME CarefulUser
    PROVE  Spec => []BoardShowsMover
<1>1. MatchInv => BoardShowsMover
  BY Unfolded DEF BoardShowsMover, InGame
<1>2. QED
  BY <1>1, MatchInvariant, PTL

(* In a match of any length every game starts from the score and the number
   of games the one before it left. *)
THEOREM ScoresAreChained ==
    ASSUME CarefulUser
    PROVE  Spec => []ScoreChain
<1>1. MatchInv => ScoreChain
  BY Unfolded DEF ScoreChain, Chained, Follows
<1>2. QED
  BY <1>1, MatchInvariant, PTL

(* No assertion fails, whatever the length of the match: the games never
   outnumber the points, so a match of n points is over within 2n - 1 games. *)
THEOREM AssertionsHold ==
    ASSUME CarefulUser
    PROVE  Spec => []NoAssertionFails
<1>1. MatchInv => NoAssertionFails
  BY Unfolded DEF NoAssertionFails
<1>2. QED
  BY <1>1, MatchInvariant, PTL
=============================================================================
