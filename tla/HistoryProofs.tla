---------------------------- MODULE HistoryProofs ----------------------------
(***************************************************************************)
(* Proofs about MatchHistory: play and navigation interleaved in any way,  *)
(* for matches of any length.  Wherever the user goes and whatever he      *)
(* plays from there, the games on record can be replayed and ms is what a  *)
(* replay gives; and while a human has the turn, no record is lost before  *)
(* he has answered yes.                                                    *)
(***************************************************************************)
EXTENDS ReplayProofs, MatchHistory

-----------------------------------------------------------------------------
(* The inductive invariant. *)

(* Match state m at the GAMEINFO record of game gm: nothing has happened, or
   the roll of the first play is shown. *)
AtStart(m, gm) ==
    \/ m = ApplyGameInfo(gm.info)
    \/ m = Turned(gm.info, gm.recs[1].fPlayer)
    \/ /\ m.gs = "playing" /\ m.dice
       /\ Same(m, Opening(gm.info, gm.recs[1].fPlayer))

(* Match state m at record n of game gm. *)
At(m, gm, n) == IF n = 0 THEN AtStart(m, gm) ELSE Same(m, After(gm, n).ms)

Games(l) == \A k \in 1..Len(l) : Plays(l[k]) /\ l[k].recs # <<>>

(* The place in the list of games that ms is the state of. *)
InPlace(s) ==
    IF s.plGame = 0 THEN s.lMatch = <<>> /\ s.ms.gs = "none"
    ELSE LET gm == s.lMatch[s.plGame]
         IN  /\ s.plGame <= Len(s.lMatch) /\ s.plLastMove <= Len(gm.recs)
             /\ At(s.ms, gm, s.plLastMove)

Told(s) == /\ s \in States /\ s.aborted = "no" /\ Sound(s.ms)
           /\ Chained(s.lMatch) /\ Games(s.lMatch) /\ InPlace(s)

(* The last record of the last game. *)
AtEnd(s) == /\ s.plGame # 0 /\ s.plGame = Len(s.lMatch)
            /\ s.plLastMove = Len(s.lMatch[s.plGame].recs)

(* A game in progress, or the end of the last game: NextTurn may follow. *)
Live(s) == Told(s) /\ (Playing(s) \/ (Ended(s.ms) /\ AtEnd(s)))

(* NextTurn is scheduled only then. *)
Steady(s) == Told(s) /\ (s.fNextTurn => Live(s))

HistoryInv == Steady(cur) /\ prompt \in {"none", "yes", "no"}

(* What a command of play does: it continues the game, or nothing. *)
Continues(s, t) == IF Playing(s) THEN Live(t) ELSE t = s

(* The program state but for the flags. *)
Like(s, t) ==
    /\ t \in States /\ t.ms = s.ms /\ t.lMatch = s.lMatch
    /\ t.plGame = s.plGame /\ t.plLastMove = s.plLastMove
    /\ t.aborted = s.aborted

-----------------------------------------------------------------------------
(* Changing the program state. *)

(* The invariant does not read the flags. *)
LEMMA ToldLike ==
    ASSUME NEW s, NEW t, Like(s, t)
    PROVE  /\ Told(s) => Told(t)
           /\ Live(s) => Live(t)
           /\ Playing(t) <=> Playing(s)
BY DEF Like, Told, Live, InPlace, AtEnd, Playing

(* TurnDone. *)
LEMMA LikeTurnDone ==
    ASSUME NEW s \in States
    PROVE  Like(s, TurnDone(s))
BY DEF TurnDone, Like, States

(* Asking before the rest of the match is deleted. *)
LEMMA LikeAsked ==
    ASSUME NEW s \in States, NEW ans
    PROVE  /\ Like(s, Answer(s, ans))
           /\ Like(s, move_not_last_in_match_ok(s, ans))
<1>1. Like(s, Answer(s, ans))
  BY DEF Answer, Like, States
<1>2. Like(s, s)
  BY DEF Like
<1>3. QED
  BY <1>1, <1>2 DEF move_not_last_in_match_ok

(* A live state stays live at the end of the turn. *)
LEMMA LiveTurnDone ==
    ASSUME NEW s, Live(s)
    PROVE  Live(TurnDone(s))
BY LikeTurnDone, ToldLike DEF Live, Told

(* Same match states have the same score. *)
LEMMA FitsSame ==
    ASSUME NEW m, NEW n, Same(m, n), NEW g, Fits(n, g)
    PROVE  Fits(m, g)
BY DEF Same, Fits, Ended

(* A game of the list. *)
LEMMA AGame ==
    ASSUME NEW s, Told(s), s.plGame # 0
    PROVE  LET gm == s.lMatch[s.plGame]
           IN  /\ s \in States /\ s.plGame \in 1..Len(s.lMatch)
               /\ s.plLastMove \in 0..Len(gm.recs) /\ s.plLastMove \in Nat
               /\ s.lMatch \in Seq(Game) /\ s.plGame \in Nat
               /\ Plays(gm) /\ gm.recs # <<>> /\ Len(gm.recs) \in Nat
               /\ Len(gm.recs) >= 1 /\ gm \in Game /\ Start(gm.info)
               /\ gm.recs[1].fPlayer \in Player /\ gm.recs[1] \in Record
               /\ Opener(gm.recs[1], gm.recs[1].fPlayer)
               /\ At(s.ms, gm, s.plLastMove)
<1> DEFINE gm == s.lMatch[s.plGame]
<1>1. /\ s \in States /\ s.lMatch \in Seq(Game) /\ s.plGame \in Nat
      /\ s.plLastMove \in Nat
  BY DEF Told, States
<1>2. /\ s.plGame <= Len(s.lMatch) /\ s.plLastMove <= Len(gm.recs)
      /\ At(s.ms, gm, s.plLastMove)
  BY DEF Told, InPlace
<1>3. s.plGame \in 1..Len(s.lMatch)
  BY <1>1, <1>2
<1>4. Plays(gm) /\ gm.recs # <<>>
  BY <1>3 DEF Told, Games
<1> HIDE DEF gm
<1>5. gm \in Game /\ gm.recs \in Seq(Record) /\ Start(gm.info)
  BY <1>4 DEF Plays, Game
<1>6. Len(gm.recs) \in Nat /\ Len(gm.recs) >= 1 /\ gm.recs[1] \in Record
  BY <1>4, <1>5
<1>7. gm.recs[1].fPlayer \in Player
  BY <1>6 DEF Record
<1>8. Opener(gm.recs[1], gm.recs[1].fPlayer)
  BY <1>4 DEF Plays
<1>9. s.plLastMove \in 0..Len(gm.recs)
  BY <1>1, <1>2, <1>6 DEF gm
<1>10. QED
  BY <1>1, <1>2, <1>3, <1>4, <1>5, <1>6, <1>7, <1>8, <1>9 DEF gm

(* A game in progress, wherever in the list. *)
LEMMA InHand ==
    ASSUME NEW s, Told(s), Playing(s)
    PROVE  LET gm == s.lMatch[s.plGame]
           IN  /\ s \in States /\ s.aborted = "no" /\ Chained(s.lMatch)
               /\ Games(s.lMatch) /\ s.plGame # 0
               /\ s.plGame \in 1..Len(s.lMatch)
               /\ s.plLastMove \in 0..Len(gm.recs)
               /\ s.plLastMove <= Len(gm.recs)
               /\ Plays(gm) /\ gm.recs # <<>>
               /\ Point(s.ms, gm, s.plLastMove) /\ Fits(s.ms, gm.info)
               /\ Sound(s.ms) /\ s.ms.gs = "playing"
               /\ s.ms \in MatchStates /\ InGame(s.ms)
               /\ s.ms.fMove \in Player /\ s.ms.fTurn \in Player
               /\ s.plLastMove = 0 =>
                     /\ s.ms.dice /\ ~s.ms.fDoubled
                     /\ Same(s.ms, Opening(gm.info, gm.recs[1].fPlayer))
<1> DEFINE gm == s.lMatch[s.plGame]
           n == s.plLastMove
           o == Opening(gm.info, gm.recs[1].fPlayer)
<1>1. /\ s \in States /\ s.aborted = "no" /\ Sound(s.ms)
      /\ Chained(s.lMatch) /\ Games(s.lMatch)
      /\ s.ms.gs = "playing" /\ s.plGame # 0
  BY DEF Told, Playing, InPlace
<1>2. s.ms \in MatchStates /\ InGame(s.ms)
  BY <1>1 DEF Sound
<1>3. s.ms.fMove \in Player /\ s.ms.fTurn \in Player
  BY <1>2, Players DEF InGame, Decider
<1>4. /\ s.plGame \in 1..Len(s.lMatch) /\ n \in 0..Len(gm.recs)
      /\ Plays(gm) /\ gm.recs # <<>> /\ Start(gm.info) /\ At(s.ms, gm, n)
      /\ gm.recs[1].fPlayer \in Player /\ Len(gm.recs) \in Nat /\ n \in Nat
  BY <1>1, AGame
<1>5. n <= Len(gm.recs)
  BY <1>4
<1> HIDE DEF gm
<1>6. CASE n = 0
  <2>1. AtStart(s.ms, gm)
    BY <1>4, <1>6 DEF At
  <2>2. ApplyGameInfo(gm.info).gs = "none"
    BY <1>4, StartFields
  <2>3. /\ Turned(gm.info, gm.recs[1].fPlayer).gs = "none"
        /\ Fits(o, gm.info) /\ o.fDoubled = FALSE
    <3>1. Start(gm.info) /\ gm.recs[1].fPlayer \in Player
      BY <1>4
    <3>2. QED
      BY <3>1, OpeningSound
  <2>4. s.ms.dice /\ Same(s.ms, o)
    BY <1>1, <2>1, <2>2, <2>3 DEF AtStart
  <2> HIDE DEF o
  <2>5. Fits(s.ms, gm.info) /\ ~s.ms.fDoubled
    BY <1>1, <2>3, <2>4, FitsSame DEF Same
  <2>6. Point(s.ms, gm, n)
    BY <1>4, <1>6, <2>4 DEF Point, o
  <2>7. QED
    BY <1>1, <1>2, <1>3, <1>4, <1>5, <2>4, <2>5, <2>6 DEF gm, o
<1>7. CASE n # 0
  <2>1. Same(s.ms, After(gm, n).ms) /\ n > 0
    BY <1>4, <1>7 DEF At
  <2>2. Fits(After(gm, n).ms, gm.info)
    BY <1>4, <2>1, Part
  <2>3. Fits(s.ms, gm.info)
    BY <2>1, <2>2, FitsSame
  <2>4. Point(s.ms, gm, n)
    BY <1>7, <2>1 DEF Point
  <2>5. QED
    BY <1>1, <1>2, <1>3, <1>4, <1>5, <1>7, <2>3, <2>4 DEF gm
<1>8. QED
  BY <1>6, <1>7

(* A new match state for the same point of a game in progress. *)
LEMMA ToldMs ==
    ASSUME NEW s, Told(s), Playing(s), NEW m, Sound(m), Same(s.ms, m),
           s.ms.dice => m.dice
    PROVE  LET t == [s EXCEPT !.ms = m]
           IN  Live(t) /\ t.ms = m /\ t.prompt = s.prompt /\ Playing(t)
<1> DEFINE t == [s EXCEPT !.ms = m]
           gm == s.lMatch[s.plGame]
           n == s.plLastMove
           o == Opening(gm.info, gm.recs[1].fPlayer)
<1>1. /\ s \in States /\ s.plGame # 0 /\ s.ms.gs = "playing"
      /\ n = 0 => s.ms.dice /\ Same(s.ms, o)
  BY InHand
<1>2. At(s.ms, gm, n)
  BY <1>1, AGame
<1>3. m \in MatchStates /\ m.gs = "playing"
  BY <1>1 DEF Sound, Same
<1>4. Same(m, s.ms)
  BY SameOn
<1> HIDE DEF gm, n, o
<1>5. At(m, gm, n)
  <2>1. CASE n = 0
    <3>1. Same(m, o)
      BY <1>1, <1>4, <2>1, SameOn
    <3>2. QED
      BY <1>1, <1>3, <2>1, <3>1 DEF At, AtStart, o
  <2>2. CASE n # 0
    BY <1>2, <1>4, <2>2, SameOn DEF At
  <2>3. QED
    BY <2>1, <2>2
<1>6. t \in States
  BY <1>1, <1>3 DEF States
<1>7. /\ t.ms = m /\ t.lMatch = s.lMatch /\ t.plGame = s.plGame
      /\ t.plLastMove = s.plLastMove /\ t.aborted = s.aborted
      /\ t.prompt = s.prompt
  BY <1>1 DEF States
<1> HIDE DEF t
<1>8. InPlace(t)
  BY <1>1, <1>5, <1>7 DEF Told, InPlace, gm, n
<1>9. Told(t) /\ Playing(t)
  BY <1>3, <1>6, <1>7, <1>8 DEF Told, Playing
<1>10. QED
  BY <1>7, <1>9 DEF Live, t

(* The game that AddMoveRecord makes of game gm, at its n-th record. *)
Kept(gm, n, r) ==
    LET kept == SubSeq(gm.recs, 1, n)
    IN  IF kept # <<>> /\ Elides(r, Last(kept)) THEN Front(kept) ELSE kept
Longer(m, gm, n, r) ==
    [info |-> Applied(m, gm.info, r).info, recs |-> Append(Kept(gm, n, r), r)]

(* A record that may be added ends the list, and the last game with it. *)
LEMMA ToldList ==
    ASSUME NEW s \in States, s.aborted = "no", Chained(s.lMatch),
           s.plGame \in 1..Len(s.lMatch),
           \A k \in 1..(s.plGame - 1) :
               Plays(s.lMatch[k]) /\ s.lMatch[k].recs # <<>>,
           s.plLastMove <= Len(s.lMatch[s.plGame].recs),
           NEW r, Valid(r), Applies(s.ms, s.lMatch[s.plGame].info, r),
           NEW new, Plays(new), Len(new.recs) > 0,
           new = Longer(s.ms, s.lMatch[s.plGame], s.plLastMove, r),
           Same(Applied(s.ms, s.lMatch[s.plGame].info, r).ms,
                After(new, Len(new.recs)).ms)
    PROVE  LET t == AddMoveRecord(s, r)
           IN  /\ Told(t) /\ AtEnd(t) /\ Live(t)
               /\ t.ms = Applied(s.ms, s.lMatch[s.plGame].info, r).ms
               /\ t.aborted = "no" /\ t.prompt = s.prompt
<1> DEFINE gm == s.lMatch[s.plGame]
           a == Applied(s.ms, gm.info, r)
           cut == SubSeq(s.lMatch, 1, s.plGame - 1)
           l == Append(cut, new)
           t == AddMoveRecord(s, r)
<1>1. s.lMatch \in Seq(Game) /\ s.plGame \in Nat /\ s.plLastMove \in Nat
  BY DEF States
<1>2. r \in Record /\ add_moverecord_sanity_check(r) = "no"
  BY DEF Valid
<1>3. Good(t) /\ t.ms = a.ms /\ t.plGame = s.plGame
  BY <1>2, GoodAddMoveRecord
<1>4. a.ms.gs # "none"
  BY DEF Applies
<1>5. t = [s EXCEPT !.ms = a.ms, !.plLastMove = Len(new.recs), !.lMatch = l]
  BY <1>2 DEF AddMoveRecord, Applied, Longer, Kept
<1>6. t.lMatch = l /\ t.plLastMove = Len(new.recs) /\ t.prompt = s.prompt
  BY <1>5 DEF States
<1>7. new \in Game
  BY DEF Plays
<1>8. /\ cut \in Seq(Game) /\ Len(cut) = s.plGame - 1
      /\ \A k \in 1..(s.plGame - 1) : cut[k] = s.lMatch[k]
  BY <1>1
<1> HIDE DEF cut
<1>9. /\ l \in Seq(Game) /\ Len(l) = s.plGame /\ l[s.plGame] = new
      /\ \A k \in 1..(s.plGame - 1) : l[k] = s.lMatch[k]
  BY <1>1, <1>7, <1>8
<1>10. Len(new.recs) \in Nat /\ new.recs # <<>>
  <2>1. new.recs \in Seq(Record)
    BY <1>7 DEF Game
  <2>2. QED
    BY <2>1
<1> HIDE DEF l, t, a
<1>11. Games(l)
  <2>1. SUFFICES ASSUME NEW k \in 1..s.plGame
                 PROVE  Plays(l[k]) /\ l[k].recs # <<>>
    BY <1>9 DEF Games
  <2>2. CASE k = s.plGame
    BY <1>9, <1>10, <2>2
  <2>3. CASE k # s.plGame
    <3>1. k \in 1..(s.plGame - 1)
      BY <1>1, <2>3
    <3>2. QED
      BY <1>9, <3>1
  <2>4. QED
    BY <2>2, <2>3
<1>12. InPlace(t) /\ AtEnd(t)
  <2>1. /\ t.plGame # 0 /\ t.plGame = Len(t.lMatch)
        /\ t.lMatch[t.plGame] = new /\ t.plLastMove = Len(new.recs)
        /\ t.plLastMove # 0
    BY <1>1, <1>3, <1>6, <1>9, <1>10
  <2>2. At(t.ms, new, t.plLastMove)
    BY <1>3, <2>1 DEF At, a, gm
  <2>3. QED
    BY <1>1, <1>10, <2>1, <2>2 DEF InPlace, AtEnd
<1>13. Told(t)
  BY <1>3, <1>6, <1>11, <1>12 DEF Told, Good, Placed
<1>14. t.ms.gs \in GameState
  BY <1>13, Fields DEF Told, Sound
<1>15. Live(t)
  BY <1>3, <1>4, <1>12, <1>13, <1>14 DEF Live, Playing, Ended, GameState
<1>16. QED
  BY <1>3, <1>6, <1>12, <1>13, <1>15 DEF Told, t, a, gm

(* Adding a record in a game in progress, at any point of it. *)
LEMMA ToldAdd ==
    ASSUME NEW s, Told(s), Playing(s), NEW r, Allowed(s.ms, r),
           s.ms.fResigned = 0 \/ r.mt = "resign",
           s.plLastMove = 0 => r.mt \in {"normal", "setdice", "resign"}
    PROVE  LET t == AddMoveRecord(s, r)
           IN  /\ Told(t) /\ AtEnd(t) /\ Live(t) /\ Live(TurnDone(t))
               /\ t.ms = Applied(s.ms, s.lMatch[s.plGame].info, r).ms
               /\ t.prompt = s.prompt
<1> DEFINE gm == s.lMatch[s.plGame]
           n == s.plLastMove
           new == Longer(s.ms, gm, n, r)
<1>1. /\ s \in States /\ s.aborted = "no" /\ Chained(s.lMatch)
      /\ Games(s.lMatch) /\ s.plGame \in 1..Len(s.lMatch)
      /\ n \in 0..Len(gm.recs) /\ n <= Len(gm.recs) /\ Plays(gm)
      /\ Point(s.ms, gm, n) /\ Sound(s.ms) /\ s.ms.gs = "playing"
      /\ Fits(s.ms, gm.info)
  BY InHand
<1>2. Applies(s.ms, gm.info, r) /\ Valid(r)
  BY <1>1, AllowedApplies
<1>3. /\ Plays(new) /\ Len(new.recs) > 0
      /\ Same(Applied(s.ms, gm.info, r).ms, After(new, Len(new.recs)).ms)
  BY <1>1, AddToGame DEF Longer, Kept
<1>4. \A k \in 1..(s.plGame - 1) :
          Plays(s.lMatch[k]) /\ s.lMatch[k].recs # <<>>
  BY <1>1 DEF Games, States
<1>5. new = Longer(s.ms, gm, n, r)
  OBVIOUS
<1> HIDE DEF new
<1>6. LET t == AddMoveRecord(s, r)
      IN  /\ Told(t) /\ AtEnd(t) /\ Live(t)
          /\ t.ms = Applied(s.ms, gm.info, r).ms
          /\ t.prompt = s.prompt
  BY <1>1, <1>2, <1>3, <1>4, <1>5, ToldList
<1>7. QED
  BY <1>6, LiveTurnDone

-----------------------------------------------------------------------------
(* The commands of play. *)

(* Two match states that differ in the dice, the turn and the resignation
   offered at most. *)
SamePosition(m, t) ==
    /\ t \in MatchStates /\ t.gs = m.gs /\ t.fDoubled = m.fDoubled
    /\ t.side = m.side /\ t.st = m.st /\ t.fMove = m.fMove
    /\ t.cGames = m.cGames /\ t.fCubeOwner = m.fCubeOwner
    /\ t.fCrawford = m.fCrawford /\ t.nMatchTo = m.nMatchTo
    /\ t.anScore = m.anScore /\ t.nCube = m.nCube /\ t.cBeavers = m.cBeavers

(* No record tells them apart. *)
LEMMA SoundPosition ==
    ASSUME NEW m, Sound(m), m.gs = "playing", NEW t, SamePosition(m, t),
           t.fTurn = IF t.fResigned = 0 THEN Decider(m) ELSE Other(Decider(m)),
           t.fResigned = -1 => PlayerType[t.fTurn] = "gnu"
    PROVE  Sound(t) /\ Same(m, t)
<1>1. Decider(t) = Decider(m)
  BY DEF Decider, SamePosition
<1>2. InGame(t)
  BY <1>1 DEF InGame, Sound, SamePosition
<1>3. QED
  BY <1>2 DEF Sound, Same, SamePosition

(* Nothing happens. *)
LEMMA ContinuesSelf ==
    ASSUME NEW s, Told(s)
    PROVE  Continues(s, s)
BY DEF Continues, Live

(* The records the commands make may follow. *)
LEMMA AllowedRecs ==
    ASSUME NEW m
    PROVE  /\ ~m.fDoubled =>
                /\ \A n \in 0..3 : Allowed(m, Rec("normal", m.fTurn, n))
                /\ Allowed(m, Rec("setdice", m.fTurn, 0))
           /\ m.fDoubled => /\ Allowed(m, Rec("take", m.fTurn, 0))
                            /\ Allowed(m, Rec("drop", m.fTurn, 0))
           /\ \A p \in Player, v \in 1..3 : Allowed(m, Rec("resign", p, v))
           /\ \A mt, p, v : Rec(mt, p, v).mt = mt
BY DEF Allowed, Rec

(* Adding a record after the question whether the rest may be deleted. *)
LEMMA AskedAdd ==
    ASSUME NEW s, Told(s), Playing(s), NEW ans, NEW r, Allowed(s.ms, r),
           s.ms.fResigned = 0 \/ r.mt = "resign",
           s.plLastMove = 0 => r.mt \in {"normal", "setdice", "resign"}
    PROVE  LET q == move_not_last_in_match_ok(s, ans)
           IN  /\ Live(q) /\ Live(TurnDone(AddMoveRecord(q, r)))
               /\ Live(AddMoveRecord(q, r))
<1> DEFINE q == move_not_last_in_match_ok(s, ans)
<1>1. Like(s, q)
  BY LikeAsked DEF Told
<1> HIDE DEF q
<1>2. Told(q) /\ Playing(q) /\ q.ms = s.ms /\ q.plLastMove = s.plLastMove
  BY <1>1, ToldLike DEF Like
<1>3. Live(q)
  BY <1>2 DEF Live
<1>4. QED
  BY <1>2, <1>3, ToldAdd DEF q

(* CommandAgree. *)
LEMMA ToldAgree ==
    ASSUME NEW s, Told(s), NEW c \in BOOLEAN, NEW ans,
           Playing(s) /\ c => s.ms.fResigned # -1
    PROVE  Continues(s, CommandAgree(s, c, ans))
<1> DEFINE r == Rec("resign", Other(s.ms.fTurn), s.ms.fResigned)
           q == move_not_last_in_match_ok(s, ans)
<1>1. CASE ~(Playing(s) /\ MayAct(s, c) /\ s.ms.fResigned # 0)
  BY <1>1, ContinuesSelf DEF CommandAgree
<1>2. CASE Playing(s) /\ MayAct(s, c) /\ s.ms.fResigned # 0
  <2>1. s.ms.fTurn \in Player /\ InGame(s.ms) /\ s.ms \in MatchStates
    BY <1>2, InHand
  <2>2. s.ms.fResigned \in 1..3
    <3>1. s.ms.fResigned \in -1..3
      BY <2>1, Fields
    <3>2. s.ms.fResigned # -1
      BY <1>2, <2>1 DEF MayAct, InGame
    <3>3. QED
      BY <1>2, <3>1, <3>2
  <2>3. Allowed(s.ms, r) /\ r.mt = "resign"
    BY <2>1, <2>2, Players, AllowedRecs
  <2> HIDE DEF r
  <2>4. Live(q) /\ Live(TurnDone(AddMoveRecord(q, r)))
    BY <1>2, <2>3, AskedAdd
  <2>5. CommandAgree(s, c, ans) \in {q, TurnDone(AddMoveRecord(q, r))}
    BY <1>2 DEF CommandAgree, r
  <2>6. QED
    BY <1>2, <2>4, <2>5 DEF Continues
<1>3. QED
  BY <1>1, <1>2

(* CommandDecline. *)
LEMMA ToldDecline ==
    ASSUME NEW s, Told(s), NEW c \in BOOLEAN
    PROVE  Continues(s, CommandDecline(s, c))
<1> DEFINE m == s.ms
           t == [m EXCEPT !.fResignationDeclined = m.fResigned,
                          !.fResigned = 0, !.fTurn = Other(m.fTurn)]
<1>1. CASE ~(Playing(s) /\ MayAct(s, c) /\ s.ms.fResigned # 0)
  BY <1>1, ContinuesSelf DEF CommandDecline
<1>2. CASE Playing(s) /\ MayAct(s, c) /\ s.ms.fResigned # 0
  <2>1. /\ m \in MatchStates /\ Sound(m) /\ InGame(m) /\ m.fTurn \in Player
        /\ m.fMove \in Player /\ m.gs = "playing"
    BY <1>2, InHand
  <2>2. Other(m.fTurn) \in Player \cup {NoOne} /\ m.fResigned \in -1..3
    BY <2>1, Players, Fields
  <2>3. Decider(m) \in Player /\ m.fTurn = Other(Decider(m))
    BY <1>2, <2>1, Players DEF Decider, InGame
  <2>4. Other(m.fTurn) = Decider(m)
    BY <2>3, Players
  <2>5. CommandDecline(s, c) = TurnDone([s EXCEPT !.ms = t])
    BY <1>2 DEF CommandDecline
  <2> HIDE DEF m
  <2>6. /\ SamePosition(m, t) /\ t.fResigned = 0 /\ t.dice = m.dice
        /\ t.fTurn = Other(m.fTurn)
    <3>1. 0 \in -1..3
      OBVIOUS
    <3>2. QED
      BY <2>1, <2>2, <3>1 DEF MatchStates, SamePosition
  <2> HIDE DEF t
  <2>7. Sound(t) /\ Same(m, t)
    BY <2>1, <2>4, <2>6, SoundPosition
  <2>8. Live([s EXCEPT !.ms = t])
    BY <1>2, <2>6, <2>7, ToldMs DEF m
  <2>9. QED
    BY <1>2, <2>5, <2>8, LiveTurnDone DEF Continues
<1>3. QED
  BY <1>1, <1>2

(* CommandResign, when no resignation is pending. *)
LEMMA ToldResign ==
    ASSUME NEW s, Told(s), NEW c \in BOOLEAN, NEW v \in -1..3,
           s.ms.fResigned = 0,
           v = -1 /\ Playing(s) /\ MayAct(s, c)
              => PlayerType[Other(s.ms.fTurn)] = "gnu"
    PROVE  Continues(s, CommandResign(s, c, v))
<1> DEFINE m == s.ms
           t == [m EXCEPT !.fResigned = v, !.fTurn = Other(m.fTurn)]
<1>1. CASE ~(Playing(s) /\ MayAct(s, c))
  BY <1>1, ContinuesSelf DEF CommandResign
<1>2. CASE /\ Playing(s) /\ MayAct(s, c)
           /\ \/ v \notin {-1, 1, 2, 3}
              \/ v >= 0 /\ v <= s.ms.fResignationDeclined
  <2>1. s \in States /\ m \in MatchStates
    BY <1>2, InHand
  <2>2. [m EXCEPT !.fResigned = 0] = m
    BY <2>1 DEF MatchStates
  <2>3. [s EXCEPT !.ms.fResigned = 0] = [s EXCEPT !.ms = [m EXCEPT !.fResigned = 0]]
    OBVIOUS
  <2>4. [s EXCEPT !.ms = m] = s
    BY <2>1 DEF States
  <2>5. QED
    BY <1>2, <2>2, <2>3, <2>4, ContinuesSelf DEF CommandResign
<1>3. CASE /\ Playing(s) /\ MayAct(s, c)
           /\ ~ \/ v \notin {-1, 1, 2, 3}
                \/ v >= 0 /\ v <= s.ms.fResignationDeclined
  <2>1. /\ m \in MatchStates /\ Sound(m) /\ InGame(m) /\ m.fTurn \in Player
        /\ m.fMove \in Player /\ m.gs = "playing" /\ m.fResigned = 0
    BY <1>3, InHand
  <2>2. Other(m.fTurn) \in Player \cup {NoOne} /\ v # 0
    BY <1>3, <2>1, Players
  <2>3. m.fTurn = Decider(m) /\ (v = -1 => PlayerType[Other(m.fTurn)] = "gnu")
    BY <1>3, <2>1 DEF InGame
  <2>4. CommandResign(s, c, v) = TurnDone([s EXCEPT !.ms = t])
    BY <1>3 DEF CommandResign
  <2> HIDE DEF m
  <2>5. /\ SamePosition(m, t) /\ t.fResigned = v /\ t.dice = m.dice
        /\ t.fTurn = Other(m.fTurn)
    BY <2>1, <2>2 DEF MatchStates, SamePosition
  <2> HIDE DEF t
  <2>6. Sound(t) /\ Same(m, t)
    BY <2>1, <2>2, <2>3, <2>5, SoundPosition
  <2>7. Live([s EXCEPT !.ms = t])
    BY <1>3, <2>5, <2>6, ToldMs DEF m
  <2>8. QED
    BY <1>3, <2>4, <2>7, LiveTurnDone DEF Continues
<1>4. QED
  BY <1>1, <1>2, <1>3

(* The owner that CommandRedouble sets is set again by the record. *)
LEMMA BeaverAdd ==
    ASSUME NEW q, Told(q), Playing(q), q.ms.fDoubled, q.ms.nCube < MAX_CUBE,
           NEW p, p = Other(q.ms.fMove)
    PROVE  LET r == Rec("double", q.ms.fTurn, 0)
           IN  AddMoveRecord([q EXCEPT !.ms.fCubeOwner = p], r)
                 = AddMoveRecord(q, r)
<1> DEFINE m == q.ms
           o == [m EXCEPT !.fCubeOwner = p]
           e == [q EXCEPT !.ms = o]
           r == Rec("double", m.fTurn, 0)
           g == q.lMatch[q.plGame].info
           a == Applied(m, g, r)
<1>1. q \in States /\ m \in MatchStates /\ m.fMove \in Player
  BY InHand
<1>2. p \in Player \cup {NoOne}
  BY <1>1, Players
<1>3. Applied(o, g, r) = a
  BY <1>1, <1>2, BeaverOwner
<1>4. e = [q EXCEPT !.ms.fCubeOwner = p]
  OBVIOUS
<1>5. /\ e.ms = o /\ e.lMatch = q.lMatch /\ e.plGame = q.plGame
      /\ e.plLastMove = q.plLastMove
  BY <1>1 DEF States
<1>6. add_moverecord_sanity_check(r) = "no"
  BY DEF add_moverecord_sanity_check, Rec
<1> DEFINE gm == q.lMatch[q.plGame]
           new == [info |-> a.info, recs |-> Append(Kept(gm, q.plLastMove, r), r)]
           l == Append(SubSeq(q.lMatch, 1, q.plGame - 1), new)
<1>7. AddMoveRecord(q, r)
        = [q EXCEPT !.ms = a.ms, !.plLastMove = Len(new.recs), !.lMatch = l]
  BY <1>6 DEF AddMoveRecord, Applied, Kept
<1>8. AddMoveRecord(e, r)
        = [e EXCEPT !.ms = a.ms, !.plLastMove = Len(new.recs), !.lMatch = l]
  <2> HIDE DEF e, r, o, g
  <2>1. ApplyMoveRecord(FixMatchState(e.ms, r), gm.info, r) = a
    BY <1>3, <1>5 DEF Applied, g
  <2> HIDE DEF a
  <2>2. QED
    BY <1>5, <1>6, <2>1 DEF AddMoveRecord, Kept
<1> HIDE DEF new, l, a, r, o
<1>9. [e EXCEPT !.ms = a.ms, !.plLastMove = Len(new.recs), !.lMatch = l]
        = [q EXCEPT !.ms = a.ms, !.plLastMove = Len(new.recs), !.lMatch = l]
  BY <1>1 DEF States
<1>10. QED
  BY <1>4, <1>7, <1>8, <1>9 DEF r

(* CommandRedouble. *)
LEMMA ToldRedouble ==
    ASSUME NEW s, Told(s), NEW c \in BOOLEAN, NEW ans, s.ms.fResigned = 0
    PROVE  Continues(s, CommandRedouble(s, c, ans))
<1> DEFINE r == Rec("double", s.ms.fTurn, 0)
           q == move_not_last_in_match_ok(s, ans)
           e == AddMoveRecord([q EXCEPT !.ms.fCubeOwner = Other(s.ms.fMove)], r)
           G == /\ s.ms.nMatchTo = 0
                /\ s.ms.cBeavers < nBeavers
                /\ Playing(s) /\ s.ms.fDoubled
                /\ MayAct(s, c)
                /\ s.ms.nCube < MAX_CUBE \div 2
<1>1. CASE ~G
  BY <1>1, ContinuesSelf DEF CommandRedouble
<1>2. CASE G
  <2>1. s.plLastMove # 0 /\ s.ms \in MatchStates /\ s \in States
    BY <1>2, InHand
  <2>2. Allowed(s.ms, r)
    BY <1>2 DEF Allowed
  <2>3. s.ms.nCube < MAX_CUBE
    BY <1>2, <2>1, Fields, Doubling
  <2>4. CommandRedouble(s, c, ans) \in {q, TurnDone(e)}
    BY <1>2 DEF CommandRedouble
  <2>5. Like(s, q)
    BY <2>1, LikeAsked
  <2>6. Live(q) /\ Live(TurnDone(AddMoveRecord(q, r)))
    BY <1>2, <2>1, <2>2, AskedAdd
  <2> HIDE DEF q
  <2>7. Told(q) /\ Playing(q) /\ q.ms = s.ms
    BY <1>2, <2>5, ToldLike DEF Like
  <2>8. e = AddMoveRecord(q, r)
    BY <1>2, <2>3, <2>7, BeaverAdd
  <2> HIDE DEF e
  <2>9. QED
    BY <1>2, <2>4, <2>6, <2>8 DEF Continues
<1>3. QED
  BY <1>1, <1>2

(* CommandDouble. *)
LEMMA ToldDouble ==
    ASSUME NEW s, Told(s), NEW c \in BOOLEAN, NEW ans, s.ms.fResigned = 0
    PROVE  Continues(s, CommandDouble(s, c, ans))
<1> DEFINE r == Rec("double", s.ms.fTurn, 0)
           q == move_not_last_in_match_ok(s, ans)
           d == CommandRedouble(q, c, ans)
           e == TurnDone(AddMoveRecord(q, r))
           G == Playing(s) /\ MayAct(s, c) /\ ~s.ms.fCrawford /\ CubeUse
           H == /\ s.ms.fTurn = s.ms.fMove
                /\ ~s.ms.dice
                /\ s.ms.fCubeOwner \in {NoOne, s.ms.fTurn}
                /\ s.ms.nCube < MAX_CUBE
<1>1. CASE ~G
  BY <1>1, ContinuesSelf DEF CommandDouble
<1>2. CASE G
  <2>1. s \in States /\ (s.plLastMove = 0 => s.ms.dice)
    BY <1>2, InHand
  <2>2. Like(s, q)
    BY <2>1, LikeAsked
  <2>3. CommandDouble(s, c, ans)
          = IF Refused(q) THEN q ELSE IF s.ms.fDoubled THEN d
            ELSE IF H THEN e ELSE q
    BY <1>2 DEF CommandDouble
  <2>4. ~s.ms.fDoubled /\ H => Live(e)
    <3>1. ~s.ms.fDoubled /\ H => Allowed(s.ms, r) /\ s.plLastMove # 0
      BY <1>2, <2>1 DEF Allowed
    <3>2. QED
      BY <1>2, <3>1, AskedAdd
  <2> HIDE DEF q
  <2>5. Told(q) /\ Playing(q) /\ q.ms.fResigned = 0
    BY <1>2, <2>2, ToldLike DEF Like
  <2>6. Live(q) /\ Live(d)
    BY <2>5, ToldRedouble DEF Continues, Live
  <2> HIDE DEF d, e
  <2>7. QED
    BY <1>2, <2>3, <2>4, <2>6 DEF Continues
<1>3. QED
  BY <1>1, <1>2

(* CommandTake and CommandDrop. *)
LEMMA ToldTakeDrop ==
    ASSUME NEW s, Told(s), NEW c \in BOOLEAN, NEW ans, s.ms.fResigned = 0
    PROVE  /\ Continues(s, CommandTake(s, c, ans))
           /\ Continues(s, CommandDrop(s, c, ans))
<1> DEFINE G == Playing(s) /\ s.ms.fDoubled /\ MayAct(s, c)
           x == Rec("take", s.ms.fTurn, 0)
           y == Rec("drop", s.ms.fTurn, 0)
           q == move_not_last_in_match_ok(s, ans)
           t == TurnDone(AddMoveRecord(q, x))
           d == TurnDone(AddMoveRecord(q, y))
<1>1. CASE ~G
  BY <1>1, ContinuesSelf DEF CommandTake, CommandDrop
<1>2. CASE G
  <2>1. s.plLastMove # 0
    BY <1>2, InHand
  <2>2. Allowed(s.ms, x) /\ Allowed(s.ms, y)
    BY <1>2, AllowedRecs
  <2>3. CommandTake(s, c, ans) \in {q, t} /\ CommandDrop(s, c, ans) \in {q, d}
    BY <1>2 DEF CommandTake, CommandDrop
  <2> HIDE DEF x, y
  <2>4. Live(q) /\ Live(t) /\ Live(d)
    BY <1>2, <2>1, <2>2, AskedAdd
  <2> HIDE DEF q, t, d
  <2>5. QED
    BY <1>2, <2>3, <2>4 DEF Continues
<1>3. QED
  BY <1>1, <1>2

(* CommandMove. *)
LEMMA ToldMove ==
    ASSUME NEW s, Told(s), NEW ans, NEW n \in PlayResults(s.ms)
    PROVE  Continues(s, CommandMove(s, ans, n))
<1> DEFINE r == Rec("normal", s.ms.fTurn, n)
           q == move_not_last_in_match_ok(s, ans)
           G == /\ Playing(s) /\ MayAct(s, FALSE) /\ s.ms.dice
                /\ s.ms.fResigned = 0 /\ ~s.ms.fDoubled
<1>1. CASE ~G
  BY <1>1, ContinuesSelf DEF CommandMove
<1>2. CASE G
  <2>1. Allowed(s.ms, r) /\ r.mt = "normal"
    BY <1>2, PlayStatus, AllowedRecs
  <2>2. CommandMove(s, ans, n) \in {q, TurnDone(AddMoveRecord(q, r))}
    BY <1>2 DEF CommandMove
  <2> HIDE DEF r
  <2>3. Live(q) /\ Live(TurnDone(AddMoveRecord(q, r)))
    BY <1>2, <2>1, AskedAdd
  <2>4. QED
    BY <1>2, <2>2, <2>3 DEF Continues
<1>3. QED
  BY <1>1, <1>2

(* CommandRoll, with the play that may follow it at once. *)
LEMMA ToldRoll ==
    ASSUME NEW s, Told(s), NEW ans, NEW out \in RollOutcomes(s.ms)
    PROVE  Continues(s, CommandRoll(s, ans, out))
<1> DEFINE r == Rec("setdice", s.ms.fTurn, 0)
           q == move_not_last_in_match_ok(s, ans)
           e == AddMoveRecord(q, r)
           x == Rec("normal", s.ms.fTurn, out)
           f == TurnDone(AddMoveRecord(e, x))
           G == /\ Playing(s) /\ MayAct(s, FALSE) /\ ~s.ms.fDoubled
                /\ s.ms.fResigned = 0 /\ ~s.ms.dice
<1>1. CASE ~G
  BY <1>1, ContinuesSelf DEF CommandRoll
<1>2. CASE G
  <2>1. s \in States
    BY DEF Told
  <2>2. Like(s, q)
    BY <2>1, LikeAsked
  <2>3. CommandRoll(s, ans, out)
          = IF Refused(q) THEN q ELSE IF out = Choice THEN e ELSE f
    BY <1>2 DEF CommandRoll
  <2> HIDE DEF q
  <2>4. Told(q) /\ Playing(q) /\ q.ms = s.ms /\ Live(q)
    BY <1>2, <2>2, ToldLike DEF Like, Live
  <2>5. Allowed(q.ms, r) /\ r.mt = "setdice"
    BY <1>2, <2>4, AllowedRecs
  <2>6. /\ Sound(q.ms) /\ q.ms.gs = "playing"
        /\ Fits(q.ms, q.lMatch[q.plGame].info)
    BY <2>4, InHand
  <2>7. LET t == Applied(q.ms, q.lMatch[q.plGame].info, r).ms
        IN  /\ t.gs = "playing" /\ t.fResigned = 0 /\ ~t.fDoubled
            /\ t.fTurn = q.ms.fTurn
    BY <1>2, <2>4, <2>6, RollApplies
  <2> HIDE DEF r
  <2>8. /\ Told(e) /\ Live(e)
        /\ e.ms = Applied(q.ms, q.lMatch[q.plGame].info, r).ms
    BY <1>2, <2>4, <2>5, ToldAdd
  <2> HIDE DEF e
  <2>9. /\ Playing(e) /\ e.ms.fResigned = 0 /\ ~e.ms.fDoubled
        /\ e.ms.fTurn = s.ms.fTurn
    BY <2>4, <2>7, <2>8 DEF Playing
  <2>10. ASSUME out # Choice PROVE Live(f)
    <3>1. out \in 0..3
      <4>1. 0 \in 0..3 /\ Results \subseteq 0..3
        BY SettingsAssumption
      <4>2. QED
        BY <2>10, <4>1, Zenon DEF RollOutcomes, PlayResults
    <3>2. Allowed(e.ms, x) /\ x.mt = "normal"
      BY <2>9, <3>1, AllowedRecs
    <3> HIDE DEF x
    <3>3. QED
      BY <2>8, <2>9, <3>2, ToldAdd
  <2> HIDE DEF f
  <2>11. QED
    BY <1>2, <2>3, <2>4, <2>8, <2>10 DEF Continues
<1>3. QED
  BY <1>1, <1>2

-----------------------------------------------------------------------------
(* The computer's turn. *)

(* The answer to a resignation, of the value offered or of its choice. *)
LEMMA ToldAnswerResignation ==
    ASSUME NEW s, Told(s), Playing(s), s.ms.fResigned # 0, NEW ans,
           NEW t \in AnswerResignation(s, ans)
    PROVE  Live(t)
<1> DEFINE V == IF s.ms.fResigned = -1 THEN 1..3 ELSE {s.ms.fResigned}
           u(v) == [s EXCEPT !.ms = [s.ms EXCEPT !.fResigned = v]]
<1>1. /\ s.ms \in MatchStates /\ Sound(s.ms) /\ InGame(s.ms)
      /\ s.ms.gs = "playing"
  BY InHand
<1>2. \/ t = CommandDecline(s, TRUE)
      \/ \E v \in V : t = CommandAgree(u(v), TRUE, ans)
  BY DEF AnswerResignation
<1>3. ASSUME NEW v \in V
      PROVE  Live(CommandAgree(u(v), TRUE, ans))
  <2> DEFINE m == [s.ms EXCEPT !.fResigned = v]
  <2>1. v \in 1..3
    BY <1>1, <1>3, Fields
  <2>2. v \in -1..3 /\ v # -1 /\ v # 0
    BY <2>1
  <2>3. /\ SamePosition(s.ms, m) /\ m.fResigned = v /\ m.dice = s.ms.dice
        /\ m.fTurn = s.ms.fTurn
    BY <1>1, <2>2 DEF MatchStates, SamePosition
  <2>4. s.ms.fTurn = Other(Decider(s.ms))
    BY <1>1 DEF InGame
  <2> HIDE DEF m
  <2>5. Sound(m) /\ Same(s.ms, m)
    BY <1>1, <2>2, <2>3, <2>4, SoundPosition
  <2> DEFINE w == [s EXCEPT !.ms = m]
  <2>6. Told(w) /\ Playing(w) /\ w.ms = m
    BY <2>3, <2>5, ToldMs DEF Live
  <2>7. u(v) = w
    BY DEF m
  <2> HIDE DEF u, w
  <2>8. Continues(w, CommandAgree(w, TRUE, ans))
    BY <2>2, <2>3, <2>6, ToldAgree
  <2>9. QED
    BY <2>6, <2>7, <2>8 DEF Continues
<1>4. QED
  BY <1>2, <1>3, ToldDecline DEF Continues

(* The computer rolls, or plays its roll. *)
LEMMA ToldRollOrMove ==
    ASSUME NEW s, Told(s), Playing(s), s.ms.fResigned = 0, ~s.ms.fDoubled,
           NEW t \in RollOrMove(s)
    PROVE  Live(t)
<1>1. /\ s.ms \in MatchStates /\ Sound(s.ms) /\ InGame(s.ms)
      /\ s.ms.gs = "playing"
  BY InHand
<1>2. CASE ~s.ms.dice
  <2> DEFINE m == [s.ms EXCEPT !.dice = TRUE]
  <2>1. t = [s EXCEPT !.ms = m]
    BY <1>2 DEF RollOrMove
  <2>2. /\ SamePosition(s.ms, m) /\ m.fResigned = 0 /\ m.dice = TRUE
        /\ m.fTurn = s.ms.fTurn
    BY <1>1 DEF MatchStates, SamePosition
  <2>3. s.ms.fTurn = Decider(s.ms)
    BY <1>1 DEF InGame
  <2> HIDE DEF m
  <2>4. Sound(m) /\ Same(s.ms, m)
    BY <1>1, <2>2, <2>3, SoundPosition
  <2>5. QED
    BY <2>1, <2>2, <2>4, ToldMs
<1>3. CASE s.ms.dice
  <2>1. PICK n \in PlayResults(s.ms) :
            t = AddMoveRecord(s, Rec("normal", s.ms.fTurn, n))
    BY <1>3 DEF RollOrMove
  <2> DEFINE r == Rec("normal", s.ms.fTurn, n)
  <2>2. Allowed(s.ms, r) /\ r.mt = "normal"
    BY PlayStatus, AllowedRecs
  <2>3. t = AddMoveRecord(s, r)
    BY <2>1
  <2> HIDE DEF r
  <2>4. QED
    BY <2>2, <2>3, ToldAdd
<1>4. QED
  BY <1>2, <1>3

(* Every decision of ComputerTurn. *)
LEMMA ToldComputerTurn ==
    ASSUME NEW s, Told(s), Playing(s), NEW ans, NEW t \in ComputerTurn(s, ans)
    PROVE  Live(t)
<1>1. CASE s.ms.fResigned # 0
  BY <1>1, ToldAnswerResignation DEF ComputerTurn
<1>2. CASE s.ms.fResigned = 0 /\ s.ms.fDoubled
  <2>1. t \in {CommandTake(s, TRUE, ans), CommandDrop(s, TRUE, ans),
               CommandRedouble(s, TRUE, ans)}
    BY <1>2 DEF ComputerTurn, AnswerDouble
  <2>2. QED
    BY <1>2, <2>1, ToldTakeDrop, ToldRedouble DEF Continues
<1>3. CASE s.ms.fResigned = 0 /\ ~s.ms.fDoubled
  <2>1. t \in OfferResignation(s) \/ t \in OfferDouble(s, ans)
          \/ t \in RollOrMove(s)
    BY <1>3 DEF ComputerTurn
  <2>2. CASE t \in OfferResignation(s)
    <3>1. PICK v \in 1..3 : t = CommandResign(s, TRUE, v)
      BY <2>2 DEF OfferResignation
    <3>2. v \in -1..3 /\ v # -1
      OBVIOUS
    <3>3. QED
      BY <1>3, <3>1, <3>2, ToldResign DEF Continues
  <2>3. CASE t \in OfferDouble(s, ans)
    <3>1. t = CommandDouble(s, TRUE, ans)
      BY <2>3 DEF OfferDouble
    <3>2. QED
      BY <1>3, <3>1, ToldDouble DEF Continues
  <2>4. CASE t \in RollOrMove(s)
    BY <1>3, <2>4, ToldRollOrMove
  <2>5. QED
    BY <2>1, <2>2, <2>3, <2>4
<1>4. QED
  BY <1>1, <1>2, <1>3

(* StartAutomaticPlay. *)
LEMMA LikeAutomatic ==
    ASSUME NEW s \in States
    PROVE  /\ Like(s, StartAutomaticPlay(s))
           /\ StartAutomaticPlay(s).fNextTurn = s.fNextTurn
BY DEF StartAutomaticPlay, Like, States

(* CommandPlay. *)
LEMMA ToldCommandPlay ==
    ASSUME NEW s, Told(s), NEW ans, NEW t \in CommandPlay(s, ans)
    PROVE  Continues(s, t)
<1> DEFINE p == StartAutomaticPlay(s)
<1>1. CASE ~(Playing(s) /\ PlayerType[s.ms.fTurn] # "human")
  BY <1>1, ContinuesSelf DEF CommandPlay
<1>2. CASE Playing(s) /\ PlayerType[s.ms.fTurn] # "human"
  <2>1. PICK u \in ComputerTurn(p, ans) : t = TurnDone(u)
    BY <1>2 DEF CommandPlay
  <2>2. Like(s, p)
    BY LikeAutomatic DEF Told
  <2> HIDE DEF p
  <2>3. Told(p) /\ Playing(p)
    BY <1>2, <2>2, ToldLike
  <2>4. Live(t)
    BY <2>1, <2>3, ToldComputerTurn, LiveTurnDone
  <2>5. QED
    BY <1>2, <2>4 DEF Continues
<1>3. QED
  BY <1>1, <1>2

-----------------------------------------------------------------------------
(* New games. *)

(* A game may start after the games on record. *)
ReadyToStart(s) == Ready(s) /\ Games(s.lMatch)

(* The GAMEINFO record of a new game gives the state NewGame starts from:
   this is where an automatic double that is not shown would go wrong. *)
LEMMA OpeningStart ==
    ASSUME DoublesShown, NEW m, Sound(m), Unwon(m), NEW a \in AutoDoubles(m)
    PROVE  /\ OpeningState(m, a) = ApplyGameInfo(OpeningInfo(m, a))
           /\ Start(OpeningInfo(m, a))
<1> DEFINE g == NewGameInfo(m)
           h == OpeningInfo(m, a)
           b == ApplyGameInfo(g)
<1>1. m \in MatchStates /\ m.cGames <= m.anScore[0] + m.anScore[1]
  BY DEF Sound
<1>2. a \in Nat /\ (m.nMatchTo > 0 => a = 0)
  BY SettingsAssumption DEF AutoDoubles
<1>3. ~Display => a = 0
  BY DEF AutoDoubles, DoublesShown
<1>4. 2 ^ a \in CubeValues
  <2>1. 2 ^ 0 = 1 /\ 1 \in CubeValues
    BY CubeAssumption
  <2>2. Display => a \in 0..cAutoDoubles
    BY SettingsAssumption DEF AutoDoubles
  <2>3. QED
    BY <1>3, <2>1, <2>2, SettingsAssumption
<1>5. /\ h \in GameInfo /\ h.i = m.cGames /\ h.anScore = m.anScore
      /\ h.nMatch = m.nMatchTo /\ h.fCrawfordGame = m.fCrawford
  <2>1. 0 \in Player
    BY DEF Player
  <2>2. QED
    BY <2>1, OpeningApplies
<1>6. h = [g EXCEPT !.nAutoDoubles = a] /\ h.nAutoDoubles = a
  BY DEF OpeningInfo, NewGameInfo
<1>7. Start(h)
  <2> HIDE DEF h
  <2>1. h.fCrawfordGame => AutoCrawford /\ h.nMatch > 1 /\ h.nAutoDoubles = 0
    <3>1. m.nMatchTo \in Nat
      BY <1>1, Fields
    <3>2. QED
      BY <1>2, <1>5, <1>6, <3>1 DEF Sound
  <2>2. QED
    BY <1>1, <1>4, <1>5, <1>6, <2>1 DEF Start, Unwon
<1>8. OpeningState(m, a) = ApplyGameInfo(h)
  <2>1. /\ g.nMatch = h.nMatch /\ g.anScore = h.anScore /\ g.i = h.i
        /\ g.fCrawfordGame = h.fCrawfordGame /\ g.nAutoDoubles = 0
    BY <1>6 DEF NewGameInfo
  <2> DEFINE c == IF Display THEN 2 ^ a ELSE b.nCube
  <2>2. OpeningState(m, a) = [b EXCEPT !.nCube = c]
    BY DEF OpeningState
  <2>3. b.nCube = 2 ^ g.nAutoDoubles
    BY DEF ApplyGameInfo, InitialMatchState
  <2>4. c = 2 ^ h.nAutoDoubles
    BY <1>3, <1>6, <2>1, <2>3
  <2> HIDE DEF c, g, h
  <2> DEFINE pc == /\ ~h.fCrawfordGame
                   /\ \E p \in Player : h.anScore[p] = h.nMatch - 1
  <2>5. InitialMatchState \in MatchStates
    <3>1. [p \in Player |-> 0] \in [Player -> Nat] /\ "none" \in GameState
      BY DEF GameState
    <3>2. 0 \in 0..3 /\ 0 \in -1..3 /\ 1 \in CubeValues
      BY CubeAssumption
    <3>3. QED
      BY <3>1, <3>2, Players DEF InitialMatchState, MatchStates
  <2>6. b = [InitialMatchState EXCEPT
               !.nMatchTo = h.nMatch, !.anScore = h.anScore,
               !.cGames = h.i, !.nCube = 2 ^ g.nAutoDoubles,
               !.fCrawford = h.fCrawfordGame, !.fPostCrawford = pc]
    BY <2>1 DEF ApplyGameInfo
  <2>7. ApplyGameInfo(h)
          = [InitialMatchState EXCEPT
               !.nMatchTo = h.nMatch, !.anScore = h.anScore,
               !.cGames = h.i, !.nCube = c,
               !.fCrawford = h.fCrawfordGame, !.fPostCrawford = pc]
    BY <2>4 DEF ApplyGameInfo
  <2> HIDE DEF b, pc
  <2>8. QED
    BY <2>2, <2>5, <2>6, <2>7 DEF MatchStates
<1>9. QED
  BY <1>7, <1>8

(* The first roll opens a game on record. *)
LEMMA OpeningGame ==
    ASSUME NEW h, Start(h), NEW w \in Player, NEW gm, gm.info = h,
           gm.recs = <<>>, gm \in Game, Plays(gm)
    PROVE  LET o   == ApplyGameInfo(h)
               r   == Rec("setdice", w, 0)
               new == Longer(o, gm, 0, r)
           IN  /\ Plays(new) /\ Len(new.recs) > 0
               /\ Same(Applied(o, h, r).ms, After(new, Len(new.recs)).ms)
<1> DEFINE o == ApplyGameInfo(h)
           r == Rec("setdice", w, 0)
           new == Longer(o, gm, 0, r)
           u == Applied(o, h, r)
<1>1. 0 \in 0..Len(gm.recs) /\ Opener(r, w)
  BY DEF Opener
<1>2. After(gm, 0).ms = o
  BY <1>1, Part
<1>3. SubSeq(gm.recs, 1, 0) = <<>>
  OBVIOUS
<1>4. new = [info |-> u.info, recs |-> Append(SubSeq(gm.recs, 1, 0), r)]
  BY <1>3 DEF Longer, Kept
<1> HIDE DEF o, r, new, u
<1>5. /\ Plays(new) /\ After(new, 0 + 1) = u /\ Len(new.recs) = 0 + 1
  BY <1>1, <1>2, <1>4, Extend DEF u
<1>6. Same(u.ms, u.ms)
  BY DEF Same
<1>7. Len(new.recs) > 0 /\ After(new, Len(new.recs)) = u
  <2>1. 0 + 1 = 1
    OBVIOUS
  <2>2. QED
    BY <1>5, <2>1
<1>8. Plays(new) /\ Same(u.ms, After(new, Len(new.recs)).ms)
  BY <1>5, <1>6, <1>7
<1>9. QED
  BY <1>7, <1>8 DEF o, r, new, u

(* NewGame. *)
LEMMA ToldNewGame ==
    ASSUME DoublesShown, NEW s, ReadyToStart(s), NEW n \in NewGames(s)
    PROVE  Live(n) /\ Playing(n) /\ n.aborted = "no"
<1>1. PICK w \in Player, a \in AutoDoubles(s.ms) : n = NewGame(s, w, a)
  BY DEF NewGames
<1> DEFINE r == Rec("setdice", w, 0)
           h == OpeningInfo(s.ms, a)
           o == OpeningState(s.ms, a)
           gm == [info |-> h, recs |-> <<>>]
           l == Append(s.lMatch, gm)
           k == Len(s.lMatch) + 1
           p == [s EXCEPT !.lMatch = l, !.plGame = k, !.plLastMove = 0,
                          !.ms = o]
           new == Longer(o, gm, 0, r)
<1>2. /\ Sound(s.ms) /\ Unwon(s.ms) /\ s \in States /\ s.aborted = "no"
      /\ Chained(s.lMatch) /\ s.lMatch \in Seq(Game) /\ Games(s.lMatch)
  BY DEF ReadyToStart, Ready, States
<1>3. /\ gameinfo_sanity_check(NewGameInfo(s.ms)) = "no"
      /\ o \in MatchStates /\ h \in GameInfo
      /\ h.i = s.ms.cGames /\ h.anScore = s.ms.anScore
      /\ h.nMatch = s.ms.nMatchTo
      /\ Applies(o, h, r) /\ Applied(o, h, r).ms.gs = "playing"
  BY <1>2, OpeningApplies
<1>4. o = ApplyGameInfo(h) /\ Start(h)
  BY <1>2, OpeningStart
<1>5. n = AddMoveRecord(p, r)
  BY <1>1, <1>3 DEF NewGame, OpeningInfo, OpeningState
<1>6. Valid(r)
  BY AllowedValid DEF Opener
<1> HIDE DEF h, o
<1>7. gm \in Game /\ gm.info = h /\ gm.recs = <<>>
  BY <1>3 DEF Game
<1>8. Plays(gm)
  BY <1>4, <1>7 DEF Plays
<1> HIDE DEF gm
<1>9. /\ Plays(new) /\ Len(new.recs) > 0
      /\ Same(Applied(o, h, r).ms, After(new, Len(new.recs)).ms)
  BY <1>4, <1>7, <1>8, OpeningGame
<1>10. /\ l \in Seq(Game) /\ Len(l) = k /\ k \in Nat /\ k >= 1 /\ l[k] = gm
       /\ \A j \in 1..(k - 1) : l[j] = s.lMatch[j]
  BY <1>2, <1>7
<1>11. Chained(l)
  <2>1. SUFFICES ASSUME NEW j \in 1..(k - 1)
                 PROVE  Follows(l[j].info, l[j+1].info)
    BY <1>10 DEF Chained
  <2>2. CASE j + 1 = k
    <3>1. s.lMatch # <<>> /\ j = Len(s.lMatch) /\ l[j] = s.lMatch[j]
      BY <1>2, <1>10, <2>2
    <3>2. QED
      BY <1>3, <1>7, <1>10, <2>2, <3>1 DEF ReadyToStart, Ready, Follows
  <2>3. CASE j + 1 # k
    <3>1. j + 1 \in 1..(k - 1) /\ j \in 1..(Len(s.lMatch) - 1)
      BY <1>2, <2>3
    <3>2. QED
      BY <1>2, <1>10, <3>1 DEF Chained
  <2>4. QED
    BY <2>2, <2>3
<1>12. \A j \in 1..(k - 1) : Plays(l[j]) /\ l[j].recs # <<>>
  <2>1. SUFFICES ASSUME NEW j \in 1..(k - 1)
                 PROVE  Plays(l[j]) /\ l[j].recs # <<>>
    OBVIOUS
  <2>2. j \in 1..Len(s.lMatch)
    BY <1>2
  <2>3. QED
    BY <1>2, <1>10, <2>2 DEF Games
<1> HIDE DEF l, k
<1>13. p \in States
  BY <1>2, <1>3, <1>10 DEF States
<1>14. /\ p.lMatch = l /\ p.plGame = k /\ p.plLastMove = 0 /\ p.ms = o
       /\ p.aborted = "no"
  BY <1>2 DEF States
<1> HIDE DEF p, r
<1>15. /\ p.plGame \in 1..Len(p.lMatch) /\ p.lMatch[p.plGame] = gm
       /\ p.plLastMove <= Len(gm.recs)
  BY <1>7, <1>10, <1>14
<1>16. new = Longer(p.ms, p.lMatch[p.plGame], p.plLastMove, r)
  BY <1>14, <1>15
<1> HIDE DEF new
<1>17. /\ Live(n) /\ Told(n) /\ n.ms = Applied(o, h, r).ms
  <2>1. /\ Applies(p.ms, p.lMatch[p.plGame].info, r)
        /\ Same(Applied(p.ms, p.lMatch[p.plGame].info, r).ms,
                After(new, Len(new.recs)).ms)
        /\ p.plLastMove <= Len(p.lMatch[p.plGame].recs)
        /\ Chained(p.lMatch)
        /\ \A j \in 1..(p.plGame - 1) :
               Plays(p.lMatch[j]) /\ p.lMatch[j].recs # <<>>
    BY <1>3, <1>7, <1>9, <1>11, <1>12, <1>14, <1>15
  <2>2. LET t == AddMoveRecord(p, r)
        IN  /\ Told(t) /\ Live(t)
            /\ t.ms = Applied(p.ms, p.lMatch[p.plGame].info, r).ms
    BY <1>6, <1>9, <1>13, <1>14, <1>15, <1>16, <2>1, ToldList
  <2>3. QED
    BY <1>5, <1>7, <1>14, <1>15, <2>2
<1>18. QED
  BY <1>3, <1>17 DEF Playing, Told

(* StartNewGame, with the computer's first play. *)
LEMMA ToldStartNewGame ==
    ASSUME DoublesShown, NEW s, ReadyToStart(s), NEW ans,
           NEW t \in StartNewGame(s, ans)
    PROVE  Live(t)
<1>1. PICK n \in NewGames(s) :
          t \in IF n.aborted # "no" \/ PlayerType[n.ms.fTurn] = "human"
                THEN {n} ELSE {TurnDone(u) : u \in ComputerTurn(n, ans)}
  BY DEF StartNewGame
<1>2. Live(n) /\ Playing(n) /\ Told(n)
  BY ToldNewGame DEF Live
<1>3. t = n \/ \E u \in ComputerTurn(n, ans) : t = TurnDone(u)
  BY <1>1
<1>4. ASSUME NEW u \in ComputerTurn(n, ans) PROVE Live(TurnDone(u))
  BY <1>2, <1>4, ToldComputerTurn, LiveTurnDone
<1>5. QED
  BY <1>2, <1>3, <1>4

(* Before its last record a game has the score it started from. *)
LEMMA ScoreMidgame ==
    ASSUME NEW s, Told(s), s.plGame # 0,
           Playing(s) \/ s.plLastMove # Len(s.lMatch[s.plGame].recs)
    PROVE  LET g == s.lMatch[s.plGame].info
           IN  /\ s.ms.anScore = g.anScore /\ s.ms.cGames = g.i
               /\ s.ms.nMatchTo = g.nMatch
<1> DEFINE gm == s.lMatch[s.plGame]
           n == s.plLastMove
           p == gm.recs[1].fPlayer
<1>1. CASE Playing(s)
  BY <1>1, InHand DEF Fits
<1>2. CASE ~Playing(s)
  <2>1. /\ Plays(gm) /\ Start(gm.info) /\ p \in Player /\ At(s.ms, gm, n)
        /\ n \in 0..Len(gm.recs) /\ Len(gm.recs) \in Nat
    BY AGame
  <2>2. n < Len(gm.recs)
    BY <1>2, <2>1
  <2> HIDE DEF gm, n
  <2>3. n = 0
    <3>1. SUFFICES ASSUME n # 0 PROVE FALSE
      OBVIOUS
    <3>2. After(gm, n).ms.gs = "playing"
      BY <2>1, <2>2, <3>1, Part
    <3>3. s.ms.gs = "playing"
      BY <2>1, <3>1, <3>2 DEF At, Same
    <3>4. QED
      BY <1>2, <3>3 DEF Playing
  <2>4. s.ms = ApplyGameInfo(gm.info) \/ s.ms = Turned(gm.info, p)
    BY <1>2, <2>1, <2>3 DEF At, AtStart, Playing
  <2>5. /\ ApplyGameInfo(gm.info).anScore = gm.info.anScore
        /\ ApplyGameInfo(gm.info).cGames = gm.info.i
        /\ ApplyGameInfo(gm.info).nMatchTo = gm.info.nMatch
    BY <2>1, StartFields
  <2> HIDE DEF p
  <2>6. /\ Turned(gm.info, p).anScore = gm.info.anScore
        /\ Turned(gm.info, p).cGames = gm.info.i
        /\ Turned(gm.info, p).nMatchTo = gm.info.nMatch
    <3>1. Start(gm.info) /\ p \in Player
      BY <2>1
    <3>2. QED
      BY <3>1, OpeningSound
  <2>7. QED
    BY <2>4, <2>5, <2>6 DEF gm
<1>3. QED
  BY <1>1, <1>2

(* The end of the last game. *)
LEMMA AfterGame ==
    ASSUME NEW s, Told(s), ~Playing(s), AtEnd(s)
    PROVE  Ended(s.ms) /\ Fits(s.ms, s.lMatch[s.plGame].info)
<1> DEFINE gm == s.lMatch[s.plGame]
           n == s.plLastMove
<1>1. /\ Plays(gm) /\ At(s.ms, gm, n) /\ n \in 0..Len(gm.recs) /\ n \in Nat
      /\ n # 0
  BY AGame DEF AtEnd
<1>2. n > 0 /\ Same(s.ms, After(gm, n).ms)
  BY <1>1 DEF At
<1>3. Fits(After(gm, n).ms, gm.info) /\ After(gm, n).ms.gs # "none"
  BY <1>1, <1>2, Part
<1>4. s.ms.gs \in GameState
  BY Fields DEF Told, Sound
<1>5. QED
  BY <1>2, <1>3, <1>4, FitsSame DEF Same, Ended, Playing, GameState

(* A new game may follow the last one. *)
LEMMA ReadyAtEnd ==
    ASSUME NEW s, Told(s), ~Playing(s), Unwon(s.ms), s.plGame = 0 \/ AtEnd(s)
    PROVE  ReadyToStart(s)
<1>1. /\ s \in States /\ s.aborted = "no" /\ Sound(s.ms)
      /\ Chained(s.lMatch) /\ Games(s.lMatch) /\ InPlace(s)
  BY DEF Told
<1>2. CASE s.plGame = 0
  BY <1>1, <1>2 DEF ReadyToStart, Ready, InPlace
<1>3. CASE AtEnd(s)
  <2>1. Ended(s.ms) /\ Fits(s.ms, s.lMatch[s.plGame].info)
    BY <1>3, AfterGame
  <2>2. s.plGame = Len(s.lMatch)
    BY <1>3 DEF AtEnd
  <2>3. QED
    BY <1>1, <2>1, <2>2, Players DEF ReadyToStart, Ready, Fits
<1>4. QED
  BY <1>2, <1>3

(* The current game may be given up for another with the same score. *)
LEMMA ReadyAfterDiscard ==
    ASSUME NEW s, Told(s), Unwon(s.ms), s.plGame # 0,
           Playing(s) \/ s.plLastMove # Len(s.lMatch[s.plGame].recs)
    PROVE  ReadyToStart(PopGame(s))
<1> DEFINE k == s.plGame
           cut == SubSeq(s.lMatch, 1, k - 1)
           t == PopGame(s)
<1>1. /\ s \in States /\ s.aborted = "no" /\ Chained(s.lMatch)
      /\ Sound(s.ms) /\ Games(s.lMatch)
  BY DEF Told
<1>2. k \in 1..Len(s.lMatch) /\ s.lMatch \in Seq(Game) /\ k \in Nat
  BY AGame
<1>3. LET g == s.lMatch[k].info
      IN  /\ s.ms.anScore = g.anScore /\ s.ms.cGames = g.i
          /\ s.ms.nMatchTo = g.nMatch
  BY ScoreMidgame
<1>4. /\ cut \in Seq(Game) /\ Len(cut) = k - 1
      /\ \A j \in 1..(k - 1) : cut[j] = s.lMatch[j]
  BY <1>2
<1>10. /\ Len(cut) \in Nat /\ Len(cut) = k - 1 /\ k \in Int
       /\ Len(s.lMatch) \in Nat /\ k <= Len(s.lMatch) /\ 1 <= k
  BY <1>2, <1>4
<1> HIDE DEF cut
<1>5. t = [s EXCEPT !.lMatch = cut, !.plGame = 0, !.plLastMove = 0]
  BY DEF PopGame, cut
<1>6. /\ t \in States /\ t.lMatch = cut /\ t.ms = s.ms
      /\ t.aborted = "no"
  <2> DEFINE e == [s EXCEPT !.lMatch = cut, !.plGame = 0, !.plLastMove = 0]
  <2>1. e \in States
    BY <1>1, <1>4 DEF States
  <2>2. e.lMatch = cut /\ e.ms = s.ms /\ e.aborted = "no"
    BY <1>1 DEF States
  <2>3. QED
    BY <1>5, <2>1, <2>2
<1> HIDE DEF t
<1>7. Chained(cut) /\ Games(cut)
  <2>1. ASSUME NEW j \in 1..(Len(cut) - 1)
        PROVE  Follows(cut[j].info, cut[j+1].info)
    <3>1. /\ j \in 1..(Len(s.lMatch) - 1) /\ j \in 1..(k - 1)
          /\ j + 1 \in 1..(k - 1)
      BY <1>10
    <3>2. QED
      BY <1>1, <1>4, <3>1 DEF Chained
  <2>2. ASSUME NEW j \in 1..Len(cut)
        PROVE  Plays(cut[j]) /\ cut[j].recs # <<>>
    <3>1. j \in 1..Len(s.lMatch) /\ j \in 1..(k - 1)
      BY <1>2, <1>4
    <3>2. QED
      BY <1>1, <1>4, <3>1 DEF Games
  <2>3. QED
    BY <2>1, <2>2 DEF Chained, Games
<1>8. ASSUME cut # <<>>
      PROVE  LET g == cut[Len(cut)].info
             IN  /\ g.fWinner # NoOne
                 /\ s.ms.anScore = ScoreAfter(g) /\ s.ms.cGames = g.i + 1
                 /\ s.ms.nMatchTo = g.nMatch
  <2>1. k - 1 \in 1..(Len(s.lMatch) - 1)
    <3>1. Len(cut) # 0
      BY <1>4, <1>8
    <3>2. QED
      BY <1>10, <3>1
  <2>2. cut[Len(cut)] = s.lMatch[k - 1] /\ (k - 1) + 1 = k
    <3>1. k - 1 \in 1..(k - 1) /\ (k - 1) + 1 = k
      BY <1>10, <2>1
    <3>2. QED
      BY <1>4, <3>1
  <2>3. Follows(s.lMatch[k - 1].info, s.lMatch[k].info)
    BY <1>1, <2>1, <2>2 DEF Chained
  <2>4. QED
    BY <1>3, <2>2, <2>3 DEF Follows
<1>9. QED
  BY <1>1, <1>6, <1>7, <1>8 DEF ReadyToStart, Ready, t

(* CommandNewGame, except at the end of a game that others follow. *)
LEMMA ToldCommandNewGame ==
    ASSUME DoublesShown, NEW s, Told(s), s.fNextTurn = FALSE, NEW ans,
           s.plGame = Len(s.lMatch) \/ ~move_is_last_in_match(s),
           NEW t \in CommandNewGame(s, ans)
    PROVE  Steady(t)
<1> DEFINE q == IF ConfirmNew THEN Answer(s, ans) ELSE s
<1>1. Steady(s) /\ s \in States /\ s.ms \in MatchStates
  BY DEF Steady, Told, Sound
<1>2. ASSUME NEW u, ReadyToStart(u), t \in StartNewGame(StartAutomaticPlay(u), ans)
      PROVE  Steady(t)
  <2>1. ReadyToStart(StartAutomaticPlay(u))
    BY <1>2, GoodStartAutomaticPlay DEF ReadyToStart
  <2>2. Live(t)
    BY <1>2, <2>1, ToldStartNewGame
  <2>3. QED
    BY <2>2 DEF Steady, Live
<1>3. CASE MatchOver(s.ms)
  BY <1>1, <1>3 DEF CommandNewGame
<1>4. ~MatchOver(s.ms) => Unwon(s.ms)
  <2>1. s.ms.nMatchTo \in Nat /\ s.ms.anScore \in [Player -> Nat]
    BY <1>1, Fields
  <2>2. QED
    BY <2>1 DEF MatchOver, Unwon
<1>5. CASE ~MatchOver(s.ms) /\ ~Playing(s) /\ move_is_last_in_match(s)
  <2>1. s.plGame = 0 \/ AtEnd(s)
    BY <1>5 DEF AtEnd, move_is_last_in_match
  <2>2. ReadyToStart(s)
    BY <1>4, <1>5, <2>1, ReadyAtEnd
  <2>3. QED
    BY <1>2, <1>5, <2>2 DEF CommandNewGame
<1>6. CASE ~MatchOver(s.ms) /\ ~(~Playing(s) /\ move_is_last_in_match(s))
  <2>1. s.plGame # 0
    BY <1>6 DEF move_is_last_in_match, Told, InPlace, Playing
  <2>2. Playing(s) \/ s.plLastMove # Len(s.lMatch[s.plGame].recs)
    BY <1>6, <2>1 DEF move_is_last_in_match
  <2>3. Like(s, q) /\ q.fNextTurn = FALSE
    <3>1. Answer(s, ans).fNextTurn = s.fNextTurn
      BY <1>1 DEF Answer, States
    <3>2. Like(s, s)
      BY <1>1 DEF Like
    <3>3. QED
      BY <1>1, <3>1, <3>2, LikeAsked
  <2>4. \/ t = q
        \/ t \in StartNewGame(StartAutomaticPlay(PopGame(q)), ans)
    BY <1>6 DEF CommandNewGame
  <2> HIDE DEF q
  <2>5. Told(q) /\ Steady(q)
    BY <2>3, ToldLike DEF Steady
  <2>6. ReadyToStart(PopGame(q))
    <3>1. /\ Unwon(q.ms) /\ q.plGame # 0
          /\ Playing(q) \/ q.plLastMove # Len(q.lMatch[q.plGame].recs)
      BY <1>4, <1>6, <2>1, <2>2, <2>3 DEF Like, Playing
    <3>2. QED
      BY <2>5, <3>1, ReadyAfterDiscard
  <2>7. QED
    BY <1>2, <2>4, <2>5, <2>6
<1>7. QED
  BY <1>3, <1>5, <1>6

(* CommandNewMatch and CommandNewSession. *)
LEMMA ToldCommandNewMatch ==
    ASSUME DoublesShown, NEW s, Told(s), s.fNextTurn = FALSE, NEW ans,
           NEW n \in Nat, NEW t \in CommandNewMatch(s, n, ans)
    PROVE  Steady(t)
<1> DEFINE q == get_input_discard(s, ans)
           m == [[q.ms EXCEPT !.nMatchTo = 0, !.cGames = 0,
                              !.anScore = [p \in Player |-> 0],
                              !.fMove = NoOne, !.fTurn = NoOne,
                              !.fCrawford = FALSE, !.fPostCrawford = FALSE,
                              !.gs = "none"] EXCEPT !.nMatchTo = n]
           c == [ClearMatch(q) EXCEPT !.ms.nMatchTo = n]
           d == [q EXCEPT !.lMatch = <<>>, !.plGame = 0, !.plLastMove = 0,
                          !.ms = m]
<1>1. Like(s, q) /\ q.fNextTurn = FALSE
  <2>1. s \in States /\ Like(s, s)
    BY DEF Told, Like
  <2>2. Answer(s, ans).fNextTurn = s.fNextTurn
    BY <2>1 DEF Answer, States
  <2>3. QED
    BY <2>1, <2>2, LikeAsked DEF get_input_discard
<1>2. t = q \/ t \in CommandNewGame(c, ans)
  BY DEF CommandNewMatch
<1> HIDE DEF q
<1>3. Steady(q)
  BY <1>1, ToldLike DEF Steady
<1>4. q \in States /\ q.ms \in MatchStates /\ q.aborted = "no"
  BY <1>3 DEF Steady, Told, Sound
<1>5. m \in MatchStates
  <2>1. [p \in Player |-> 0] \in [Player -> Nat] /\ "none" \in GameState
    BY DEF GameState
  <2>2. QED
    BY <1>4, <2>1, Players DEF MatchStates
<1>6. /\ m.gs = "none" /\ m.cGames = 0 /\ m.fCrawford = FALSE
      /\ m.anScore = [p \in Player |-> 0]
  BY <1>4 DEF MatchStates
<1>7. c = d
  BY <1>4 DEF ClearMatch, States
<1> HIDE DEF m, c
<1>8. Sound(m)
  BY <1>5, <1>6 DEF Sound, Player
<1>9. /\ d \in States /\ d.ms = m /\ d.lMatch = <<>> /\ d.plGame = 0
      /\ d.aborted = "no" /\ d.fNextTurn = FALSE
  <2>1. <<>> \in Seq(Game)
    OBVIOUS
  <2>2. d \in States
    BY <1>4, <1>5, <2>1 DEF States
  <2>3. QED
    BY <1>1, <1>4, <2>2 DEF States
<1> HIDE DEF d
<1>10. Told(d) /\ d.plGame = Len(d.lMatch)
  BY <1>6, <1>8, <1>9 DEF Told, InPlace, Chained, Games
<1>11. t \in CommandNewGame(c, ans) => Steady(t)
  BY <1>7, <1>9, <1>10, ToldCommandNewGame
<1>12. QED
  BY <1>2, <1>3, <1>11


-----------------------------------------------------------------------------
(* NextTurn. *)

(* The part of it after the end of a game has been dealt with. *)
LEMMA ToldPlayNext ==
    ASSUME NEW s, Told(s), Playing(s), NEW ans, NEW t \in PlayNext(s, ans)
    PROVE  Live(t)
<1>1. s.aborted = "no"
  BY DEF Told
<1>2. \/ t = s
      \/ \E o \in RollOutcomes(s.ms) : t = CommandRoll(s, ans, o)
      \/ \E u \in ComputerTurn(s, ans) : t = TurnDone(u)
  BY <1>1 DEF PlayNext
<1>3. CASE t = s
  BY <1>3 DEF Live
<1>4. ASSUME NEW o \in RollOutcomes(s.ms), t = CommandRoll(s, ans, o)
      PROVE  Live(t)
  BY <1>4, ToldRoll DEF Continues
<1>5. ASSUME NEW u \in ComputerTurn(s, ans), t = TurnDone(u)
      PROVE  Live(t)
  BY <1>5, ToldComputerTurn, LiveTurnDone
<1>6. QED
  BY <1>2, <1>3, <1>4, <1>5

(* The Crawford flags of the next game are not in the records. *)
LEMMA SameCrawford ==
    ASSUME NEW m, Sound(m), NEW g, Fits(m, g), Ended(m)
    PROVE  LET t == SetCrawfordFlags(m, g.fWinner)
           IN  Sound(t) /\ Same(m, t)
<1> DEFINE t == SetCrawfordFlags(m, g.fWinner)
<1>1. /\ Sound(t) /\ t.gs = m.gs /\ t.anScore = m.anScore
      /\ t.cGames = m.cGames /\ t.nMatchTo = m.nMatchTo
  BY SoundCrawford
<1>2. t.nCube = m.nCube
  BY DEF SetCrawfordFlags, Sound, MatchStates
<1>3. QED
  BY <1>1, <1>2 DEF Same, Ended

(* A new match state for the end of the last game. *)
LEMMA ToldEndMs ==
    ASSUME NEW s, Told(s), ~Playing(s), AtEnd(s), NEW m, Sound(m),
           Same(s.ms, m)
    PROVE  LET t == [s EXCEPT !.ms = m]
           IN  /\ Told(t) /\ AtEnd(t) /\ ~Playing(t) /\ t.ms = m
               /\ t.fNextTurn = s.fNextTurn
<1> DEFINE t == [s EXCEPT !.ms = m]
           gm == s.lMatch[s.plGame]
           n == s.plLastMove
<1>1. /\ s \in States /\ s.aborted = "no" /\ Chained(s.lMatch)
      /\ Games(s.lMatch) /\ InPlace(s) /\ s.plGame # 0
  BY DEF Told, AtEnd
<1>2. m \in MatchStates
  BY DEF Sound
<1>3. /\ t \in States /\ t.ms = m /\ t.lMatch = s.lMatch
      /\ t.plGame = s.plGame /\ t.plLastMove = n /\ t.aborted = "no"
      /\ t.fNextTurn = s.fNextTurn
  BY <1>1, <1>2 DEF States
<1> HIDE DEF t
<1>4. n # 0 /\ s.plGame <= Len(s.lMatch) /\ n <= Len(gm.recs)
      /\ At(s.ms, gm, n)
  BY <1>1, AGame DEF AtEnd, InPlace
<1>5. At(m, gm, n)
  BY <1>4, SameOn DEF At
<1>6. InPlace(t)
  BY <1>1, <1>3, <1>4, <1>5 DEF InPlace
<1>7. Told(t) /\ AtEnd(t)
  BY <1>1, <1>3, <1>6 DEF Told, AtEnd
<1>8. ~Playing(t)
  BY <1>3 DEF Playing, Same
<1>9. QED
  BY <1>3, <1>7, <1>8 DEF t

(* A game whose winner has not won the match leaves it undecided. *)
LEMMA StillUnwon ==
    ASSUME NEW m, Sound(m), NEW g, Fits(m, g), Ended(m),
           ~(m.nMatchTo > 0 /\ m.anScore[g.fWinner] >= m.nMatchTo)
    PROVE  Unwon(m)
<1>1. /\ g \in GameInfo /\ g.fWinner \in Player
      /\ m.anScore = ScoreAfter(g) /\ m.nMatchTo = g.nMatch
      /\ g.nMatch > 0 => \A p \in Player : g.anScore[p] < g.nMatch
  BY DEF Fits
<1>2. g.anScore \in [Player -> Nat] /\ g.nMatch \in Nat
  BY <1>1 DEF GameInfo
<1>3. SUFFICES ASSUME g.nMatch > 0, NEW p \in Player
               PROVE  m.anScore[p] < g.nMatch
  BY <1>1 DEF Unwon
<1>4. m.anScore[p] \in Nat
  BY Fields DEF Sound
<1>5. CASE p = g.fWinner
  BY <1>1, <1>2, <1>3, <1>4, <1>5
<1>6. CASE p # g.fWinner
  <2>1. m.anScore[p] = g.anScore[p]
    BY <1>1, <1>2, <1>6, Players DEF ScoreAfter
  <2>2. QED
    BY <1>1, <1>3, <2>1
<1>7. QED
  BY <1>5, <1>6

(* NextTurn, as a whole. *)
LEMMA ToldNextTurn ==
    ASSUME DoublesShown, NEW s0, Steady(s0), s0.fNextTurn, NEW ans,
           NEW t \in NextTurn(s0, ans)
    PROVE  Steady(t)
<1> DEFINE s == [s0 EXCEPT !.fNextTurn = FALSE]
           g == s.lMatch[s.plGame].info
           w == g.fWinner
           m == SetCrawfordFlags(s.ms, w)
           done == [s EXCEPT !.ms = m]
           stop == [done EXCEPT !.automaticTask = FALSE]
           won == s.ms.nMatchTo > 0 /\ s.ms.anScore[w] >= s.ms.nMatchTo
<1>1. s0 \in States /\ Live(s0)
  BY DEF Steady, Told
<1>2. Like(s0, s) /\ s.fNextTurn = FALSE
  BY <1>1 DEF States, Like
<1>3. Live(s) /\ Told(s)
  BY <1>1, <1>2, ToldLike DEF Live
<1>4. \/ s.plGame = 0 /\ t = s
      \/ s.plGame # 0 /\ ~GameEnded(s.ms) /\ t \in PlayNext(s, ans)
      \/ s.plGame # 0 /\ GameEnded(s.ms) /\ t = stop
      \/ /\ s.plGame # 0 /\ GameEnded(s.ms) /\ ~won
         /\ \E n \in NewGames(done) : t \in PlayNext(n, ans)
  BY DEF NextTurn
<1> HIDE DEF s
<1>5. ASSUME Live(t) PROVE Steady(t)
  BY <1>5 DEF Steady, Live
<1>6. CASE s.plGame = 0 /\ t = s
  BY <1>2, <1>3, <1>6 DEF Steady
<1>7. CASE s.plGame # 0 /\ ~GameEnded(s.ms) /\ t \in PlayNext(s, ans)
  <2>1. Sound(s.ms)
    BY <1>3 DEF Told
  <2>2. Playing(s)
    BY <1>3, <1>7, <2>1 DEF Live, Ended, GameEnded, Sound
  <2>3. QED
    BY <1>3, <1>5, <1>7, <2>2, ToldPlayNext
<1>8. ASSUME s.plGame # 0, GameEnded(s.ms)
      PROVE  /\ Sound(s.ms) /\ Ended(s.ms) /\ Fits(s.ms, g) /\ Same(s.ms, m)
             /\ Told(done) /\ AtEnd(done) /\ ~Playing(done) /\ done.ms = m
             /\ done.fNextTurn = FALSE
  <2>1. Sound(s.ms)
    BY <1>3 DEF Told
  <2>2. ~Playing(s) /\ AtEnd(s)
    BY <1>3, <1>8, <2>1 DEF Live, Playing, GameEnded, Sound, InGame
  <2>3. Ended(s.ms) /\ Fits(s.ms, g)
    BY <1>3, <2>2, AfterGame
  <2>4. Sound(m) /\ Same(s.ms, m)
    BY <2>1, <2>3, SameCrawford
  <2> HIDE DEF m, g
  <2>5. QED
    BY <1>2, <1>3, <2>1, <2>2, <2>3, <2>4, ToldEndMs
<1> HIDE DEF m
<1>9. CASE s.plGame # 0 /\ GameEnded(s.ms) /\ t = stop
  <2>1. Told(done) /\ done.fNextTurn = FALSE /\ done \in States
    BY <1>8, <1>9 DEF Told
  <2> HIDE DEF done
  <2>2. Like(done, stop) /\ stop.fNextTurn = FALSE
    BY <2>1 DEF Like, States
  <2>3. Told(stop)
    BY <2>1, <2>2, ToldLike
  <2>4. QED
    BY <1>9, <2>2, <2>3 DEF Steady
<1> HIDE DEF done
<1>10. ASSUME s.plGame # 0, GameEnded(s.ms), ~won,
              NEW n \in NewGames(done), t \in PlayNext(n, ans)
       PROVE  Steady(t)
  <2>1. Unwon(s.ms)
    BY <1>8, <1>10, StillUnwon
  <2>2. Unwon(done.ms)
    BY <1>8, <1>10, <2>1 DEF Unwon, Same
  <2>3. ReadyToStart(done)
    BY <1>8, <1>10, <2>2, ReadyAtEnd
  <2>4. Live(n) /\ Playing(n)
    BY <1>10, <2>3, ToldNewGame
  <2>5. QED
    BY <1>5, <1>10, <2>4, ToldPlayNext DEF Live
<1>11. QED
  BY <1>4, <1>6, <1>7, <1>9, <1>10

-----------------------------------------------------------------------------
(* Navigation. *)

(* The place s points to is a record of a game. *)
PointsTo(s, k, n) ==
    /\ s \in States /\ s.aborted = "no" /\ Chained(s.lMatch)
    /\ Games(s.lMatch) /\ s.plGame = k /\ s.plLastMove = n
    /\ k \in 1..Len(s.lMatch) /\ n \in 0..Len(s.lMatch[k].recs)

(* No resignation is waiting for an answer in a game in progress. *)
Answered(s) == Playing(s) => s.ms.fResigned = 0

(* A command of navigation has gone from s to t: nothing else has changed. *)
Visits(s, t) ==
    /\ Told(t) /\ t.lMatch = s.lMatch /\ t.fNextTurn = FALSE
    /\ Answered(s) => Answered(t)

(* Pointing somewhere is all it takes, with the right match state. *)
LEMMA ToldAt ==
    ASSUME NEW t, NEW k, NEW n, PointsTo(t, k, n), Sound(t.ms),
           At(t.ms, t.lMatch[k], n)
    PROVE  Told(t)
<1>1. t.lMatch \in Seq(Game) /\ Len(t.lMatch) \in Nat
  BY DEF PointsTo, States
<1>2. k # 0 /\ k <= Len(t.lMatch)
  BY <1>1 DEF PointsTo
<1>3. t.lMatch[k] \in Game
  BY <1>1 DEF PointsTo
<1>4. Len(t.lMatch[k].recs) \in Nat
  BY <1>3 DEF Game
<1>5. n <= Len(t.lMatch[k].recs)
  BY <1>4 DEF PointsTo
<1>6. QED
  BY <1>2, <1>5 DEF PointsTo, Told, InPlace

(* A state that is told points to its place. *)
LEMMA ToldPointsTo ==
    ASSUME NEW s, Told(s), s.plGame # 0
    PROVE  PointsTo(s, s.plGame, s.plLastMove)
BY AGame DEF PointsTo, Told

(* The games, one by one. *)
LEMMA PointsToGame ==
    ASSUME NEW s, NEW k, NEW n, PointsTo(s, k, n)
    PROVE  LET gm == s.lMatch[k]
           IN  /\ Plays(gm) /\ gm.recs # <<>> /\ Len(gm.recs) \in Nat
               /\ Len(gm.recs) >= 1 /\ gm \in Game /\ Start(gm.info)
               /\ gm.recs[1].fPlayer \in Player
               /\ Opener(gm.recs[1], gm.recs[1].fPlayer)
               /\ n \in 0..Len(gm.recs) /\ n \in Nat
               /\ s.lMatch \in Seq(Game) /\ k \in 1..Len(s.lMatch)
<1> DEFINE gm == s.lMatch[k]
<1>1. /\ Plays(gm) /\ gm.recs # <<>> /\ k \in 1..Len(s.lMatch)
      /\ s.lMatch \in Seq(Game) /\ n \in 0..Len(gm.recs)
  BY DEF PointsTo, Games, States
<1>2. gm \in Game
  BY <1>1
<1>3. gm.recs \in Seq(Record)
  BY <1>2 DEF Game
<1>4. Len(gm.recs) \in Nat /\ Len(gm.recs) >= 1
  BY <1>1, <1>3
<1>5. gm.recs[1] \in Record
  BY <1>3, <1>4
<1>6. QED
  BY <1>1, <1>2, <1>4, <1>5 DEF Plays, Record

(* Writing a GAMEINFO record back as it was. *)
LEMMA SameList ==
    ASSUME NEW l \in Seq(Game), NEW k \in 1..Len(l), NEW g, g = l[k].info
    PROVE  [l EXCEPT ![k].info = g] = l
<1>1. l[k] \in Game
  OBVIOUS
<1>2. [l[k] EXCEPT !.info = g] = l[k]
  BY <1>1 DEF Game
<1>3. [l EXCEPT ![k].info = g] = [l EXCEPT ![k] = [l[k] EXCEPT !.info = g]]
  OBVIOUS
<1>4. [l EXCEPT ![k] = l[k]] = l
  OBVIOUS
<1>5. QED
  BY <1>2, <1>3, <1>4

(* Recalculate, from anywhere. *)
LEMMA ToldRecalculate ==
    ASSUME NEW s, NEW k, NEW n, PointsTo(s, k, n)
    PROVE  LET t  == Recalculate(s)
               gm == s.lMatch[k]
           IN  /\ PointsTo(t, k, n) /\ Told(t) /\ t.lMatch = s.lMatch
               /\ t.fNextTurn = s.fNextTurn /\ Answered(t)
               /\ n > 0 => t.ms = After(gm, n).ms
               /\ n = 0 => \/ t.ms = ApplyGameInfo(gm.info)
                           \/ t.ms = Turned(gm.info, gm.recs[1].fPlayer)
<1> DEFINE gm == s.lMatch[k]
           c == CalculateBoard(gm, n)
           m == c.ms
           t == [s EXCEPT !.ms = m]
<1>1. /\ Plays(gm) /\ Start(gm.info) /\ gm.recs[1].fPlayer \in Player
      /\ n \in 0..Len(gm.recs) /\ n \in Nat
      /\ s.lMatch \in Seq(Game) /\ k \in 1..Len(s.lMatch)
  BY PointsToGame
<1>2. /\ c.info = gm.info
      /\ n > 0 => m = After(gm, n).ms
      /\ n = 0 => \/ m = ApplyGameInfo(gm.info)
                  \/ m = Turned(gm.info, gm.recs[1].fPlayer)
  BY <1>1, Recalculated
<1>3. [s.lMatch EXCEPT ![k].info = c.info] = s.lMatch
  BY <1>1, <1>2, SameList
<1>4. Recalculate(s)
        = [s EXCEPT !.ms = m,
                    !.lMatch = [s.lMatch EXCEPT ![k].info = c.info]]
  BY DEF Recalculate, PointsTo, States
<1>5. s \in States /\ s.aborted = "no" /\ s.plGame = k /\ s.plLastMove = n
  BY DEF PointsTo
<1> HIDE DEF c, gm
<1>6. Recalculate(s) = t
  BY <1>3, <1>4, <1>5 DEF States
<1>7. /\ Sound(m) /\ At(m, gm, n)
      /\ m.gs = "playing" => m.fResigned = 0
  <2>1. CASE n > 0
    <3>1. /\ Sound(After(gm, n).ms)
          /\ After(gm, n).ms.gs = "playing" => After(gm, n).ms.fResigned = 0
      BY <1>1, <2>1, Part
    <3>2. Same(m, m) /\ n # 0
      BY <2>1 DEF Same
    <3>3. QED
      BY <1>2, <2>1, <3>1, <3>2 DEF At
  <2>2. CASE n = 0
    <3>1. Start(gm.info) /\ gm.recs[1].fPlayer \in Player
      BY <1>1
    <3>2. /\ Sound(ApplyGameInfo(gm.info))
          /\ Sound(Turned(gm.info, gm.recs[1].fPlayer))
          /\ Turned(gm.info, gm.recs[1].fPlayer).gs = "none"
      BY <3>1, OpeningSound
    <3>3. ApplyGameInfo(gm.info).gs = "none"
      BY <3>1, StartFields
    <3>4. QED
      BY <1>2, <2>2, <3>2, <3>3 DEF At, AtStart
  <2>3. QED
    BY <1>1, <2>1, <2>2
<1> HIDE DEF m
<1>8. m \in MatchStates
  BY <1>7 DEF Sound
<1>9. /\ t \in States /\ t.ms = m /\ t.lMatch = s.lMatch
      /\ t.plGame = k /\ t.plLastMove = n /\ t.aborted = "no"
      /\ t.fNextTurn = s.fNextTurn
  BY <1>5, <1>8 DEF States
<1> HIDE DEF t
<1>10. PointsTo(t, k, n)
  BY <1>9 DEF PointsTo
<1>11. Told(t)
  BY <1>7, <1>9, <1>10, ToldAt DEF gm
<1>12. Answered(t)
  BY <1>7, <1>9 DEF Answered, Playing
<1>13. QED
  BY <1>2, <1>6, <1>9, <1>10, <1>11, <1>12 DEF gm

(* CommandPrevious. *)
LEMMA ToldPrevious ==
    ASSUME NEW s, Told(s), s.fNextTurn = FALSE
    PROVE  /\ Visits(s, CommandPrevious(s))
           /\ s.plGame # 0 => Answered(CommandPrevious(s))
<1>1. CASE s.plGame = 0
  BY <1>1 DEF CommandPrevious, Visits
<1>2. CASE s.plGame # 0
  <2> DEFINE n == IF s.plLastMove = 0 THEN 0 ELSE s.plLastMove - 1
             q == [s EXCEPT !.plLastMove = n]
             k == s.plGame
  <2>1. /\ s \in States /\ s.plLastMove \in Nat
        /\ s.plLastMove \in 0..Len(s.lMatch[k].recs)
        /\ Len(s.lMatch[k].recs) \in Nat
    BY <1>2, AGame
  <2>2. n \in 0..Len(s.lMatch[k].recs) /\ n \in Nat
    BY <2>1
  <2>3. CommandPrevious(s) = Recalculate(q)
    BY <1>2, <2>1 DEF CommandPrevious
  <2> HIDE DEF n
  <2>4. /\ q \in States /\ q.lMatch = s.lMatch /\ q.plGame = k
        /\ q.plLastMove = n /\ q.aborted = s.aborted
        /\ q.fNextTurn = FALSE
    BY <2>1, <2>2 DEF States
  <2> HIDE DEF q
  <2>5. PointsTo(q, k, n)
    BY <1>2, <2>2, <2>4, ToldPointsTo DEF PointsTo
  <2>6. QED
    BY <2>3, <2>4, <2>5, ToldRecalculate DEF Visits
<1>3. QED
  BY <1>1, <1>2

(* SetTurn at the GAMEINFO record gives the turn to the first player. *)
LEMMA TurnIsSet ==
    ASSUME NEW s \in States, NEW g, Start(g), s.ms = ApplyGameInfo(g),
           NEW p \in Player
    PROVE  LET t == SetTurn(s, p)
           IN  /\ t \in States /\ t.ms = Turned(g, p) /\ t.lMatch = s.lMatch
               /\ t.plGame = s.plGame /\ t.plLastMove = s.plLastMove
               /\ t.aborted = s.aborted /\ t.fNextTurn = FALSE
<1> DEFINE b == ApplyGameInfo(g)
           x == [b EXCEPT !.side = IF b.fTurn # p THEN SwapSides(b.side)
                                                  ELSE b.side,
                          !.fTurn = p, !.fMove = p,
                          !.fDoubled = FALSE, !.dice = FALSE]
           y == [b EXCEPT !.fTurn = p, !.fMove = p]
           t == [s EXCEPT !.fNextTurn = FALSE, !.ms = x]
<1>1. /\ b \in MatchStates /\ b.side = NoOne /\ b.dice = FALSE
      /\ b.fDoubled = FALSE
  BY StartFields
<1>2. SetTurn(s, p) = t
  <2> HIDE DEF b
  <2>1. s.ms = b
    BY DEF b
  <2>2. SetTurn(s, p)
          = [s EXCEPT !.fNextTurn = FALSE,
                      !.ms = [s.ms EXCEPT
                                !.side = IF s.ms.fTurn # p
                                         THEN SwapSides(s.ms.side)
                                         ELSE s.ms.side,
                                !.fTurn = p, !.fMove = p,
                                !.fDoubled = FALSE, !.dice = FALSE]]
    BY DEF SetTurn
  <2>3. QED
    BY <2>1, <2>2
<1>3. y = Turned(g, p)
  BY DEF Turned
<1> HIDE DEF b
<1>4. x = [b EXCEPT !.side = NoOne, !.fTurn = p, !.fMove = p,
                    !.fDoubled = FALSE, !.dice = FALSE]
  BY <1>1 DEF SwapSides
<1>5. [b EXCEPT !.side = NoOne, !.fTurn = p, !.fMove = p,
                !.fDoubled = FALSE, !.dice = FALSE] = y
  BY <1>1 DEF MatchStates
<1>6. y \in MatchStates
  BY <1>1, Players DEF MatchStates
<1>7. x = y
  BY <1>4, <1>5
<1> HIDE DEF x, y
<1>8. /\ t \in States /\ t.ms = x /\ t.lMatch = s.lMatch
      /\ t.plGame = s.plGame /\ t.plLastMove = s.plLastMove
      /\ t.aborted = s.aborted /\ t.fNextTurn = FALSE
  BY <1>6, <1>7 DEF States
<1>9. QED
  BY <1>2, <1>3, <1>7, <1>8

(* ChangeGame. *)
LEMMA ToldChangeGame ==
    ASSUME NEW s, Told(s), s.fNextTurn = FALSE, NEW k \in 1..Len(s.lMatch)
    PROVE  Visits(s, ChangeGame(s, k))
<1> DEFINE gm == s.lMatch[k]
           q == [s EXCEPT !.plGame = k, !.plLastMove = 0]
           t == Recalculate(q)
           p == gm.recs[1].fPlayer
<1>1. /\ s \in States /\ s.aborted = "no" /\ Chained(s.lMatch)
      /\ Games(s.lMatch)
  BY DEF Told
<1>2. k \in Nat /\ s.lMatch \in Seq(Game)
  BY <1>1 DEF States
<1>3. /\ q \in States /\ q.lMatch = s.lMatch /\ q.plGame = k
      /\ q.plLastMove = 0 /\ q.aborted = "no" /\ q.fNextTurn = FALSE
  BY <1>1, <1>2 DEF States
<1>4. ChangeGame(s, k)
        = IF move_is_last_in_match(t) \/ NextRecord(t).fPlayer = t.ms.fTurn
          THEN t ELSE SetTurn(t, NextRecord(t).fPlayer)
  BY DEF ChangeGame
<1> HIDE DEF q
<1>5. 0 \in 0..Len(gm.recs)
  <2>1. gm \in Game
    BY <1>2
  <2>2. QED
    BY <2>1 DEF Game
<1>6. PointsTo(q, k, 0)
  BY <1>1, <1>3, <1>5 DEF PointsTo
<1>7. /\ PointsTo(t, k, 0) /\ Told(t) /\ t.lMatch = s.lMatch
      /\ t.fNextTurn = FALSE /\ Answered(t)
      /\ \/ t.ms = ApplyGameInfo(gm.info) \/ t.ms = Turned(gm.info, p)
  <2>1. LET h == q.lMatch[k]
        IN  /\ PointsTo(t, k, 0) /\ Told(t) /\ t.lMatch = q.lMatch
            /\ t.fNextTurn = q.fNextTurn /\ Answered(t)
            /\ \/ t.ms = ApplyGameInfo(h.info)
               \/ t.ms = Turned(h.info, h.recs[1].fPlayer)
    BY <1>6, ToldRecalculate
  <2> HIDE DEF t
  <2>2. QED
    BY <1>3, <2>1
<1> HIDE DEF t
<1>8. Start(gm.info) /\ p \in Player
  BY <1>7, PointsToGame
<1>9. NextRecord(t).fPlayer = p
  BY <1>7 DEF NextRecord, PointsTo
<1>10. Turned(gm.info, p).fTurn = p
  BY <1>8, OpeningSound
<1>11. CASE ChangeGame(s, k) = t
  BY <1>7, <1>11 DEF Visits
<1>12. CASE ChangeGame(s, k) # t
  <2>1. ChangeGame(s, k) = SetTurn(t, p) /\ t.ms = ApplyGameInfo(gm.info)
    BY <1>4, <1>7, <1>9, <1>10, <1>12
  <2> DEFINE u == SetTurn(t, p)
  <2>2. t \in States
    BY <1>7 DEF PointsTo
  <2>3. /\ u \in States /\ u.ms = Turned(gm.info, p) /\ u.lMatch = t.lMatch
        /\ u.plGame = t.plGame /\ u.plLastMove = t.plLastMove
        /\ u.aborted = t.aborted /\ u.fNextTurn = FALSE
    BY <1>8, <2>1, <2>2, TurnIsSet
  <2> HIDE DEF u
  <2>4. PointsTo(u, k, 0)
    BY <1>7, <2>3 DEF PointsTo
  <2>5. Sound(u.ms) /\ u.ms.gs = "none"
    <3>1. Sound(Turned(gm.info, p)) /\ Turned(gm.info, p).gs = "none"
      BY <1>8, OpeningSound
    <3>2. QED
      BY <2>3, <3>1
  <2>6. At(u.ms, u.lMatch[k], 0)
    BY <1>7, <2>3 DEF At, AtStart
  <2>7. Told(u) /\ Answered(u)
    BY <2>4, <2>5, <2>6, ToldAt DEF Answered, Playing
  <2>8. QED
    BY <1>7, <2>1, <2>3, <2>7 DEF Visits, u
<1>13. QED
  BY <1>11, <1>12

(* The commands that go to another game. *)
LEMMA ToldOtherGame ==
    ASSUME NEW s, Told(s), s.fNextTurn = FALSE
    PROVE  /\ Visits(s, CommandNextGame(s)) /\ Visits(s, CommandPreviousGame(s))
           /\ Visits(s, CommandFirstGame(s)) /\ Visits(s, CommandFirstMove(s))
<1>1. Visits(s, s)
  BY DEF Visits
<1>2. CASE s.plGame = 0
  <2>1. ~(s.plGame > 1) /\ s.plGame \notin 1..(Len(s.lMatch) - 1)
    BY <1>2
  <2>2. QED
    BY <1>1, <1>2, <2>1 DEF CommandNextGame, CommandPreviousGame,
                            CommandFirstGame, CommandFirstMove
<1>3. CASE s.plGame # 0
  <2>1. s.plGame \in 1..Len(s.lMatch) /\ s.lMatch \in Seq(Game)
    BY <1>3, AGame
  <2>2. Len(s.lMatch) \in Nat
    BY <2>1
  <2>3. /\ s.plGame \in 1..(Len(s.lMatch) - 1)
             => s.plGame + 1 \in 1..Len(s.lMatch)
        /\ s.plGame > 1 => s.plGame - 1 \in 1..Len(s.lMatch)
        /\ 1 \in 1..Len(s.lMatch)
    BY <2>1, <2>2
  <2>4. QED
    BY <1>1, <1>3, <2>1, <2>3, ToldChangeGame
       DEF CommandNextGame, CommandPreviousGame, CommandFirstGame,
           CommandFirstMove
<1>4. QED
  BY <1>2, <1>3

(* Record r, the next one, leads from the state at record n of a game to a
   state at record n + 1, play or no play. *)
Forward(m, gm, n) ==
    LET u == Applied(m, gm.info, gm.recs[n + 1])
    IN  /\ Sound(u.ms) /\ u.info = gm.info
        /\ Same(u.ms, After(gm, n + 1).ms)
        /\ u.ms.gs = "playing" => u.ms.fResigned = 0

(* A state that the records of the game lead to goes on like them. *)
LEMMA GoForward ==
    ASSUME NEW gm \in Game, NEW n \in Nat, NEW m, NEW a,
           Sound(m), Fits(m, gm.info), m.gs = "playing", m.fResigned = 0,
           Sound(a), a.gs = "playing", Same(a, m), a.fResigned = 0,
           Allowed(a, gm.recs[n + 1]),
           Same(Applied(a, gm.info, gm.recs[n + 1]).ms, After(gm, n + 1).ms),
           Applied(a, gm.info, gm.recs[n + 1]).info = gm.info
    PROVE  Forward(m, gm, n)
<1> DEFINE r == gm.recs[n + 1]
           u == Applied(m, gm.info, r)
           v == Applied(a, gm.info, r)
<1>1. Allowed(m, r) /\ Same(v.ms, u.ms) /\ u.info = v.info
  BY AgreeApplied
<1>2. /\ Applies(m, gm.info, r)
      /\ u.ms.gs = "playing" => u.ms.fResigned = 0
  BY <1>1, AllowedApplies
<1>3. Sound(u.ms)
  BY <1>2 DEF Applies
<1>4. Same(u.ms, After(gm, n + 1).ms)
  BY <1>1, SameOn
<1> HIDE DEF u
<1>5. QED
  BY <1>1, <1>2, <1>3, <1>4 DEF Forward, u

(* The record that may follow is made by the player whose turn it is. *)
LEMMA NothingToFix ==
    ASSUME NEW m, NEW r, Allowed(m, r)
    PROVE  FixMatchState(m, r) = m
<1>1. r.mt \in {"normal", "double"} => m.fTurn = r.fPlayer
  BY DEF Allowed, Rec
<1>2. QED
  BY <1>1 DEF FixMatchState

(* The first record, whatever is shown at the GAMEINFO record. *)
LEMMA ForwardStart ==
    ASSUME NEW gm, Plays(gm), gm.recs # <<>>, NEW m, Sound(m),
           AtStart(m, gm), m.gs = "playing" => m.fResigned = 0
    PROVE  Forward(m, gm, 0)
<1> DEFINE r == gm.recs[1]
           p == r.fPlayer
           g == gm.info
           b == ApplyGameInfo(g)
           o == Opening(g, p)
           w == Turned(g, p)
           u == Applied(b, g, r)
           v == Applied(o, g, r)
<1>1. gm \in Game /\ Start(g) /\ Opener(r, p)
  BY DEF Plays
<1>2. Len(gm.recs) \in Nat /\ Len(gm.recs) >= 1 /\ p \in Player
  <2>1. gm.recs \in Seq(Record)
    BY <1>1 DEF Game
  <2>2. Len(gm.recs) \in Nat /\ Len(gm.recs) >= 1
    BY <2>1
  <2>3. r \in Record
    BY <2>1, <2>2
  <2>4. QED
    BY <2>2, <2>3 DEF Record
<1>3. After(gm, 1) = u /\ After(gm, 1).info = g
  <2>1. 0 < Len(gm.recs) /\ 1 \in 0..Len(gm.recs) /\ 0 \in 0..Len(gm.recs)
        /\ 0 + 1 = 1
    BY <1>2
  <2>2. After(gm, 0) = [ms |-> b, info |-> g]
    BY <1>1, AfterDef
  <2>3. After(gm, 0 + 1) = Applied(After(gm, 0).ms, After(gm, 0).info, gm.recs[0 + 1])
    BY <1>1, <2>1, AfterDef
  <2>4. QED
    BY <2>1, <2>2, <2>3, Part
<1>4. /\ Sound(u.ms) /\ (u.ms.gs = "playing" => u.ms.fResigned = 0)
      /\ Same(v.ms, u.ms) /\ u.info = v.info /\ Allowed(o, r)
  BY <1>1, <1>2, OpenerAgrees
<1>5. /\ Sound(o) /\ Fits(o, g) /\ o.gs = "playing" /\ o.fResigned = 0
      /\ w.gs = "none" /\ w.fTurn = p
  <2>1. Start(g) /\ p \in Player
    BY <1>1, <1>2
  <2>2. /\ Sound(Opening(g, p)) /\ Fits(Opening(g, p), g)
        /\ Opening(g, p).gs = "playing" /\ Opening(g, p).fResigned = 0
        /\ Turned(g, p).gs = "none" /\ Turned(g, p).fTurn = p
    <3> HIDE DEF g, p, b, u, v, o, w
    <3>1. QED
      BY ONLY <2>1, OpeningSound, Zenon
  <2>3. QED
    BY ONLY <2>2 DEF o, w
<1>6. 0 + 1 = 1 /\ Same(o, o)
  BY DEF Same
<1>7. ASSUME NEW x, Sound(x), Fits(x, g), x.gs = "playing", x.fResigned = 0,
             Same(o, x)
      PROVE  Forward(x, gm, 0)
  <2>1. /\ Same(Applied(o, g, gm.recs[0 + 1]).ms, After(gm, 0 + 1).ms)
        /\ Applied(o, g, gm.recs[0 + 1]).info = g
        /\ Allowed(o, gm.recs[0 + 1])
    BY <1>3, <1>4, <1>6
  <2> HIDE DEF o
  <2>2. QED
    BY <1>1, <1>5, <1>7, <2>1, GoForward
<1>8. CASE m = b
  <2>1. Same(u.ms, u.ms)
    BY DEF Same
  <2> HIDE DEF b, u
  <2>2. QED
    BY <1>3, <1>4, <1>6, <1>8, <2>1 DEF Forward, u
<1>9. CASE m = w
  <2>1. FixMatchState(w, r) = w
    BY <1>5 DEF FixMatchState
  <2>2. FixMatchState(o, r) = o
    BY <1>4, NothingToFix
  <2>3. Fresh(w) = Fresh(o)
    <3>1. Fresh(w) = o
      BY DEF Opening
    <3>2. o \in MatchStates
      BY <1>5 DEF Sound
    <3>3. Fresh(w) = Fresh(Fresh(w))
      BY <3>1, <3>2 DEF Fresh, MatchStates
    <3>4. QED
      BY <3>1, <3>3
  <2>4. ApplyMoveRecord(w, g, r) = ApplyMoveRecord(o, g, r)
    BY <2>3, FreshEnough
  <2>5. Applied(w, g, r) = Applied(o, g, r)
    BY <2>1, <2>2, <2>4 DEF Applied
  <2>6. Forward(o, gm, 0)
    BY <1>5, <1>6, <1>7
  <2>7. QED
    BY <1>6, <1>9, <2>5, <2>6 DEF Forward
<1>10. CASE m.gs = "playing" /\ m.dice /\ Same(m, o)
  <2>1. Same(o, m) /\ Fits(m, g)
    BY <1>5, <1>10, SameOn, FitsSame
  <2>2. QED
    BY <1>7, <1>10, <2>1
<1>11. QED
  BY <1>8, <1>9, <1>10 DEF AtStart

(* The next record, anywhere in a game. *)
LEMMA ForwardAnywhere ==
    ASSUME NEW s, Told(s), s.plGame # 0, Answered(s),
           s.plLastMove < Len(s.lMatch[s.plGame].recs)
    PROVE  Forward(s.ms, s.lMatch[s.plGame], s.plLastMove)
<1> DEFINE gm == s.lMatch[s.plGame]
           n == s.plLastMove
           a == After(gm, n).ms
           r == gm.recs[n + 1]
<1>1. /\ Plays(gm) /\ gm.recs # <<>> /\ gm \in Game /\ n \in Nat
      /\ n \in 0..Len(gm.recs) /\ Len(gm.recs) \in Nat /\ At(s.ms, gm, n)
  BY AGame
<1>2. Sound(s.ms) /\ (s.ms.gs = "playing" => s.ms.fResigned = 0)
  BY DEF Told, Answered, Playing
<1> HIDE DEF gm, n
<1>3. CASE n = 0
  BY <1>1, <1>2, <1>3, ForwardStart DEF At, gm, n
<1>4. CASE n # 0
  <2>1. n > 0 /\ n < Len(gm.recs) /\ n + 1 \in 0..Len(gm.recs)
    BY <1>1, <1>4 DEF gm, n
  <2>2. /\ Sound(a) /\ a.gs = "playing" /\ a.fResigned = 0 /\ Allowed(a, r)
        /\ Fits(a, gm.info) /\ After(gm, n).info = gm.info
    BY <1>1, <2>1, Part
  <2>3. After(gm, n + 1) = Applied(a, gm.info, r)
    BY <1>1, <2>1, <2>2, AfterDef
  <2>4. After(gm, n + 1).info = gm.info
    BY <1>1, <2>1, Part
  <2>5. Same(s.ms, a)
    BY <1>1, <1>4 DEF At
  <2> HIDE DEF a
  <2>6. /\ Same(a, s.ms) /\ Fits(s.ms, gm.info) /\ s.ms.gs = "playing"
        /\ s.ms.fResigned = 0
    BY <1>2, <2>2, <2>5, SameOn, FitsSame DEF Same
  <2>7. /\ Same(Applied(a, gm.info, r).ms, After(gm, n + 1).ms)
        /\ Applied(a, gm.info, r).info = gm.info
    BY <2>3, <2>4 DEF Same
  <2>8. Forward(s.ms, gm, n)
    BY <1>1, <1>2, <2>2, <2>6, <2>7, GoForward
  <2>9. QED
    BY <2>8 DEF gm, n
<1>5. QED
  BY <1>3, <1>4

(* CommandNext. *)
LEMMA ToldNext ==
    ASSUME NEW s, Told(s), s.fNextTurn = FALSE, Answered(s)
    PROVE  Visits(s, CommandNext(s))
<1> DEFINE k == s.plGame
           gm == s.lMatch[k]
           n == s.plLastMove + 1
           u == Applied(s.ms, gm.info, gm.recs[n])
           x == FixForNext(u.ms, gm.recs, n)
           l == [s.lMatch EXCEPT ![k].info = u.info]
           e == [s EXCEPT !.plLastMove = n, !.ms = u.ms]
<1>1. CASE k = 0 \/ move_is_last_in_match(s)
  BY <1>1 DEF CommandNext, Visits
<1>2. CASE ~(k = 0 \/ move_is_last_in_match(s))
  <2>1. /\ s \in States /\ Plays(gm) /\ s.plLastMove \in Nat
        /\ s.plLastMove \in 0..Len(gm.recs) /\ Len(gm.recs) \in Nat
        /\ s.lMatch \in Seq(Game) /\ k \in 1..Len(s.lMatch)
    BY <1>2, AGame
  <2>2. s.plLastMove < Len(gm.recs)
    BY <1>2, <2>1 DEF move_is_last_in_match
  <2>3. /\ n > 0 /\ n # 0 /\ n \in 0..Len(gm.recs) /\ n \in Nat
    BY <2>1, <2>2
  <2>4. Forward(s.ms, gm, s.plLastMove)
    BY <1>2, <2>2, ForwardAnywhere
  <2>5. CommandNext(s) = [s EXCEPT !.plLastMove = n, !.ms = x,
                                   !.lMatch = l]
    BY <1>2 DEF CommandNext, Applied
  <2>6. PointsTo(s, k, s.plLastMove)
    BY <1>2, ToldPointsTo
  <2> HIDE DEF gm
  <2>7. /\ Sound(u.ms) /\ u.info = gm.info /\ Same(u.ms, After(gm, n).ms)
        /\ u.ms.gs = "playing" => u.ms.fResigned = 0
    BY <2>4 DEF Forward
  <2> HIDE DEF n, u
  <2>8. l = s.lMatch
    BY <2>1, <2>7, SameList DEF gm
  <2>9. x = u.ms
    <3>1. CASE ~(n < Len(gm.recs))
      BY <3>1 DEF FixForNext
    <3>2. CASE n < Len(gm.recs)
      <4> DEFINE a == After(gm, n).ms
      <4>1. /\ Sound(a) /\ a.gs = "playing" /\ a.fResigned = 0
            /\ Allowed(a, gm.recs[n + 1])
        BY <2>1, <2>3, <3>2, Part
      <4>2. Same(a, u.ms) /\ u.ms.fResigned = 0
        BY <2>7, <4>1, SameOn DEF Same
      <4> HIDE DEF a
      <4>3. Allowed(u.ms, gm.recs[n + 1])
        BY <2>7, <4>1, <4>2, AgreeApplied
      <4>4. FixMatchState(u.ms, gm.recs[n + 1]) = u.ms
        BY <4>3, NothingToFix
      <4>5. QED
        BY <3>2, <4>4 DEF FixForNext
    <3>3. QED
      BY <3>1, <3>2
  <2> HIDE DEF x, l
  <2>10. u.ms \in MatchStates
    BY <2>7 DEF Sound
  <2>11. /\ e \in States /\ e.lMatch = s.lMatch /\ e.plGame = k
         /\ e.plLastMove = n /\ e.ms = u.ms /\ e.aborted = s.aborted
         /\ e.fNextTurn = FALSE
    BY <2>1, <2>3, <2>10 DEF States
  <2>12. CommandNext(s) = e
    BY <2>1, <2>5, <2>8, <2>9 DEF States
  <2> HIDE DEF e
  <2>13. PointsTo(e, k, n)
    BY <2>3, <2>6, <2>11 DEF PointsTo, gm
  <2>14. At(e.ms, e.lMatch[k], n)
    BY <2>3, <2>7, <2>11 DEF At, gm
  <2>15. Told(e) /\ Answered(e)
    BY <2>7, <2>11, <2>13, <2>14, ToldAt DEF Answered, Playing
  <2>16. QED
    BY <2>11, <2>12, <2>15 DEF Visits
<1>3. QED
  BY <1>1, <1>2

(* Match state m once CommandNextRoll has put player p's roll on the board. *)
Rolled(m, p) == [m EXCEPT !.gs = "playing", !.fMove = p, !.fTurn = p,
                          !.dice = TRUE]

(* The roll of the next play is shown at the GAMEINFO record or at any other,
   and nothing that a replay gives back changes. *)
LEMMA RollShown ==
    ASSUME NEW t, NEW k, NEW n, PointsTo(t, k, n),
           n > 0 => t.ms = After(t.lMatch[k], n).ms,
           n = 0 => \/ t.ms = ApplyGameInfo(t.lMatch[k].info)
                    \/ t.ms = Turned(t.lMatch[k].info,
                                     t.lMatch[k].recs[1].fPlayer),
           n < Len(t.lMatch[k].recs),
           t.lMatch[k].recs[n + 1].mt = "normal"
    PROVE  LET x == Rolled(t.ms, t.lMatch[k].recs[n + 1].fPlayer)
           IN  /\ Sound(x) /\ At(x, t.lMatch[k], n) /\ x.fResigned = 0
<1> DEFINE gm == t.lMatch[k]
           r == gm.recs[n + 1]
           p == r.fPlayer
           x == Rolled(t.ms, p)
<1>1. /\ Plays(gm) /\ gm.recs # <<>> /\ Len(gm.recs) \in Nat
      /\ Start(gm.info) /\ n \in 0..Len(gm.recs) /\ n \in Nat
      /\ gm.recs[1].fPlayer \in Player
  BY PointsToGame
<1>2. n < Len(gm.recs) /\ r.mt = "normal"
  OBVIOUS
<1>3. CASE n > 0
  <2> DEFINE a == After(gm, n).ms
  <2>1. t.ms = a
    BY <1>3
  <2> HIDE DEF gm
  <2>2. /\ Sound(a) /\ a.gs = "playing" /\ a.fResigned = 0 /\ Allowed(a, r)
    BY <1>1, <1>2, <1>3, Part
  <2>3. InPlayState(a) /\ a \in MatchStates
    BY <2>2 DEF InPlayState, Sound
  <2>4. p = a.fTurn /\ ~a.fDoubled
    BY <1>2, <2>2 DEF Allowed, Rec
  <2>5. p = a.fMove /\ p \in Player /\ p = Decider(a)
    BY <2>3, <2>4, PlayTypes
  <2> HIDE DEF a, p
  <2>6. x = [a EXCEPT !.gs = "playing", !.fMove = p, !.fTurn = p,
                      !.dice = TRUE]
    BY <2>1 DEF Rolled
  <2> DEFINE z == [a EXCEPT !.gs = "playing", !.fMove = p, !.fTurn = p,
                            !.dice = TRUE]
  <2>7. z \in MatchStates
    BY <2>3, <2>5, Players DEF MatchStates, GameState
  <2>8. SamePosition(a, z) /\ z.fTurn = p /\ z.fResigned = a.fResigned
    BY <2>2, <2>3, <2>5, <2>7 DEF MatchStates, SamePosition
  <2> HIDE DEF z
  <2>9. Sound(z) /\ Same(a, z)
    BY <2>2, <2>5, <2>8, SoundPosition
  <2>10. Same(z, a) /\ n # 0
    BY <1>3, <2>9, SameOn
  <2>11. QED
    BY <2>2, <2>6, <2>8, <2>9, <2>10 DEF At, z, a, gm, p
<1>4. CASE n = 0
  <2> DEFINE b == ApplyGameInfo(gm.info)
             o == Opening(gm.info, p)
             z == [b EXCEPT !.gs = "playing", !.fMove = p, !.fTurn = p,
                            !.dice = TRUE]
  <2>1. /\ p = gm.recs[1].fPlayer /\ p \in Player
        /\ t.ms = b \/ t.ms = Turned(gm.info, p)
    BY <1>1, <1>4
  <2> HIDE DEF p, gm
  <2>2. Start(gm.info) /\ p \in Player
    BY <1>1, <2>1
  <2>3. /\ b \in MatchStates /\ b.fResigned = 0
    BY <2>2, StartFields
  <2>4. Sound(o) /\ o.gs = "playing" /\ o.fTurn = p /\ o.fMove = p
        /\ o.fDoubled = FALSE
    BY <2>2, OpeningSound
  <2>5. Turned(gm.info, p) = [b EXCEPT !.fTurn = p, !.fMove = p]
    BY DEF Turned
  <2>6. o = [Fresh(b) EXCEPT !.fTurn = p, !.fMove = p]
    BY <2>2, OpeningIs
  <2> HIDE DEF b
  <2>7. x = z
    <3>1. Rolled(b, p) = z
      BY DEF Rolled
    <3>2. Rolled([b EXCEPT !.fTurn = p, !.fMove = p], p) = z
      BY <2>3 DEF Rolled, MatchStates
    <3>3. QED
      BY <2>1, <2>5, <3>1, <3>2
  <2>8. z \in MatchStates
    BY <2>2, <2>3, Players DEF MatchStates, GameState
  <2>9. SamePosition(o, z) /\ z.fTurn = p /\ z.fResigned = 0 /\ z.dice = TRUE
    BY <2>3, <2>6, <2>8 DEF MatchStates, SamePosition, Fresh
  <2>10. Decider(o) = p
    BY <2>4 DEF Decider
  <2> HIDE DEF z, o
  <2>11. Sound(z) /\ Same(o, z)
    BY <2>4, <2>9, <2>10, SoundPosition
  <2>12. Same(z, o) /\ z.gs = "playing"
    BY <2>4, <2>11, SameOn DEF Same
  <2>13. AtStart(z, gm)
    BY <2>1, <2>9, <2>12 DEF AtStart, o
  <2>14. QED
    BY <1>4, <2>7, <2>9, <2>11, <2>13 DEF At, gm, p
<1>5. QED
  BY <1>1, <1>3, <1>4

(* CommandNextRoll. *)
LEMMA ToldNextRoll ==
    ASSUME NEW s, Told(s), s.fNextTurn = FALSE, Answered(s)
    PROVE  Visits(s, CommandNextRoll(s))
<1> DEFINE k == s.plGame
           n == s.plLastMove
           t == Recalculate(s)
           p == NextRecord(s).fPlayer
           m == t.ms
           x == Rolled(m, p)
           e == [t EXCEPT !.ms = x]
<1>1. CASE move_is_last_in_match(s)
  BY <1>1 DEF CommandNextRoll, Visits
<1>2. CASE ~move_is_last_in_match(s) /\ (NextRecord(s).mt # "normal" \/ s.ms.dice)
  BY <1>2, ToldNext DEF CommandNextRoll
<1>3. CASE /\ ~move_is_last_in_match(s)
           /\ ~(NextRecord(s).mt # "normal" \/ s.ms.dice)
  <2>1. /\ k # 0 /\ n # Len(s.lMatch[k].recs) /\ NextRecord(s).mt = "normal"
        /\ CommandNextRoll(s) = e
    BY <1>3 DEF CommandNextRoll, move_is_last_in_match, Rolled
  <2>2. PointsTo(s, k, n)
    BY <2>1, ToldPointsTo
  <2>3. /\ PointsTo(t, k, n) /\ Told(t) /\ t.lMatch = s.lMatch
        /\ t.fNextTurn = FALSE
        /\ n > 0 => m = After(s.lMatch[k], n).ms
        /\ n = 0 => \/ m = ApplyGameInfo(s.lMatch[k].info)
                    \/ m = Turned(s.lMatch[k].info,
                                  s.lMatch[k].recs[1].fPlayer)
    BY <2>2, ToldRecalculate
  <2>4. n < Len(s.lMatch[k].recs)
    BY <2>1, <2>2, PointsToGame
  <2>5. p = s.lMatch[k].recs[n + 1].fPlayer
        /\ s.lMatch[k].recs[n + 1].mt = "normal"
    BY <2>1 DEF NextRecord
  <2> HIDE DEF t, p
  <2>6. /\ PointsTo(t, k, n)
        /\ n > 0 => t.ms = After(t.lMatch[k], n).ms
        /\ n = 0 => \/ t.ms = ApplyGameInfo(t.lMatch[k].info)
                    \/ t.ms = Turned(t.lMatch[k].info,
                                     t.lMatch[k].recs[1].fPlayer)
        /\ n < Len(t.lMatch[k].recs)
        /\ t.lMatch[k].recs[n + 1].mt = "normal"
        /\ p = t.lMatch[k].recs[n + 1].fPlayer
    BY <2>3, <2>4, <2>5
  <2>7. Sound(x) /\ At(x, t.lMatch[k], n) /\ x.fResigned = 0
    <3> HIDE DEF n, k, x
    <3>1. LET y == Rolled(t.ms, t.lMatch[k].recs[n + 1].fPlayer)
          IN  Sound(y) /\ At(y, t.lMatch[k], n) /\ y.fResigned = 0
      BY <2>6, RollShown
    <3>2. QED
      BY <2>6, <3>1 DEF x
  <2> HIDE DEF x
  <2>8. t \in States /\ x \in MatchStates
    BY <2>3, <2>7 DEF PointsTo, Sound
  <2>9. /\ e \in States /\ e.lMatch = t.lMatch /\ e.plGame = t.plGame
        /\ e.plLastMove = t.plLastMove /\ e.ms = x
        /\ e.aborted = t.aborted /\ e.fNextTurn = t.fNextTurn
    BY <2>8 DEF States
  <2> HIDE DEF e
  <2>10. PointsTo(e, k, n)
    BY <2>3, <2>9 DEF PointsTo
  <2>11. Told(e) /\ Answered(e)
    BY <2>7, <2>9, <2>10, ToldAt DEF Answered
  <2>12. QED
    BY <2>1, <2>3, <2>9, <2>11 DEF Visits
<1>4. QED
  BY <1>1, <1>2, <1>3

(* The dice are in no record. *)
LEMMA DiceTaken ==
    ASSUME NEW m, Sound(m)
    PROVE  LET x == [m EXCEPT !.dice = FALSE]
           IN  /\ Sound(x) /\ Same(x, m) /\ x.fResigned = m.fResigned
               /\ x.fTurn = m.fTurn /\ x.gs = m.gs
<1> DEFINE x == [m EXCEPT !.dice = FALSE]
<1>1. m \in MatchStates
  BY DEF Sound
<1>2. x \in MatchStates
  BY <1>1 DEF MatchStates
<1>3. /\ SamePosition(m, x) /\ x.fResigned = m.fResigned
      /\ x.fTurn = m.fTurn /\ x.gs = m.gs
  BY <1>1, <1>2 DEF MatchStates, SamePosition
<1> HIDE DEF x
<1>4. ASSUME m.gs = "playing" PROVE Sound(x) /\ Same(x, m)
  <2>1. /\ x.fTurn = IF x.fResigned = 0 THEN Decider(m) ELSE Other(Decider(m))
        /\ x.fResigned = -1 => PlayerType[x.fTurn] = "gnu"
    BY <1>3, <1>4 DEF Sound, InGame
  <2>2. Sound(x) /\ Same(m, x)
    BY <1>3, <1>4, <2>1, SoundPosition
  <2>3. QED
    BY <2>2, SameOn
<1>5. ASSUME m.gs # "playing" PROVE Sound(x) /\ Same(x, m)
  BY <1>3, <1>5 DEF Sound, SamePosition, Same
<1>6. QED
  BY <1>3, <1>4, <1>5 DEF x

(* Taking the shown dice back. *)
LEMMA DiceTakenBack ==
    ASSUME NEW t, NEW k, NEW n, PointsTo(t, k, n),
           n > 0 => t.ms = After(t.lMatch[k], n).ms,
           n = 0 => \/ t.ms = ApplyGameInfo(t.lMatch[k].info)
                    \/ t.ms = Turned(t.lMatch[k].info,
                                     t.lMatch[k].recs[1].fPlayer)
    PROVE  LET x == FixForNext([t.ms EXCEPT !.dice = FALSE],
                               t.lMatch[k].recs, n)
           IN  /\ Sound(x) /\ At(x, t.lMatch[k], n)
               /\ x.gs = "playing" => x.fResigned = 0
<1> DEFINE gm == t.lMatch[k]
           m == t.ms
           y == [m EXCEPT !.dice = FALSE]
           x == FixForNext(y, gm.recs, n)
<1>1. /\ Plays(gm) /\ gm.recs # <<>> /\ Len(gm.recs) \in Nat
      /\ Start(gm.info) /\ n \in 0..Len(gm.recs) /\ n \in Nat
      /\ Len(gm.recs) >= 1 /\ gm.recs[1].fPlayer \in Player
      /\ Opener(gm.recs[1], gm.recs[1].fPlayer)
  BY PointsToGame
<1>2. CASE n > 0
  <2>1. m = After(gm, n).ms
    BY <1>2
  <2> HIDE DEF gm, m
  <2>2. /\ Sound(m) /\ (m.gs = "playing" => m.fResigned = 0)
        /\ n < Len(gm.recs) => m.gs = "playing" /\ Allowed(m, gm.recs[n + 1])
    BY <1>1, <1>2, <2>1, Part
  <2>3. /\ Sound(y) /\ Same(y, m) /\ y.fResigned = m.fResigned
        /\ y.fTurn = m.fTurn /\ y.gs = m.gs
    BY <2>2, DiceTaken
  <2> HIDE DEF y
  <2>4. x = y
    <3>1. CASE ~(n < Len(gm.recs))
      BY <3>1 DEF FixForNext
    <3>2. CASE n < Len(gm.recs)
      <4>1. gm.recs[n + 1].mt \in {"normal", "double"}
              => m.fTurn = gm.recs[n + 1].fPlayer
        BY <2>2, <3>2 DEF Allowed, Rec
      <4>2. QED
        BY <2>3, <3>2, <4>1 DEF FixForNext, FixMatchState
    <3>3. QED
      BY <3>1, <3>2
  <2>5. Same(y, After(gm, n).ms) /\ n # 0
    BY <1>2, <2>1, <2>3
  <2>6. QED
    BY <2>2, <2>3, <2>4, <2>5 DEF At, gm, m, y
<1>3. CASE n = 0
  <2> DEFINE r == gm.recs[1]
             p == r.fPlayer
             b == ApplyGameInfo(gm.info)
             w == Turned(gm.info, p)
  <2>1. m = b \/ m = w
    BY <1>3
  <2>2. Start(gm.info) /\ p \in Player
    BY <1>1
  <2> HIDE DEF gm
  <2>3. /\ b \in MatchStates /\ b.side = NoOne /\ b.dice = FALSE
        /\ b.gs = "none"
    BY <2>2, StartFields
  <2>4. /\ Sound(b) /\ Sound(w) /\ w.fTurn = p /\ w.gs = "none"
    BY <2>2, OpeningSound
  <2>5. w = [b EXCEPT !.fTurn = p, !.fMove = p]
    BY DEF Turned
  <2> HIDE DEF b
  <2>6. w.dice = FALSE /\ w \in MatchStates
    BY <2>3, <2>4, <2>5 DEF MatchStates, Sound
  <2> HIDE DEF w
  <2>7. y = m
    <3>1. m \in MatchStates /\ m.dice = FALSE
      BY <2>1, <2>3, <2>6
    <3> HIDE DEF m
    <3>2. QED
      BY <3>1 DEF MatchStates
  <2>8. x = FixMatchState(m, r)
    BY <1>1, <1>3, <2>7 DEF FixForNext
  <2> HIDE DEF x, y, r
  <2>9. FixMatchState(w, r) = w
    BY <2>4 DEF FixMatchState
  <2>10. FixMatchState(b, r) = b \/ FixMatchState(b, r) = w
    <3>1. CASE ~(r.mt \in {"normal", "double"} /\ b.fTurn # p)
      BY <3>1 DEF FixMatchState
    <3>2. CASE r.mt \in {"normal", "double"} /\ b.fTurn # p
      <4>1. FixMatchState(b, r)
              = [b EXCEPT !.side = NoOne, !.fMove = p, !.fTurn = p]
        BY <2>3, <3>2 DEF FixMatchState, SwapSides
      <4>2. [b EXCEPT !.side = NoOne, !.fMove = p, !.fTurn = p]
              = [b EXCEPT !.fTurn = p, !.fMove = p]
        BY <2>3 DEF MatchStates
      <4>3. QED
        BY <2>5, <4>1, <4>2
    <3>3. QED
      BY <3>1, <3>2
  <2>11. x = b \/ x = w
    BY <2>1, <2>8, <2>9, <2>10
  <2>12. Sound(x) /\ x.gs = "none" /\ AtStart(x, gm)
    BY <2>3, <2>4, <2>11 DEF AtStart, b, w, r
  <2>13. QED
    BY <1>3, <2>12 DEF At, x, y, gm
<1>4. QED
  BY <1>1, <1>2, <1>3

(* Two commands in a row. *)
LEMMA VisitsOn ==
    ASSUME NEW s, NEW t, NEW u, Visits(s, t), Visits(t, u)
    PROVE  Visits(s, u)
BY DEF Visits

(* CommandPreviousRoll. *)
LEMMA ToldPreviousRoll ==
    ASSUME NEW s, Told(s), s.fNextTurn = FALSE
    PROVE  Visits(s, CommandPreviousRoll(s))
<1> DEFINE k == s.plGame
           n == s.plLastMove
           c == Recalculate(s)
           d == [c EXCEPT !.ms.dice = FALSE]
           x == FixForNext([c.ms EXCEPT !.dice = FALSE], s.lMatch[k].recs, n)
           e == [c EXCEPT !.ms = x]
           t == CommandPrevious(s)
<1>1. CASE k = 0
  BY <1>1 DEF CommandPreviousRoll, Visits
<1>2. CASE k # 0 /\ ~s.ms.dice
  <2>1. CommandPreviousRoll(s) = t \/ CommandPreviousRoll(s) = CommandNextRoll(t)
    BY <1>2 DEF CommandPreviousRoll
  <2>2. Visits(s, t) /\ Answered(t)
    BY <1>2, ToldPrevious
  <2> HIDE DEF t
  <2>3. Visits(t, CommandNextRoll(t))
    BY <2>2, ToldNextRoll DEF Visits
  <2>4. QED
    BY <2>1, <2>2, <2>3, VisitsOn
<1>3. CASE k # 0 /\ s.ms.dice
  <2>1. CommandPreviousRoll(s)
          = [d EXCEPT !.ms = FixForNext(d.ms, s.lMatch[k].recs, n)]
    BY <1>3 DEF CommandPreviousRoll
  <2>2. PointsTo(s, k, n)
    BY <1>3, ToldPointsTo
  <2>3. /\ PointsTo(c, k, n) /\ Told(c) /\ c.lMatch = s.lMatch
        /\ c.fNextTurn = FALSE
        /\ n > 0 => c.ms = After(s.lMatch[k], n).ms
        /\ n = 0 => \/ c.ms = ApplyGameInfo(s.lMatch[k].info)
                    \/ c.ms = Turned(s.lMatch[k].info,
                                     s.lMatch[k].recs[1].fPlayer)
    <3> HIDE DEF k, n
    <3>1. QED
      BY <2>2, ToldRecalculate
  <2> HIDE DEF c
  <2>4. c \in States
    BY <2>3 DEF PointsTo
  <2>5. /\ d.ms = [c.ms EXCEPT !.dice = FALSE]
        /\ d = [c EXCEPT !.ms = [c.ms EXCEPT !.dice = FALSE]]
    BY <2>4 DEF States
  <2>6. CommandPreviousRoll(s) = e
    <3> DEFINE y == [c.ms EXCEPT !.dice = FALSE]
    <3>1. [d EXCEPT !.ms = x] = [[c EXCEPT !.ms = y] EXCEPT !.ms = x]
      BY <2>5
    <3>2. FixForNext(d.ms, s.lMatch[k].recs, n) = x
      BY <2>5
    <3> HIDE DEF x, y, d
    <3>3. [[c EXCEPT !.ms = y] EXCEPT !.ms = x] = e
      BY <2>4 DEF States
    <3>4. QED
      BY <2>1, <3>1, <3>2, <3>3
  <2>7. /\ Sound(x) /\ At(x, s.lMatch[k], n)
        /\ x.gs = "playing" => x.fResigned = 0
    <3> HIDE DEF k, n, x
    <3>1. /\ PointsTo(c, k, n)
          /\ n > 0 => c.ms = After(c.lMatch[k], n).ms
          /\ n = 0 => \/ c.ms = ApplyGameInfo(c.lMatch[k].info)
                      \/ c.ms = Turned(c.lMatch[k].info,
                                       c.lMatch[k].recs[1].fPlayer)
      BY <2>3
    <3>2. LET z == FixForNext([c.ms EXCEPT !.dice = FALSE],
                              c.lMatch[k].recs, n)
          IN  /\ Sound(z) /\ At(z, c.lMatch[k], n)
              /\ z.gs = "playing" => z.fResigned = 0
      BY <3>1, DiceTakenBack
    <3>3. QED
      BY <2>3, <3>2 DEF x
  <2> HIDE DEF x
  <2>8. x \in MatchStates
    BY <2>7 DEF Sound
  <2>9. /\ e \in States /\ e.lMatch = c.lMatch /\ e.plGame = c.plGame
        /\ e.plLastMove = c.plLastMove /\ e.ms = x
        /\ e.aborted = c.aborted /\ e.fNextTurn = c.fNextTurn
    BY <2>4, <2>8 DEF States
  <2> HIDE DEF e
  <2>10. PointsTo(e, k, n)
    BY <2>3, <2>9 DEF PointsTo
  <2>11. Told(e) /\ Answered(e)
    BY <2>3, <2>7, <2>9, <2>10, ToldAt DEF Answered, Playing
  <2>12. QED
    BY <2>3, <2>6, <2>9, <2>11 DEF Visits
<1>4. QED
  BY <1>1, <1>2, <1>3

(* The commands that step and then show the roll. *)
LEMMA ToldRolled ==
    ASSUME NEW s, Told(s), s.fNextTurn = FALSE
    PROVE  /\ Answered(s) => Visits(s, CommandNextRolled(s))
           /\ Visits(s, CommandPreviousRolled(s))
<1>1. ASSUME NEW t, Visits(s, t), Answered(t) PROVE Visits(s, ShowRoll(t))
  <2>1. Visits(t, CommandNextRoll(t))
    BY <1>1, ToldNextRoll DEF Visits
  <2>2. QED
    BY <1>1, <2>1, VisitsOn DEF ShowRoll
<1>2. Answered(s) => Visits(s, CommandNextRolled(s))
  BY <1>1, ToldNext DEF CommandNextRolled, Visits
<1>3. Visits(s, CommandPreviousRolled(s))
  <2>1. CASE s.plGame = 0
    BY <2>1 DEF CommandPreviousRolled, Visits
  <2>2. CASE s.plGame # 0
    BY <1>1, <2>2, ToldPrevious DEF CommandPreviousRolled
  <2>3. QED
    BY <2>1, <2>2
<1>4. QED
  BY <1>2, <1>3

-----------------------------------------------------------------------------
(* The specification. *)

(* A careful user at the terminal, who gets to type when the turn is done
   (run_cl) and does not start a new game at the end of an earlier one. *)
CarefulReader == /\ CarefulUser /\ DoublesShown
                 /\ ~CommandsWhilePending /\ ~NewGameAnywhere

(* The initial state. *)
LEMMA HistoryInit == Init => HistoryInv
<1> SUFFICES ASSUME Init PROVE HistoryInv
  OBVIOUS
<1>1. cur \in States /\ Sound(cur.ms)
  BY InitInv DEF MatchInv, Good
<1>2. /\ cur.ms.gs = "none" /\ cur.lMatch = <<>> /\ cur.plGame = 0
      /\ cur.aborted = "no" /\ cur.fNextTurn = FALSE /\ prompt = "none"
  BY DEF Init, cur, InitialMatchState
<1>3. QED
  BY <1>1, <1>2
     DEF HistoryInv, Steady, Told, Chained, Games, InPlace

(* A command installs the state it leaves. *)
LEMMA HistoryInstalled ==
    ASSUME NEW t, Steady(t), Install(t)
    PROVE  HistoryInv' /\ lMatch' = t.lMatch
<1> DEFINE u == [t EXCEPT !.prompt = "none"]
<1>1. t \in States
  BY DEF Steady, Told
<1>2. Like(t, u) /\ u.fNextTurn = t.fNextTurn
  BY <1>1 DEF States, Like
<1>3. cur' = u
  BY <1>1 DEF Install, cur, States
<1>4. prompt' \in {"none", "yes", "no"} /\ lMatch' = t.lMatch
  BY <1>1 DEF Install, States
<1>5. Steady(cur)' <=> Steady(cur')
  BY DEF Steady, Told, Live, InPlace, AtEnd, Playing
<1> HIDE DEF u
<1>6. Steady(u)
  BY <1>2, ToldLike DEF Steady
<1>7. QED
  BY <1>3, <1>4, <1>5, <1>6 DEF HistoryInv

(* The commands of play. *)
LEMMA PlaySteps ==
    ASSUME CarefulReader, HistoryInv, PlayCommand
    PROVE  \E t : Install(t) /\ Steady(t)
<1>1. /\ Told(cur) /\ cur.ms = ms /\ cur.fNextTurn = fNextTurn /\ CarefulUser
  BY DEF HistoryInv, Steady, cur, CarefulReader
<1>2. Resolved => cur.ms.fResigned = 0
  BY <1>1 DEF Resolved, CarefulUser
<1>3. ASSUME NEW t, Install(t), Continues(cur, t)
      PROVE  \E u : Install(u) /\ Steady(u)
  <2>1. t # cur
    BY <1>3 DEF Install
  <2>2. Live(t)
    BY <1>3, <2>1 DEF Continues
  <2>3. Steady(t)
    BY <2>2 DEF Steady, Live
  <2>4. QED
    BY <1>3, <2>3
<1>4. CASE DoAgree
  <2>1. PICK ans \in BOOLEAN : Install(CommandAgree(cur, FALSE, ans))
    BY <1>4 DEF DoAgree
  <2>2. Continues(cur, CommandAgree(cur, FALSE, ans))
    BY <1>1, ToldAgree
  <2>3. QED
    BY <1>3, <2>1, <2>2
<1>5. CASE DoDecline
  <2>1. Continues(cur, CommandDecline(cur, FALSE))
    BY <1>1, ToldDecline
  <2>2. QED
    BY <1>3, <1>5, <2>1 DEF DoDecline
<1>6. CASE DoResign
  <2>1. PICK v \in ResignArgs : Install(CommandResign(cur, FALSE, v))
    BY <1>6 DEF DoResign
  <2>2. v \in -1..3 /\ cur.ms.fResigned = 0
    BY <1>2, <1>6, SettingsAssumption DEF DoResign
  <2>3. ASSUME v = -1, Playing(cur), MayAct(cur, FALSE)
        PROVE  PlayerType[Other(cur.ms.fTurn)] = "gnu"
    <3>1. PICK p \in Player : PlayerType[p] = "gnu"
      BY <1>1, <2>1, <2>3 DEF CarefulUser
    <3>2. cur.ms.fTurn \in Player /\ PlayerType[cur.ms.fTurn] = "human"
      BY <1>1, <2>3, InHand DEF MayAct
    <3>3. p = Other(cur.ms.fTurn)
      BY <3>1, <3>2 DEF Player, Other
    <3>4. QED
      BY <3>1, <3>3
  <2>4. Continues(cur, CommandResign(cur, FALSE, v))
    BY <1>1, <2>2, <2>3, ToldResign
  <2>5. QED
    BY <1>3, <2>1, <2>4
<1>7. CASE DoDouble
  <2>1. PICK ans \in BOOLEAN : Install(CommandDouble(cur, FALSE, ans))
    BY <1>7 DEF DoDouble
  <2>2. QED
    BY <1>1, <1>2, <1>3, <1>7, <2>1, ToldDouble DEF DoDouble
<1>8. CASE DoRedouble
  <2>1. PICK ans \in BOOLEAN : Install(CommandRedouble(cur, FALSE, ans))
    BY <1>8 DEF DoRedouble
  <2>2. QED
    BY <1>1, <1>2, <1>3, <1>8, <2>1, ToldRedouble DEF DoRedouble
<1>9. CASE DoTake
  <2>1. PICK ans \in BOOLEAN : Install(CommandTake(cur, FALSE, ans))
    BY <1>9 DEF DoTake
  <2>2. QED
    BY <1>1, <1>2, <1>3, <1>9, <2>1, ToldTakeDrop DEF DoTake
<1>10. CASE DoDrop
  <2>1. PICK ans \in BOOLEAN : Install(CommandDrop(cur, FALSE, ans))
    BY <1>10 DEF DoDrop
  <2>2. QED
    BY <1>1, <1>2, <1>3, <1>10, <2>1, ToldTakeDrop DEF DoDrop
<1>11. CASE DoAccept
  <2>1. PICK ans \in BOOLEAN : Install(CommandAccept(cur, ans))
    BY <1>11 DEF DoAccept
  <2>2. Continues(cur, CommandAccept(cur, ans))
    BY <1>1, ToldAgree, ToldTakeDrop, ContinuesSelf DEF CommandAccept
  <2>3. QED
    BY <1>3, <2>1, <2>2
<1>12. CASE DoReject
  <2>1. PICK ans \in BOOLEAN : Install(CommandReject(cur, ans))
    BY <1>12 DEF DoReject
  <2>2. Continues(cur, CommandReject(cur, ans))
    BY <1>1, ToldDecline, ToldTakeDrop, ContinuesSelf DEF CommandReject
  <2>3. QED
    BY <1>3, <2>1, <2>2
<1>13. CASE DoRoll
  <2>1. PICK ans \in BOOLEAN, o \in RollOutcomes(cur.ms) :
            Install(CommandRoll(cur, ans, o))
    BY <1>1, <1>13 DEF DoRoll
  <2>2. QED
    BY <1>1, <1>3, <2>1, ToldRoll
<1>14. CASE DoMove
  <2>1. PICK ans \in BOOLEAN, n \in PlayResults(cur.ms) :
            Install(CommandMove(cur, ans, n))
    BY <1>1, <1>14 DEF DoMove
  <2>2. QED
    BY <1>1, <1>3, <2>1, ToldMove
<1>15. CASE DoPlay
  <2>1. PICK ans \in BOOLEAN : \E t \in CommandPlay(cur, ans) : Install(t)
    BY <1>15 DEF DoPlay
  <2>2. QED
    BY <1>1, <1>3, <2>1, ToldCommandPlay
<1>16. QED
  BY <1>4, <1>5, <1>6, <1>7, <1>8, <1>9, <1>10, <1>11, <1>12, <1>13,
     <1>14, <1>15 DEF PlayCommand

(* The commands of navigation. *)
LEMMA NavigateSteps ==
    ASSUME CarefulReader, HistoryInv, Navigate
    PROVE  \E t : Install(t) /\ Visits(cur, t)
<1>1. Told(cur) /\ cur.fNextTurn = fNextTurn /\ fNextTurn \in BOOLEAN
  BY DEF HistoryInv, Steady, Told, States, cur
<1>2. CommandAllowed => cur.fNextTurn = FALSE
  BY <1>1 DEF CommandAllowed, CarefulReader
<1>3. Resolved => Answered(cur)
  BY DEF Resolved, CarefulReader, CarefulUser, Answered, cur
<1>4. CASE DoNext
  BY <1>1, <1>2, <1>3, <1>4, ToldNext DEF DoNext
<1>5. CASE DoPrevious
  BY <1>1, <1>2, <1>5, ToldPrevious DEF DoPrevious
<1>6. CASE DoNextGame
  BY <1>1, <1>2, <1>6, ToldOtherGame DEF DoNextGame
<1>7. CASE DoPreviousGame
  BY <1>1, <1>2, <1>7, ToldOtherGame DEF DoPreviousGame
<1>8. CASE DoFirstGame
  BY <1>1, <1>2, <1>8, ToldOtherGame DEF DoFirstGame
<1>9. CASE DoFirstMove
  BY <1>1, <1>2, <1>9, ToldOtherGame DEF DoFirstMove
<1>10. CASE DoNextRoll
  BY <1>1, <1>2, <1>3, <1>10, ToldNextRoll DEF DoNextRoll
<1>11. CASE DoPreviousRoll
  BY <1>1, <1>2, <1>11, ToldPreviousRoll DEF DoPreviousRoll
<1>12. CASE DoNextRolled
  BY <1>1, <1>2, <1>3, <1>12, ToldRolled DEF DoNextRolled
<1>13. CASE DoPreviousRolled
  BY <1>1, <1>2, <1>13, ToldRolled DEF DoPreviousRolled
<1>14. QED
  BY <1>4, <1>5, <1>6, <1>7, <1>8, <1>9, <1>10, <1>11, <1>12, <1>13
     DEF Navigate

(* Every step keeps the invariant. *)
LEMMA HistoryStep ==
    ASSUME CarefulReader, HistoryInv, [HNext]_vars
    PROVE  HistoryInv'
<1>1. /\ Told(cur) /\ Steady(cur) /\ cur.fNextTurn = fNextTurn
      /\ cur.lMatch = lMatch /\ cur.plGame = plGame
      /\ fNextTurn \in BOOLEAN /\ DoublesShown
  BY DEF HistoryInv, Steady, Told, States, cur, CarefulReader
<1>2. CommandAllowed => cur.fNextTurn = FALSE
  BY <1>1 DEF CommandAllowed, CarefulReader
<1>3. CASE UNCHANGED vars
  <2>1. cur' = cur /\ prompt' = prompt
    BY <1>3 DEF vars, cur
  <2>2. Steady(cur)' <=> Steady(cur')
    BY DEF Steady, Told, Live, InPlace, AtEnd, Playing
  <2>3. QED
    BY <2>1, <2>2 DEF HistoryInv
<1>4. CASE PlayCommand
  BY <1>4, PlaySteps, HistoryInstalled
<1>5. CASE DoNewGameHere
  <2>1. PICK ans \in BOOLEAN :
            \E t \in CommandNewGame(cur, ans) : Install(t)
    BY <1>5 DEF DoNewGameHere, DoNewGame
  <2>2. PICK t \in CommandNewGame(cur, ans) : Install(t)
    BY <2>1
  <2>3. /\ cur.plGame = Len(cur.lMatch) \/ ~move_is_last_in_match(cur)
        /\ cur.fNextTurn = FALSE
    BY <1>1, <1>2, <1>5 DEF DoNewGameHere, DoNewGame, CarefulReader
  <2>4. Steady(t)
    BY <1>1, <2>3, ToldCommandNewGame
  <2>5. QED
    BY <2>2, <2>4, HistoryInstalled
<1>6. CASE DoNewMatch
  <2>1. PICK ans \in BOOLEAN, n \in Lengths :
            \E t \in CommandNewMatch(cur, n, ans) : Install(t)
    BY <1>6 DEF DoNewMatch
  <2>2. PICK t \in CommandNewMatch(cur, n, ans) : Install(t)
    BY <2>1
  <2>3. n \in Nat /\ cur.fNextTurn = FALSE
    BY <1>2, <1>6, SettingsAssumption DEF DoNewMatch
  <2>4. Steady(t)
    BY <1>1, <2>3, ToldCommandNewMatch
  <2>5. QED
    BY <2>2, <2>4, HistoryInstalled
<1>7. CASE DoNextTurn
  <2>1. PICK ans \in BOOLEAN : \E t \in NextTurn(cur, ans) : Install(t)
    BY <1>7 DEF DoNextTurn
  <2>2. PICK t \in NextTurn(cur, ans) : Install(t)
    BY <2>1
  <2>3. cur.fNextTurn
    BY <1>1, <1>7 DEF DoNextTurn
  <2>4. Steady(t)
    BY <1>1, <2>3, ToldNextTurn
  <2>5. QED
    BY <2>2, <2>4, HistoryInstalled
<1>8. CASE Navigate
  <2>1. PICK t : Install(t) /\ Visits(cur, t)
    BY <1>8, NavigateSteps
  <2>2. Steady(t)
    BY <2>1 DEF Visits, Steady
  <2>3. QED
    BY <2>1, <2>2, HistoryInstalled
<1>9. QED
  BY <1>3, <1>4, <1>5, <1>6, <1>7, <1>8 DEF HNext

(* HistoryInv is an invariant of play and navigation. *)
THEOREM HistoryInvariant ==
    ASSUME CarefulReader
    PROVE  HSpec => []HistoryInv
<1>1. Init => HistoryInv
  BY HistoryInit
<1>2. HistoryInv /\ [HNext]_vars => HistoryInv'
  BY HistoryStep
<1>3. QED
  BY <1>1, <1>2, PTL DEF HSpec

(* Whatever is played, undone, looked at and played again, in a match of any
   length: replaying the current game up to the current record gives the
   state of ms. *)
THEOREM ReplayGivesState ==
    ASSUME CarefulReader
    PROVE  HSpec => []ReplayAgrees
<1>1. ASSUME HistoryInv PROVE ReplayAgrees
  <2> DEFINE gm == lMatch[plGame]
             n == plLastMove
             c == CalculateBoard(gm, n)
             a == After(gm, n).ms
  <2>1. /\ Told(cur) /\ cur.ms = ms /\ cur.lMatch = lMatch
        /\ cur.plGame = plGame /\ cur.plLastMove = plLastMove
    BY <1>1 DEF HistoryInv, Steady, cur
  <2>2. SUFFICES ASSUME plGame # 0, plLastMove > 0
                 PROVE  /\ Recorded(c.ms) = Recorded(ms)
                        /\ Playing(cur) =>
                              /\ InPlay(c.ms) = InPlay(ms)
                              /\ ms.fResigned = 0 => c.ms.fTurn = ms.fTurn
                        /\ Ended(ms) => c.info = gm.info
    BY DEF ReplayAgrees
  <2>3. /\ Plays(gm) /\ n \in 0..Len(gm.recs) /\ At(ms, gm, n) /\ n # 0
    BY <2>1, <2>2, AGame
  <2>4. Sound(ms) /\ (Playing(cur) <=> ms.gs = "playing")
    BY <2>1 DEF Told, Playing
  <2> HIDE DEF gm, n
  <2>5. c.ms = a /\ c.info = gm.info
    BY <2>2, <2>3, Recalculated DEF n
  <2>6. Sound(a) /\ (a.gs = "playing" => a.fResigned = 0)
    BY <2>2, <2>3, Part DEF n
  <2>7. Same(ms, a)
    BY <2>3 DEF At
  <2> HIDE DEF a, c
  <2>8. Recorded(a) = Recorded(ms)
    BY <2>7 DEF Recorded, Same
  <2>9. ms.gs = "playing" => InPlay(a) = InPlay(ms)
    BY <2>7 DEF InPlay, Same
  <2>10. ms.gs = "playing" /\ ms.fResigned = 0 => a.fTurn = ms.fTurn
    BY <2>4, <2>6, <2>7, SameTurn DEF Same
  <2>11. QED
    BY <2>4, <2>5, <2>8, <2>9, <2>10
<1>2. QED
  BY <1>1, HistoryInvariant, PTL

(* Navigation changes no record: in particular a replay finds the winner and
   the points that the GAMEINFO records already have. *)
THEOREM NavigationReadsOnly ==
    ASSUME CarefulReader
    PROVE  HSpec => NavigationKeepsRecords
<1>1. ASSUME HistoryInv, Navigate PROVE UNCHANGED lMatch
  <2>1. PICK t : Install(t) /\ Visits(cur, t)
    BY <1>1, NavigateSteps
  <2>2. QED
    BY <2>1 DEF Install, Visits, cur
<1>2. HistoryInv /\ [HNext]_vars => [Navigate => UNCHANGED lMatch]_vars
  BY <1>1
<1>3. QED
  BY <1>2, HistoryInvariant, PTL DEF HSpec, NavigationKeepsRecords

(* Navigation keeps what play guarantees: the board shows the player on
   roll, each game starts from the score of the one before it, and no
   assertion fails. *)
THEOREM HistoryIsSafe ==
    ASSUME CarefulReader
    PROVE  HSpec => [](BoardShowsMover /\ ScoreChain /\ NoAssertionFails)
<1>1. ASSUME HistoryInv PROVE BoardShowsMover /\ ScoreChain /\ NoAssertionFails
  <2>1. Sound(ms) /\ Chained(lMatch) /\ aborted = "no"
    BY <1>1 DEF HistoryInv, Steady, Told, cur
  <2>2. QED
    BY <2>1 DEF Sound, InGame, BoardShowsMover, Chained, Follows, ScoreChain,
                NoAssertionFails
<1>2. QED
  BY <1>1, HistoryInvariant, PTL

-----------------------------------------------------------------------------
(* What becomes of the records.  A record is lost only where the user has
   agreed to it; a roll gives way to the play of it. *)

(* Facts about prefixes. *)
LEMMA PrefixFacts ==
    ASSUME NEW S, NEW x \in Seq(S), NEW e \in S
    PROVE  /\ IsPrefix(x, x) /\ IsPrefix(x, Append(x, e))
           /\ x # <<>> => Front(x) \in Seq(S) /\ IsPrefix(Front(x), x)
           /\ Front(Append(x, e)) = x /\ Last(Append(x, e)) = e
           /\ Append(x, e) # <<>> /\ Append(x, e) \in Seq(S)
           /\ \A y \in Seq(S), z \in Seq(S) :
                 IsPrefix(x, y) /\ IsPrefix(y, z) => IsPrefix(x, z)
<1>1. Append(x, e) \in Seq(S) /\ Len(Append(x, e)) = Len(x) + 1
  OBVIOUS
<1>2. SubSeq(Append(x, e), 1, Len(x)) = x
  OBVIOUS
<1>3. IsPrefix(x, x) /\ IsPrefix(x, Append(x, e))
  BY <1>1, <1>2 DEF IsPrefix
<1>4. ASSUME x # <<>> PROVE Front(x) \in Seq(S) /\ IsPrefix(Front(x), x)
  <2> DEFINE n == Len(x) - 1
             y == SubSeq(x, 1, n)
  <2>1. Len(x) \in Nat /\ n \in Nat /\ n <= Len(x) /\ Len(x) = n + 1
    BY <1>4
  <2> HIDE DEF n
  <2>2. y \in Seq(S) /\ Len(y) = n
    BY <2>1
  <2>3. \A i \in 1..n : y[i] = x[i]
    BY <2>1
  <2> HIDE DEF y
  <2>4. SubSeq(y, 1, n) = SubSeq(x, 1, n)
    BY <2>1, <2>2, <2>3
  <2>5. Front(x) = y
    BY DEF Front, n, y
  <2>6. QED
    BY <2>1, <2>2, <2>4, <2>5 DEF IsPrefix
<1>5. Front(Append(x, e)) = x /\ Last(Append(x, e)) = e
  BY <1>1, <1>2 DEF Front, Last
<1>6. Append(x, e) # <<>>
  <2>1. Len(Append(x, e)) # Len(<<>>)
    BY <1>1
  <2>2. QED
    BY <2>1
<1>7. ASSUME NEW y \in Seq(S), NEW z \in Seq(S), IsPrefix(x, y), IsPrefix(y, z)
      PROVE  IsPrefix(x, z)
  <2>1. Len(x) \in Nat /\ Len(y) \in Nat /\ Len(z) \in Nat
    OBVIOUS
  <2>2. Len(x) <= Len(y) /\ Len(y) <= Len(z)
    BY <1>7 DEF IsPrefix
  <2>3. SubSeq(x, 1, Len(x)) = SubSeq(y, 1, Len(x))
    BY <1>7 DEF IsPrefix
  <2>4. SubSeq(y, 1, Len(x)) = SubSeq(z, 1, Len(x))
    <3>1. \A i \in 1..Len(x) : i \in 1..Len(y)
      BY <2>1, <2>2
    <3>2. \A i \in 1..Len(y) : y[i] = SubSeq(y, 1, Len(y))[i]
      BY <2>1
    <3>3. \A i \in 1..Len(y) : z[i] = SubSeq(z, 1, Len(y))[i]
      BY <2>1, <2>2
    <3>4. SubSeq(y, 1, Len(y)) = SubSeq(z, 1, Len(y))
      BY <1>7 DEF IsPrefix
    <3>5. \A i \in 1..Len(x) : y[i] = z[i]
      BY <3>1, <3>2, <3>3, <3>4
    <3>6. QED
      BY <2>1, <2>2, <3>5
  <2>5. QED
    BY <2>1, <2>2, <2>3, <2>4 DEF IsPrefix
<1>8. QED
  BY <1>1, <1>3, <1>4, <1>5, <1>6, <1>7

(* The games are still there, each with the records it had: a roll at the end
   apart. *)
Grows(l, n) ==
    /\ Len(n) = Len(l)
    /\ \A k \in 1..Len(l) :
          /\ IsPrefix(Undecided(l[k].recs), n[k].recs)
          /\ IsPrefix(Undecided(l[k].recs), Undecided(n[k].recs))

(* Some record is lost (Discards, as a relation). *)
Loses(l, n) ==
    \E k \in DOMAIN l : \/ k > Len(n)
                        \/ ~IsPrefix(Undecided(l[k].recs), n[k].recs)

(* The records that play makes. *)
PlayMoves == {"normal", "double", "take", "drop", "resign", "setdice"}

(* A game whose last record may be a roll gets another record. *)
LEMMA UndecidedGrows ==
    ASSUME NEW S, NEW x \in Seq(S), NEW r \in S, r.mt \in PlayMoves,
           NEW b, b = IF x # <<>> /\ Elides(r, Last(x)) THEN Front(x) ELSE x
    PROVE  /\ Undecided(x) \in Seq(S) /\ b \in Seq(S)
           /\ IsPrefix(Undecided(x), Append(b, r))
           /\ IsPrefix(Undecided(x), Undecided(Append(b, r)))
           /\ IsPrefix(Undecided(x), Undecided(x))
           /\ IsPrefix(Undecided(x), x)
<1>1. /\ Undecided(x) \in Seq(S) /\ IsPrefix(Undecided(x), x)
      /\ IsPrefix(Undecided(x), Undecided(x))
  BY PrefixFacts DEF Undecided
<1>2. b \in Seq(S) /\ IsPrefix(Undecided(x), b)
  <2>1. CASE x # <<>> /\ Elides(r, Last(x))
    <3>1. Last(x).mt = "setdice"
      BY <2>1 DEF Elides, PlayMoves
    <3>2. b = Front(x) /\ b = Undecided(x)
      BY <2>1, <3>1 DEF Undecided
    <3>3. QED
      BY <1>1, <3>2
  <2>2. CASE ~(x # <<>> /\ Elides(r, Last(x)))
    BY <1>1, <2>2
  <2>3. QED
    BY <2>1, <2>2
<1>3. /\ IsPrefix(b, Append(b, r)) /\ IsPrefix(b, b)
      /\ Front(Append(b, r)) = b /\ Append(b, r) \in Seq(S)
  <2>1. ASSUME NEW y \in Seq(S)
        PROVE  /\ IsPrefix(y, Append(y, r)) /\ IsPrefix(y, y)
               /\ Front(Append(y, r)) = y /\ Append(y, r) \in Seq(S)
    BY PrefixFacts
  <2>2. QED
    BY <1>2, <2>1
<1>4. Undecided(Append(b, r)) \in {b, Append(b, r)}
  BY <1>3 DEF Undecided
<1>5. \A z \in Seq(S) : IsPrefix(b, z) => IsPrefix(Undecided(x), z)
  BY <1>1, <1>2, PrefixFacts
<1>6. QED
  BY <1>1, <1>2, <1>3, <1>4, <1>5

(* Nothing is lost of a list that grows. *)
LEMMA GrowsKeeps ==
    ASSUME NEW S, NEW l \in Seq(S), NEW n, Grows(l, n)
    PROVE  ~Loses(l, n)
<1>1. DOMAIN l = 1..Len(l) /\ Len(l) \in Nat
  OBVIOUS
<1>2. QED
  BY <1>1 DEF Grows, Loses

-----------------------------------------------------------------------------
(* Every game but the last has been played to its end, so that the end of an
   earlier game is not a game in progress; and the program plays by itself
   only if no player is human. *)
Over(gm) == After(gm, Len(gm.recs)).ms.gs # "playing"
Concluded(l) == \A k \in 1..(Len(l) - 1) : Over(l[k])

StateFields == {"ms", "lMatch", "plGame", "plLastMove", "fNextTurn",
                "automaticTask", "aborted", "prompt"}

NoHuman == \A p \in Player : PlayerType[p] = "gnu"

(* This holds of s, in which the answer to a question is in P. *)
Neat(s, P) ==
    /\ DOMAIN s = StateFields /\ (\E S : s.lMatch \in Seq(S))
    /\ s.plGame \in 0..Len(s.lMatch)
    /\ Concluded(s.lMatch)
    /\ s.automaticTask => NoHuman
    /\ s.prompt \in P

Reply(ans) == IF ans THEN "yes" ELSE "no"

(* States that differ in nothing Neat reads. *)
LEMMA NeatLike ==
    ASSUME NEW s, NEW P, Neat(s, P), NEW t, DOMAIN t = StateFields,
           t.lMatch = s.lMatch, t.plGame = s.plGame,
           t.automaticTask = s.automaticTask, t.prompt \in P
    PROVE  Neat(t, P)
BY DEF Neat

(* The parts of the program state that a command changes by themselves. *)
LEMMA NeatPart ==
    ASSUME NEW s, NEW P, Neat(s, P), NEW x
    PROVE  /\ Neat([s EXCEPT !.ms = x], P)
           /\ Neat([s EXCEPT !.aborted = x], P)
           /\ Neat([s EXCEPT !.fNextTurn = x], P)
           /\ Neat(TurnDone(s), P)
<1>1. DOMAIN s = StateFields /\ s.prompt \in P
  BY DEF Neat
<1>2. Neat([s EXCEPT !.ms = x], P)
  <2> DEFINE t == [s EXCEPT !.ms = x]
  <2>1. /\ DOMAIN t = StateFields /\ t.lMatch = s.lMatch
        /\ t.plGame = s.plGame /\ t.automaticTask = s.automaticTask
        /\ t.prompt = s.prompt
    BY <1>1 DEF StateFields
  <2> HIDE DEF t
  <2>2. Neat(t, P)
    BY <1>1, <2>1, NeatLike
  <2>3. QED
    BY <2>2 DEF t
<1>3. Neat([s EXCEPT !.aborted = x], P)
  <2> DEFINE t == [s EXCEPT !.aborted = x]
  <2>1. /\ DOMAIN t = StateFields /\ t.lMatch = s.lMatch
        /\ t.plGame = s.plGame /\ t.automaticTask = s.automaticTask
        /\ t.prompt = s.prompt
    BY <1>1 DEF StateFields
  <2> HIDE DEF t
  <2>2. Neat(t, P)
    BY <1>1, <2>1, NeatLike
  <2>3. QED
    BY <2>2 DEF t
<1>4. ASSUME NEW y PROVE Neat([s EXCEPT !.fNextTurn = y], P)
  <2> DEFINE t == [s EXCEPT !.fNextTurn = y]
  <2>1. /\ DOMAIN t = StateFields /\ t.lMatch = s.lMatch
        /\ t.plGame = s.plGame /\ t.automaticTask = s.automaticTask
        /\ t.prompt = s.prompt
    BY <1>1 DEF StateFields
  <2> HIDE DEF t
  <2>2. Neat(t, P)
    BY <1>1, <2>1, NeatLike
  <2>3. QED
    BY <2>2 DEF t
<1>5. Neat(TurnDone(s), P)
  BY <1>4 DEF TurnDone
<1>6. QED
  BY <1>2, <1>3, <1>4, <1>5

(* The question. *)
LEMMA NeatAsked ==
    ASSUME NEW s, NEW P, Neat(s, P), NEW ans, NEW Q,
           s.prompt \in Q, Reply(ans) \in Q
    PROVE  Neat(Answer(s, ans), Q) /\ Neat(move_not_last_in_match_ok(s, ans), Q)
<1> DEFINE t == Answer(s, ans)
<1>1. Neat(s, Q)
  BY DEF Neat
<1>2. /\ DOMAIN t = StateFields /\ t.lMatch = s.lMatch
      /\ t.plGame = s.plGame /\ t.automaticTask = s.automaticTask
      /\ t.prompt = Reply(ans)
  BY DEF Neat, StateFields, Answer, Reply
<1> HIDE DEF t
<1>3. Neat(t, Q)
  BY <1>1, <1>2, NeatLike
<1>4. QED
  BY <1>1, <1>3 DEF t, move_not_last_in_match_ok

(* The list of games that a record ends. *)
LEMMA NeatList ==
    ASSUME NEW S, NEW l \in Seq(S), NEW k \in 0..Len(l), NEW x, Concluded(l)
    PROVE  LET n == Append(SubSeq(l, 1, k - 1), x)
           IN  /\ n \in Seq(S \cup {x}) /\ k \in 0..Len(n) /\ Concluded(n)
               /\ k # 0 => Len(n) = k /\ n[k] = x
                           /\ \A j \in 1..(k - 1) : n[j] = l[j]
<1> DEFINE b == SubSeq(l, 1, k - 1)
           n == Append(b, x)
<1>1. Len(l) \in Nat /\ k \in Nat /\ k <= Len(l)
  OBVIOUS
<1>2. CASE k = 0
  <2>1. b = <<>>
    BY <1>2
  <2> HIDE DEF b
  <2>2. n = Append(<<>>, x)
    BY <2>1
  <2> HIDE DEF n
  <2>3. n \in Seq(S \cup {x}) /\ Len(n) = 1
    <3>1. <<>> \in Seq(S \cup {x}) /\ x \in S \cup {x} /\ Len(<<>>) = 0
      OBVIOUS
    <3>2. QED
      BY <2>2, <3>1
  <2>4. QED
    BY <1>2, <2>3 DEF Concluded, n, b
<1>3. CASE k # 0
  <2>1. b \in Seq(S) /\ Len(b) = k - 1 /\ \A j \in 1..(k - 1) : b[j] = l[j]
    BY <1>1, <1>3
  <2> HIDE DEF b
  <2>2. b \in Seq(S \cup {x})
    BY <2>1
  <2>3. n \in Seq(S \cup {x}) /\ Len(n) = k /\ n[k] = x
    BY <1>1, <1>3, <2>1, <2>2
  <2>4. \A j \in 1..(k - 1) : n[j] = l[j]
    BY <1>1, <1>3, <2>1
  <2> HIDE DEF n
  <2>5. Concluded(n)
    BY <1>1, <1>3, <2>3, <2>4 DEF Concluded
  <2>6. QED
    BY <1>1, <1>3, <2>3, <2>4, <2>5 DEF n, b
<1>4. QED
  BY <1>2, <1>3

(* AddMoveRecord. *)
LEMMA NeatAdd ==
    ASSUME NEW s, NEW P, Neat(s, P), NEW r
    PROVE  Neat(AddMoveRecord(s, r), P)
<1> DEFINE gm == s.lMatch[s.plGame]
           kept == SubSeq(gm.recs, 1, s.plLastMove)
           base == IF kept # <<>> /\ Elides(r, Last(kept))
                   THEN Front(kept) ELSE kept
           u == ApplyMoveRecord(FixMatchState(s.ms, r), gm.info, r)
           recs == Append(base, r)
           x == [info |-> u.info, recs |-> recs]
           l == Append(SubSeq(s.lMatch, 1, s.plGame - 1), x)
           m == u.ms
           c == Len(recs)
           t == [s EXCEPT !.ms = m, !.plLastMove = c, !.lMatch = l]
<1>1. AddMoveRecord(s, r)
        = IF add_moverecord_sanity_check(r) # "no"
          THEN [s EXCEPT !.aborted = add_moverecord_sanity_check(r)] ELSE t
  BY DEF AddMoveRecord
<1>2. PICK S : s.lMatch \in Seq(S)
  BY DEF Neat
<1>3. /\ l \in Seq(S \cup {x}) /\ s.plGame \in 0..Len(l) /\ Concluded(l)
  <2> HIDE DEF x
  <2>1. s.plGame \in 0..Len(s.lMatch) /\ Concluded(s.lMatch)
    BY DEF Neat
  <2>2. QED
    BY <1>2, <2>1, NeatList
<1> HIDE DEF m, c, l, x
<1>4. /\ DOMAIN t = StateFields /\ t.lMatch = l
      /\ t.plGame = s.plGame /\ t.automaticTask = s.automaticTask
      /\ t.prompt = s.prompt
  BY DEF Neat, StateFields
<1> HIDE DEF t
<1>5. Neat(t, P)
  BY <1>3, <1>4 DEF Neat
<1>6. \A y : Neat([s EXCEPT !.aborted = y], P)
  BY NeatPart
<1>7. QED
  BY <1>1, <1>5, <1>6

(* Every command of play keeps the list in order. *)
LEMMA NeatCommand ==
    ASSUME NEW s, NEW P, Neat(s, P), NEW c, NEW ans, Reply(ans) \in P, NEW v
    PROVE  /\ Neat(CommandAgree(s, c, ans), P) /\ Neat(CommandDecline(s, c), P)
           /\ Neat(CommandResign(s, c, v), P)
           /\ Neat(CommandRedouble(s, c, ans), P)
           /\ Neat(CommandDouble(s, c, ans), P)
           /\ Neat(CommandTake(s, c, ans), P) /\ Neat(CommandDrop(s, c, ans), P)
           /\ Neat(CommandMove(s, ans, v), P) /\ Neat(CommandRoll(s, ans, v), P)
<1> DEFINE Asked(t) == move_not_last_in_match_ok(t, ans)
<1>1. ASSUME NEW t, Neat(t, P)
      PROVE  /\ Neat(TurnDone(t), P) /\ Neat(Asked(t), P)
             /\ \A x : Neat([t EXCEPT !.ms = x], P)
             /\ \A r : Neat(AddMoveRecord(t, r), P)
  <2>1. t.prompt \in P
    BY <1>1 DEF Neat
  <2>2. Neat(Asked(t), P)
    BY <1>1, <2>1, NeatAsked
  <2>3. QED
    BY <1>1, <2>2, NeatPart, NeatAdd
<1> HIDE DEF Asked
<1>2. Neat(CommandAgree(s, c, ans), P)
  BY <1>1 DEF CommandAgree, Asked
<1>3. Neat(CommandDecline(s, c), P)
  <2> DEFINE m == [s.ms EXCEPT !.fResignationDeclined = s.ms.fResigned,
                               !.fResigned = 0, !.fTurn = Other(s.ms.fTurn)]
  <2>1. \/ CommandDecline(s, c) = s
        \/ CommandDecline(s, c) = TurnDone([s EXCEPT !.ms = m])
    BY DEF CommandDecline
  <2> HIDE DEF m
  <2>2. QED
    BY <1>1, <2>1
<1>4. Neat(CommandResign(s, c, v), P)
  <2> DEFINE m == [s.ms EXCEPT !.fResigned = 0]
             n == [s.ms EXCEPT !.fResigned = v, !.fTurn = Other(s.ms.fTurn)]
  <2>1. CommandResign(s, c, v) \in {s, [s EXCEPT !.ms = m],
                                    TurnDone([s EXCEPT !.ms = n])}
    BY DEF CommandResign
  <2> HIDE DEF m, n
  <2>2. QED
    BY <1>1, <2>1
<1>5. ASSUME NEW t, Neat(t, P) PROVE Neat(CommandRedouble(t, c, ans), P)
  <2> DEFINE q == Asked(t)
             m == [q.ms EXCEPT !.fCubeOwner = Other(t.ms.fMove)]
             r == Rec("double", t.ms.fTurn, 0)
  <2>1. CommandRedouble(t, c, ans)
          \in {t, q, TurnDone(AddMoveRecord([q EXCEPT !.ms = m], r))}
    BY DEF CommandRedouble, Asked
  <2>2. Neat(q, P)
    BY <1>1, <1>5
  <2> HIDE DEF m, q, r
  <2>3. QED
    BY <1>1, <1>5, <2>1, <2>2
<1>6. Neat(CommandDouble(s, c, ans), P)
  BY <1>1, <1>5 DEF CommandDouble, Asked
<1>7. Neat(CommandTake(s, c, ans), P) /\ Neat(CommandDrop(s, c, ans), P)
  BY <1>1 DEF CommandTake, CommandDrop, Asked
<1>8. Neat(CommandMove(s, ans, v), P)
  BY <1>1 DEF CommandMove, Asked
<1>9. Neat(CommandRoll(s, ans, v), P)
  BY <1>1 DEF CommandRoll, Asked
<1>10. QED
  BY <1>2, <1>3, <1>4, <1>5, <1>6, <1>7, <1>8, <1>9

(* So does the computer. *)
LEMMA NeatComputerTurn ==
    ASSUME NEW s, NEW P, Neat(s, P), NEW ans, Reply(ans) \in P,
           NEW t \in ComputerTurn(s, ans)
    PROVE  Neat(t, P) /\ Neat(TurnDone(t), P)
<1> DEFINE A(v) == [s EXCEPT !.ms = [s.ms EXCEPT !.fResigned = v]]
           D == [s EXCEPT !.ms = [s.ms EXCEPT !.dice = TRUE]]
<1>1. \A v : [s EXCEPT !.ms.fResigned = v] = A(v)
  OBVIOUS
<1>2. [s EXCEPT !.ms.dice = TRUE] = D
  OBVIOUS
<1>3. (\A v : Neat(A(v), P)) /\ Neat(D, P)
  BY NeatPart
<1> HIDE DEF A, D
<1>4. \A v : Neat(CommandAgree(A(v), TRUE, ans), P)
  BY <1>3, NeatCommand
<1>5. \A r : Neat(AddMoveRecord(s, r), P)
  BY NeatAdd
<1>6. ASSUME t \in AnswerResignation(s, ans) PROVE Neat(t, P)
  BY <1>1, <1>4, <1>6, NeatCommand DEF AnswerResignation
<1>7. ASSUME t \in AnswerDouble(s, ans) PROVE Neat(t, P)
  <2>1. t \in {CommandTake(s, TRUE, ans), CommandDrop(s, TRUE, ans),
               CommandRedouble(s, TRUE, ans)}
    BY <1>7 DEF AnswerDouble
  <2>2. QED
    BY <2>1, NeatCommand
<1>8. ASSUME t \in OfferResignation(s) \cup OfferDouble(s, ans)
      PROVE  Neat(t, P)
  BY <1>8, NeatCommand DEF OfferResignation, OfferDouble
<1>9. ASSUME t \in RollOrMove(s) PROVE Neat(t, P)
  BY <1>2, <1>3, <1>5, <1>9 DEF RollOrMove
<1>10. Neat(t, P)
  BY <1>6, <1>7, <1>8, <1>9 DEF ComputerTurn
<1>11. QED
  BY <1>10, NeatPart

(* Every game has been played to its end: another one may start. *)
AllOver(l) == \A k \in 1..Len(l) : Over(l[k])

(* StartAutomaticPlay. *)
LEMMA NeatAutomatic ==
    ASSUME NEW s, NEW P, Neat(s, P)
    PROVE  /\ Neat(StartAutomaticPlay(s), P)
           /\ StartAutomaticPlay(s).lMatch = s.lMatch
           /\ StartAutomaticPlay(s).ms = s.ms
<1> DEFINE t == [s EXCEPT !.automaticTask = TRUE]
<1>1. StartAutomaticPlay(s) = IF NoHuman THEN t ELSE s
  BY DEF StartAutomaticPlay, NoHuman
<1>2. /\ DOMAIN t = StateFields /\ t.lMatch = s.lMatch /\ t.ms = s.ms
      /\ t.plGame = s.plGame /\ t.prompt = s.prompt
  BY DEF Neat, StateFields
<1> HIDE DEF t
<1>3. NoHuman => Neat(t, P)
  BY <1>2 DEF Neat
<1>4. QED
  BY <1>1, <1>2, <1>3

(* NewGame. *)
LEMMA NeatNewGame ==
    ASSUME NEW s, NEW P, Neat(s, P), AllOver(s.lMatch), NEW n \in NewGames(s)
    PROVE  Neat(n, P)
<1>1. PICK w \in Player, a \in AutoDoubles(s.ms) : n = NewGame(s, w, a)
  BY DEF NewGames
<1> DEFINE g == NewGameInfo(s.ms)
           x == [info |-> [g EXCEPT !.nAutoDoubles = a], recs |-> <<>>]
           l == Append(s.lMatch, x)
           k == Len(s.lMatch) + 1
           m == [ApplyGameInfo(g) EXCEPT !.nCube =
                   IF Display THEN 2 ^ a ELSE ApplyGameInfo(g).nCube]
           t == [s EXCEPT !.lMatch = l, !.plGame = k, !.plLastMove = 0,
                          !.ms = m]
           bad == gameinfo_sanity_check(g)
<1>2. \/ n = [s EXCEPT !.aborted = bad]
      \/ n = AddMoveRecord(t, Rec("setdice", w, 0))
  BY <1>1 DEF NewGame
<1>3. PICK S : s.lMatch \in Seq(S)
  BY DEF Neat
<1> HIDE DEF m, bad, x
<1>4. /\ l \in Seq(S \cup {x}) /\ Len(l) = k /\ k \in Nat
      /\ \A j \in 1..(k - 1) : l[j] = s.lMatch[j]
  <2>1. s.lMatch \in Seq(S \cup {x})
    BY <1>3
  <2>2. QED
    BY <2>1
<1> HIDE DEF l
<1>5. Concluded(l) /\ k \in 0..Len(l)
  BY <1>3, <1>4 DEF AllOver, Concluded
<1> HIDE DEF k
<1>6. /\ DOMAIN t = StateFields /\ t.lMatch = l /\ t.plGame = k
      /\ t.automaticTask = s.automaticTask /\ t.prompt = s.prompt
  BY DEF Neat, StateFields
<1> HIDE DEF t
<1>7. Neat(t, P)
  BY <1>4, <1>5, <1>6 DEF Neat
<1>8. Neat(AddMoveRecord(t, Rec("setdice", w, 0)), P)
  BY <1>7, NeatAdd
<1>9. Neat([s EXCEPT !.aborted = bad], P)
  BY NeatPart
<1>10. QED
  BY <1>2, <1>8, <1>9

(* StartNewGame. *)
LEMMA NeatStartNewGame ==
    ASSUME NEW s, NEW P, Neat(s, P), AllOver(s.lMatch), NEW ans,
           Reply(ans) \in P, NEW t \in StartNewGame(s, ans)
    PROVE  Neat(t, P)
<1>1. PICK n \in NewGames(s) :
          t = n \/ \E u \in ComputerTurn(n, ans) : t = TurnDone(u)
  BY DEF StartNewGame
<1>2. Neat(n, P)
  BY NeatNewGame
<1>3. QED
  BY <1>1, <1>2, NeatComputerTurn

(* Discarding the current game leaves games that have been played. *)
LEMMA NeatPop ==
    ASSUME NEW s, NEW P, Neat(s, P)
    PROVE  Neat(PopGame(s), P) /\ AllOver(PopGame(s).lMatch)
<1> DEFINE k == s.plGame
           l == SubSeq(s.lMatch, 1, k - 1)
           t == PopGame(s)
<1>1. PICK S : s.lMatch \in Seq(S)
  BY DEF Neat
<1>2. k \in 0..Len(s.lMatch) /\ Len(s.lMatch) \in Nat /\ k \in Nat
  BY <1>1 DEF Neat
<1>3. l \in Seq(S) /\ \A j \in 1..Len(l) : l[j] = s.lMatch[j]
                                          /\ j \in 1..(Len(s.lMatch) - 1)
  <2>1. CASE k = 0
    <3>1. l = <<>>
      BY <1>1, <2>1
    <3> HIDE DEF l
    <3>2. QED
      BY <3>1
  <2>2. CASE k # 0
    <3>1. l \in Seq(S) /\ Len(l) = k - 1 /\ \A j \in 1..(k - 1) : l[j] = s.lMatch[j]
      BY <1>1, <1>2, <2>2
    <3> HIDE DEF l
    <3>2. QED
      BY <1>2, <3>1
  <2>3. QED
    BY <2>1, <2>2
<1>4. Len(l) \in Nat
  BY <1>3
<1> HIDE DEF l
<1>5. AllOver(l) /\ Concluded(l)
  <2>1. \A j \in 1..(Len(s.lMatch) - 1) : Over(s.lMatch[j])
    BY DEF Neat, Concluded
  <2>2. \A j \in 1..Len(l) : Over(l[j])
    BY <1>3, <2>1
  <2>3. \A j \in 1..(Len(l) - 1) : j \in 1..Len(l)
    BY <1>4
  <2>4. QED
    BY <2>2, <2>3 DEF AllOver, Concluded
<1>6. /\ DOMAIN t = StateFields /\ t.lMatch = l /\ t.plGame = 0
      /\ t.automaticTask = s.automaticTask /\ t.prompt = s.prompt
  BY DEF Neat, StateFields, PopGame, l
<1> HIDE DEF t
<1>7. Neat(t, P)
  BY <1>3, <1>4, <1>5, <1>6 DEF Neat
<1>8. QED
  BY <1>5, <1>6, <1>7 DEF t

(* CommandNewGame. *)
LEMMA NeatCommandNewGame ==
    ASSUME NEW s, NEW P, Neat(s, P), NEW ans, Reply(ans) \in P,
           ~Playing(s) /\ move_is_last_in_match(s) => AllOver(s.lMatch),
           NEW t \in CommandNewGame(s, ans)
    PROVE  Neat(t, P)
<1>1. ASSUME NEW q, Neat(q, P), AllOver(q.lMatch),
             t \in StartNewGame(StartAutomaticPlay(q), ans)
      PROVE  Neat(t, P)
  <2>1. /\ Neat(StartAutomaticPlay(q), P)
        /\ AllOver(StartAutomaticPlay(q).lMatch)
    BY <1>1, NeatAutomatic
  <2>2. QED
    BY <1>1, <2>1, NeatStartNewGame
<1>2. CASE MatchOver(s.ms)
  BY <1>2 DEF CommandNewGame
<1>3. CASE ~MatchOver(s.ms) /\ ~Playing(s) /\ move_is_last_in_match(s)
  BY <1>1, <1>3 DEF CommandNewGame
<1>4. CASE ~MatchOver(s.ms) /\ ~(~Playing(s) /\ move_is_last_in_match(s))
  <2> DEFINE q == IF ConfirmNew THEN Answer(s, ans) ELSE s
  <2>1. t = q \/ t \in StartNewGame(StartAutomaticPlay(PopGame(q)), ans)
    BY <1>4 DEF CommandNewGame
  <2>2. s.prompt \in P
    BY DEF Neat
  <2>3. Neat(q, P)
    BY <2>2, NeatAsked
  <2> HIDE DEF q
  <2>4. QED
    BY <1>1, <2>1, <2>3, NeatPop
<1>5. QED
  BY <1>2, <1>3, <1>4

(* ClearMatch, and the length of the new match. *)
LEMMA NeatClear ==
    ASSUME NEW s, NEW P, Neat(s, P), NEW n
    PROVE  LET t == [ClearMatch(s) EXCEPT !.ms.nMatchTo = n]
           IN  Neat(t, P) /\ t.lMatch = <<>>
<1> DEFINE m == [s.ms EXCEPT !.nMatchTo = 0, !.cGames = 0,
                             !.anScore = [p \in Player |-> 0],
                             !.fMove = NoOne, !.fTurn = NoOne,
                             !.fCrawford = FALSE, !.fPostCrawford = FALSE,
                             !.gs = "none"]
           c == [s EXCEPT !.lMatch = <<>>, !.plGame = 0, !.plLastMove = 0,
                          !.ms = m]
           x == [c.ms EXCEPT !.nMatchTo = n]
           t == [c EXCEPT !.ms = x]
<1>1. ClearMatch(s) = c
  BY DEF ClearMatch
<1> HIDE DEF m
<1>2. /\ DOMAIN c = StateFields /\ c.lMatch = <<>> /\ c.plGame = 0
      /\ c.automaticTask = s.automaticTask /\ c.prompt = s.prompt
  BY DEF Neat, StateFields
<1> HIDE DEF c
<1>3. [ClearMatch(s) EXCEPT !.ms.nMatchTo = n] = t
  BY <1>1
<1> HIDE DEF x
<1>4. /\ DOMAIN t = StateFields /\ t.lMatch = <<>> /\ t.plGame = 0
      /\ t.automaticTask = s.automaticTask /\ t.prompt = s.prompt
  BY <1>2 DEF StateFields
<1> HIDE DEF t
<1>5. <<>> \in Seq({}) /\ Len(<<>>) = 0 /\ Concluded(<<>>)
  BY DEF Concluded
<1>6. Neat(t, P)
  BY <1>4, <1>5 DEF Neat
<1>7. QED
  BY <1>3, <1>4, <1>6

(* CommandNewMatch. *)
LEMMA NeatCommandNewMatch ==
    ASSUME NEW s, NEW P, Neat(s, P), NEW ans, Reply(ans) \in P, NEW n,
           NEW t \in CommandNewMatch(s, n, ans)
    PROVE  Neat(t, P)
<1> DEFINE q == get_input_discard(s, ans)
           c == [ClearMatch(q) EXCEPT !.ms.nMatchTo = n]
<1>1. t = q \/ t \in CommandNewGame(c, ans)
  BY DEF CommandNewMatch
<1>2. s.prompt \in P
  BY DEF Neat
<1>3. Neat(q, P)
  BY <1>2, NeatAsked DEF get_input_discard
<1> HIDE DEF q
<1>4. Neat(c, P) /\ c.lMatch = <<>>
  BY <1>3, NeatClear
<1> HIDE DEF c
<1>5. AllOver(c.lMatch)
  BY <1>4 DEF AllOver
<1>6. QED
  BY <1>1, <1>3, <1>4, <1>5, NeatCommandNewGame

(* The second part of NextTurn. *)
LEMMA NeatPlayNext ==
    ASSUME NEW s, NEW P, Neat(s, P), NEW ans, Reply(ans) \in P,
           NEW t \in PlayNext(s, ans)
    PROVE  Neat(t, P)
<1>1. \/ t = s \/ t = [s EXCEPT !.aborted = "nextturn playing"]
      \/ \E o \in RollOutcomes(s.ms) : t = CommandRoll(s, ans, o)
      \/ \E u \in ComputerTurn(s, ans) : t = TurnDone(u)
  BY DEF PlayNext
<1>2. Neat([s EXCEPT !.aborted = "nextturn playing"], P)
  BY NeatPart
<1>3. \A o : Neat(CommandRoll(s, ans, o), P)
  BY NeatCommand
<1>4. \A u \in ComputerTurn(s, ans) : Neat(TurnDone(u), P)
  BY NeatComputerTurn
<1>5. QED
  BY <1>1, <1>2, <1>3, <1>4

(* At the end of the last game all games are over. *)
LEMMA OverAtEnd ==
    ASSUME NEW s, Told(s), ~Playing(s), s.plGame = 0 \/ AtEnd(s),
           Concluded(s.lMatch)
    PROVE  AllOver(s.lMatch)
<1>1. CASE s.plGame = 0
  <2>1. s.lMatch = <<>>
    BY <1>1 DEF Told, InPlace
  <2>2. QED
    BY <2>1 DEF AllOver
<1>2. CASE s.plGame # 0
  <2> DEFINE k == s.plGame
             gm == s.lMatch[k]
  <2>1. /\ k = Len(s.lMatch) /\ s.plLastMove = Len(gm.recs) /\ k \in Nat
        /\ At(s.ms, gm, s.plLastMove) /\ Len(gm.recs) >= 1
    BY <1>2, AGame DEF AtEnd
  <2>2. s.plLastMove # 0
    BY <2>1
  <2> HIDE DEF gm, k
  <2>3. Same(s.ms, After(gm, Len(gm.recs)).ms)
    BY <2>1, <2>2 DEF At
  <2>4. Over(s.lMatch[k])
    BY <2>3 DEF Over, Same, Playing, gm
  <2>5. QED
    BY <2>1, <2>4 DEF AllOver, Concluded
<1>3. QED
  BY <1>1, <1>2

(* NextTurn. *)
LEMMA NeatNextTurn ==
    ASSUME NEW s0, NEW P, Neat(s0, P), Live(s0), NEW ans, Reply(ans) \in P,
           NEW t \in NextTurn(s0, ans)
    PROVE  Neat(t, P)
<1> DEFINE s == [s0 EXCEPT !.fNextTurn = FALSE]
           w == s.lMatch[s.plGame].info.fWinner
           m == SetCrawfordFlags(s.ms, w)
           done == [s EXCEPT !.ms = m]
           stop == [done EXCEPT !.automaticTask = FALSE]
           won == s.ms.nMatchTo > 0 /\ s.ms.anScore[w] >= s.ms.nMatchTo
<1>1. \/ t = s
      \/ t \in PlayNext(s, ans)
      \/ t = stop
      \/ GameEnded(s.ms) /\ \E n \in NewGames(done) : t \in PlayNext(n, ans)
  BY DEF NextTurn
<1>2. /\ Neat(s, P)
  BY NeatPart
<1>3. s.ms = s0.ms /\ s.lMatch = s0.lMatch
  BY DEF Neat, StateFields
<1> HIDE DEF s, m
<1>4. Neat(done, P) /\ done.lMatch = s0.lMatch
  <2>1. Neat(done, P)
    BY <1>2, NeatPart
  <2>2. QED
    BY <1>2, <1>3, <2>1 DEF Neat, StateFields
<1> HIDE DEF done
<1>5. Neat(stop, P)
  <2>1. /\ DOMAIN stop = StateFields /\ stop.lMatch = done.lMatch
        /\ stop.plGame = done.plGame /\ stop.automaticTask = FALSE
        /\ stop.prompt = done.prompt
    BY <1>4 DEF Neat, StateFields
  <2> HIDE DEF stop
  <2>2. QED
    BY <1>4, <2>1 DEF Neat
<1> HIDE DEF stop
<1>6. GameEnded(s.ms) => AllOver(done.lMatch)
  <2>1. Sound(s0.ms) /\ Concluded(s0.lMatch)
    BY DEF Live, Told, Neat
  <2>2. GameEnded(s.ms) => ~Playing(s0)
    BY <1>3, <2>1 DEF GameEnded, Sound, InGame, Playing
  <2>3. QED
    BY <1>4, <2>1, <2>2, OverAtEnd DEF Live
<1>7. ASSUME GameEnded(s.ms), NEW n \in NewGames(done), t \in PlayNext(n, ans)
      PROVE  Neat(t, P)
  <2>1. Neat(n, P)
    BY <1>4, <1>6, <1>7, NeatNewGame
  <2>2. QED
    BY <1>7, <2>1, NeatPlayNext
<1>8. QED
  BY <1>1, <1>2, <1>5, <1>7, NeatPlayNext

(* CommandPlay. *)
LEMMA NeatCommandPlay ==
    ASSUME NEW s, NEW P, Neat(s, P), NEW ans, Reply(ans) \in P,
           NEW t \in CommandPlay(s, ans)
    PROVE  Neat(t, P)
<1>1. \/ t = s
      \/ \E u \in ComputerTurn(StartAutomaticPlay(s), ans) : t = TurnDone(u)
  BY DEF CommandPlay
<1>2. QED
  BY <1>1, NeatAutomatic, NeatComputerTurn

(* No command of navigation starts or stops the computer. *)
Idles(s, t) == DOMAIN t = StateFields /\ t.automaticTask = s.automaticTask

LEMMA IdlesOn ==
    ASSUME NEW s, NEW t, NEW u, Idles(s, t), Idles(t, u)
    PROVE  Idles(s, u)
BY DEF Idles

(* Changes that leave the flag alone. *)
LEMMA IdleParts ==
    ASSUME NEW s, DOMAIN s = StateFields, NEW x, NEW y, NEW z
    PROVE  /\ Idles(s, s) /\ Idles(s, [s EXCEPT !.ms = x])
           /\ Idles(s, [s EXCEPT !.plLastMove = x])
           /\ Idles(s, [s EXCEPT !.ms = x, !.lMatch = y])
           /\ Idles(s, [s EXCEPT !.fNextTurn = x, !.ms = y])
           /\ Idles(s, [s EXCEPT !.plGame = x, !.plLastMove = y])
           /\ Idles(s, [s EXCEPT !.plLastMove = x, !.ms = y, !.lMatch = z])
BY DEF Idles, StateFields

(* Single steps and other games. *)
LEMMA IdleSteps ==
    ASSUME NEW s, DOMAIN s = StateFields
    PROVE  /\ Idles(s, Recalculate(s)) /\ \A i : Idles(s, SetTurn(s, i))
           /\ \A k : Idles(s, ChangeGame(s, k))
           /\ Idles(s, CommandNext(s)) /\ Idles(s, CommandPrevious(s))
           /\ Idles(s, CommandNextGame(s)) /\ Idles(s, CommandPreviousGame(s))
           /\ Idles(s, CommandFirstGame(s)) /\ Idles(s, CommandFirstMove(s))
<1>1. ASSUME NEW t, DOMAIN t = StateFields
      PROVE  Idles(t, Recalculate(t)) /\ \A i : Idles(t, SetTurn(t, i))
  <2> DEFINE c == CalculateBoard(t.lMatch[t.plGame], t.plLastMove)
             m == c.ms
             l == [t.lMatch EXCEPT ![t.plGame] =
                     [t.lMatch[t.plGame] EXCEPT !.info = c.info]]
             n(i) == [t.ms EXCEPT
                           !.side = IF t.ms.fTurn # i THEN SwapSides(t.ms.side)
                                                      ELSE t.ms.side,
                           !.fTurn = i, !.fMove = i,
                           !.fDoubled = FALSE, !.dice = FALSE]
  <2>1. Recalculate(t) = [t EXCEPT !.ms = m, !.lMatch = l]
    BY DEF Recalculate
  <2>2. \A i : SetTurn(t, i) = [t EXCEPT !.fNextTurn = FALSE, !.ms = n(i)]
    BY DEF SetTurn
  <2> HIDE DEF m, l, n
  <2>3. Idles(t, [t EXCEPT !.ms = m, !.lMatch = l])
    BY <1>1, IdleParts
  <2>4. ASSUME NEW x PROVE Idles(t, [t EXCEPT !.fNextTurn = FALSE, !.ms = x])
    BY <1>1, IdleParts
  <2>5. \A i : Idles(t, SetTurn(t, i))
    <3>1. ASSUME NEW i PROVE Idles(t, SetTurn(t, i))
      <4>1. Idles(t, [t EXCEPT !.fNextTurn = FALSE, !.ms = n(i)])
        BY <2>4
      <4>2. QED
        BY <2>2, <4>1
    <3>2. QED
      BY <3>1
  <2>6. QED
    BY <2>1, <2>3, <2>5
<1>2. ASSUME NEW k PROVE Idles(s, ChangeGame(s, k))
  <2> DEFINE q == [s EXCEPT !.plGame = k, !.plLastMove = 0]
             t == Recalculate(q)
             u == SetTurn(t, NextRecord(t).fPlayer)
  <2>1. ChangeGame(s, k) \in {t, u}
    BY DEF ChangeGame
  <2>2. Idles(s, q)
    BY IdleParts
  <2> HIDE DEF q
  <2>3. Idles(q, t)
    BY <1>1, <2>2 DEF Idles
  <2> HIDE DEF t
  <2>4. Idles(t, u)
    BY <1>1, <2>3 DEF Idles
  <2> HIDE DEF u
  <2>5. QED
    BY <2>1, <2>2, <2>3, <2>4 DEF Idles
<1>3. Idles(s, CommandNext(s))
  <2> DEFINE gm == s.lMatch[s.plGame]
             n == s.plLastMove + 1
             t == ApplyMoveRecord(FixMatchState(s.ms, gm.recs[n]), gm.info,
                                  gm.recs[n])
             m == FixForNext(t.ms, gm.recs, n)
             l == [s.lMatch EXCEPT ![s.plGame] =
                     [s.lMatch[s.plGame] EXCEPT !.info = t.info]]
             u == [s EXCEPT !.plLastMove = n, !.ms = m, !.lMatch = l]
  <2>1. CommandNext(s) \in {s, u}
    BY DEF CommandNext
  <2> HIDE DEF n, m, l
  <2>2. Idles(s, u) /\ Idles(s, s)
    BY IdleParts
  <2>3. QED
    BY <2>1, <2>2
<1>4. Idles(s, CommandPrevious(s))
  <2> DEFINE n == IF s.plLastMove = 0 THEN 0 ELSE s.plLastMove - 1
             q == [s EXCEPT !.plLastMove = n]
  <2>1. CommandPrevious(s) \in {s, Recalculate(q)}
    BY DEF CommandPrevious
  <2> HIDE DEF n
  <2>2. Idles(s, q)
    BY IdleParts
  <2> HIDE DEF q
  <2>3. Idles(q, Recalculate(q)) /\ Idles(s, s)
    BY <1>1, <2>2, IdleParts DEF Idles
  <2>4. QED
    BY <2>1, <2>2, <2>3, IdlesOn
<1>5. Idles(s, s)
  BY IdleParts
<1>6. QED
  BY <1>1, <1>2, <1>3, <1>4, <1>5
     DEF CommandNextGame, CommandPreviousGame, CommandFirstGame,
         CommandFirstMove

(* The commands that show a roll. *)
LEMMA IdleRolls ==
    ASSUME NEW s, DOMAIN s = StateFields
    PROVE  /\ Idles(s, CommandNextRoll(s)) /\ Idles(s, CommandPreviousRoll(s))
           /\ Idles(s, CommandNextRolled(s))
           /\ Idles(s, CommandPreviousRolled(s))
<1>1. ASSUME NEW q, DOMAIN q = StateFields
      PROVE  Idles(q, CommandNextRoll(q))
  <2> DEFINE t == Recalculate(q)
             p == NextRecord(q).fPlayer
             m == [t.ms EXCEPT !.gs = "playing", !.fMove = p, !.fTurn = p,
                               !.dice = TRUE]
             u == [t EXCEPT !.ms = m]
  <2>1. CommandNextRoll(q) \in {q, CommandNext(q), u}
    BY DEF CommandNextRoll
  <2>2. Idles(q, t) /\ Idles(q, q) /\ Idles(q, CommandNext(q))
    BY <1>1, IdleSteps, IdleParts
  <2> HIDE DEF t, m
  <2>3. Idles(t, u)
    BY <2>2, IdleParts DEF Idles
  <2>4. QED
    BY <2>1, <2>2, <2>3, IdlesOn
<1>2. ASSUME NEW q, Idles(s, q) PROVE Idles(s, ShowRoll(q))
  <2>1. Idles(q, CommandNextRoll(q))
    BY <1>1, <1>2 DEF Idles
  <2>2. QED
    BY <1>2, <2>1, IdlesOn DEF ShowRoll
<1>3. Idles(s, CommandPreviousRoll(s))
  <2> DEFINE c == Recalculate(s)
             d == [c.ms EXCEPT !.dice = FALSE]
             e == [c EXCEPT !.ms = d]
             m == FixForNext(e.ms, s.lMatch[s.plGame].recs, s.plLastMove)
             u == [e EXCEPT !.ms = m]
             t == CommandPrevious(s)
  <2>1. CommandPreviousRoll(s) \in {s, u, t, CommandNextRoll(t)}
    BY DEF CommandPreviousRoll
  <2>2. Idles(s, c) /\ Idles(s, s) /\ Idles(s, t)
    BY IdleSteps, IdleParts
  <2> HIDE DEF c, d, t
  <2>3. Idles(c, e)
    BY <2>2, IdleParts DEF Idles
  <2> HIDE DEF e, m
  <2>4. Idles(e, u)
    BY <2>3, IdleParts DEF Idles
  <2> HIDE DEF u
  <2>5. Idles(t, CommandNextRoll(t))
    BY <1>1, <2>2 DEF Idles
  <2>6. QED
    BY <2>1, <2>2, <2>3, <2>4, <2>5 DEF Idles
<1>4. QED
  BY <1>1, <1>2, <1>3, IdleSteps, IdleParts
     DEF CommandNextRolled, CommandPreviousRolled

(* The state that navigation installs. *)
LEMMA IdleNavigate ==
    ASSUME Navigate
    PROVE  automaticTask' = automaticTask
<1>1. DOMAIN cur = StateFields /\ cur.automaticTask = automaticTask
  BY DEF cur, StateFields
<1>2. \A u : Idles(cur, u) /\ Install(u) => automaticTask' = automaticTask
  BY <1>1 DEF Idles, Install
<1>3. CASE DoNext
  BY <1>1, <1>2, <1>3, IdleSteps DEF DoNext
<1>4. CASE DoPrevious
  BY <1>1, <1>2, <1>4, IdleSteps DEF DoPrevious
<1>5. CASE DoNextGame
  BY <1>1, <1>2, <1>5, IdleSteps DEF DoNextGame
<1>6. CASE DoPreviousGame
  BY <1>1, <1>2, <1>6, IdleSteps DEF DoPreviousGame
<1>7. CASE DoFirstGame
  BY <1>1, <1>2, <1>7, IdleSteps DEF DoFirstGame
<1>8. CASE DoFirstMove
  BY <1>1, <1>2, <1>8, IdleSteps DEF DoFirstMove
<1>9. CASE DoNextRoll
  BY <1>1, <1>2, <1>9, IdleRolls DEF DoNextRoll
<1>10. CASE DoPreviousRoll
  BY <1>1, <1>2, <1>10, IdleRolls DEF DoPreviousRoll
<1>11. CASE DoNextRolled
  BY <1>1, <1>2, <1>11, IdleRolls DEF DoNextRolled
<1>12. CASE DoPreviousRolled
  BY <1>1, <1>2, <1>12, IdleRolls DEF DoPreviousRolled
<1>13. QED
  BY <1>3, <1>4, <1>5, <1>6, <1>7, <1>8, <1>9, <1>10, <1>11, <1>12
     DEF Navigate

-----------------------------------------------------------------------------
(* The user has agreed, or nothing is lost, or it is a take: what
   DiscardNeedsYes says of a step from s to t. *)
TakenAnyway(s, t) ==
    /\ t.prompt = "no" /\ t.plLastMove = s.plLastMove + 1
    /\ t.lMatch[t.plGame].recs[t.plLastMove].mt = "take"

Permitted(s, t) ==
    t.prompt = "yes" \/ ~Loses(s.lMatch, t.lMatch) \/ TakenAnyway(s, t)

(* A list grows from itself, and by one step after the other. *)
LEMMA GrowsOn ==
    ASSUME NEW l \in Seq(Game)
    PROVE  /\ Grows(l, l)
           /\ \A n \in Seq(Game), o \in Seq(Game) :
                 Grows(l, n) /\ Grows(n, o) => Grows(l, o)
<1>1. ASSUME NEW x \in Seq(Record)
      PROVE  /\ Undecided(x) \in Seq(Record) /\ IsPrefix(Undecided(x), x)
             /\ IsPrefix(Undecided(x), Undecided(x))
  <2>1. Rec("take", 0, 0) \in Record
    BY DEF Rec, Record, MoveType, Player
  <2>2. /\ IsPrefix(x, x)
        /\ x # <<>> => Front(x) \in Seq(Record) /\ IsPrefix(Front(x), x)
    BY <1>1, <2>1, PrefixFacts
  <2>3. x # <<>> => IsPrefix(Front(x), Front(x))
    BY <2>1, <2>2, PrefixFacts
  <2>4. QED
    BY <2>2, <2>3 DEF Undecided
<1>2. \A n \in Seq(Game) : \A k \in 1..Len(n) : n[k].recs \in Seq(Record)
  <2>1. ASSUME NEW n \in Seq(Game), NEW k \in 1..Len(n)
        PROVE  n[k].recs \in Seq(Record)
    <3>1. n[k] \in Game
      OBVIOUS
    <3>2. QED
      BY <3>1 DEF Game
  <2>2. QED
    BY <2>1
<1>3. Grows(l, l)
  BY <1>1, <1>2 DEF Grows
<1>4. ASSUME NEW n \in Seq(Game), NEW o \in Seq(Game), Grows(l, n), Grows(n, o)
      PROVE  Grows(l, o)
  <2>1. Len(n) = Len(l) /\ Len(o) = Len(l)
    BY <1>4 DEF Grows
  <2>2. ASSUME NEW k \in 1..Len(l)
        PROVE  /\ IsPrefix(Undecided(l[k].recs), o[k].recs)
               /\ IsPrefix(Undecided(l[k].recs), Undecided(o[k].recs))
    <3> DEFINE a == Undecided(l[k].recs)
               b == Undecided(n[k].recs)
               c == Undecided(o[k].recs)
               d == o[k].recs
    <3>1. /\ a \in Seq(Record) /\ b \in Seq(Record) /\ c \in Seq(Record)
          /\ d \in Seq(Record)
      BY <1>1, <1>2, <2>1
    <3>2. IsPrefix(a, b) /\ IsPrefix(b, c) /\ IsPrefix(b, d)
      BY <1>4, <2>1 DEF Grows
    <3>3. Rec("take", 0, 0) \in Record
      BY DEF Rec, Record, MoveType, Player
    <3> HIDE DEF a, b, c, d
    <3>4. \A y \in Seq(Record), z \in Seq(Record) :
             IsPrefix(a, y) /\ IsPrefix(y, z) => IsPrefix(a, z)
      BY <3>1, <3>3, PrefixFacts
    <3>5. IsPrefix(a, c) /\ IsPrefix(a, d)
      BY <3>1, <3>2, <3>4
    <3>6. QED
      BY <3>5 DEF a, c, d
  <2>3. QED
    BY <2>1, <2>2 DEF Grows
<1>5. QED
  BY <1>3, <1>4

(* The end of the list. *)
Ending(e) == DOMAIN e = StateFields /\ e.lMatch \in Seq(Game) /\ AtEnd(e)

(* What AddMoveRecord does to the list. *)
LEMMA AddedList ==
    ASSUME NEW e, DOMAIN e = StateFields, e.lMatch \in Seq(Game),
           e.plGame \in 1..Len(e.lMatch), NEW r \in Record,
           add_moverecord_sanity_check(r) = "no"
    PROVE  LET gm == e.lMatch[e.plGame]
               t  == AddMoveRecord(e, r)
           IN  /\ Len(t.lMatch) = e.plGame /\ t.plGame = e.plGame
               /\ t.prompt = e.prompt
               /\ \A j \in 1..(e.plGame - 1) : t.lMatch[j] = e.lMatch[j]
               /\ t.lMatch[e.plGame].recs
                    = Append(Kept(gm, e.plLastMove, r), r)
               /\ t.plLastMove = Len(t.lMatch[e.plGame].recs)
<1> DEFINE gm == e.lMatch[e.plGame]
           kept == SubSeq(gm.recs, 1, e.plLastMove)
           base == IF kept # <<>> /\ Elides(r, Last(kept))
                   THEN Front(kept) ELSE kept
           u == ApplyMoveRecord(FixMatchState(e.ms, r), gm.info, r)
           recs == Append(base, r)
           x == [info |-> u.info, recs |-> recs]
           b == SubSeq(e.lMatch, 1, e.plGame - 1)
           l == Append(b, x)
           m == u.ms
           c == Len(recs)
           t == [e EXCEPT !.ms = m, !.plLastMove = c, !.lMatch = l]
<1>1. AddMoveRecord(e, r) = t
  BY DEF AddMoveRecord
<1>2. recs = Append(Kept(gm, e.plLastMove, r), r) /\ x.recs = recs
  BY DEF Kept
<1> HIDE DEF recs, x, m, c
<1>3. /\ b \in Seq(Game) /\ Len(b) = e.plGame - 1
      /\ \A j \in 1..(e.plGame - 1) : b[j] = e.lMatch[j]
  OBVIOUS
<1> HIDE DEF b
<1>4. /\ Len(l) = e.plGame /\ l[e.plGame] = x
      /\ \A j \in 1..(e.plGame - 1) : l[j] = e.lMatch[j]
  <2>1. b \in Seq(Game \cup {x}) /\ e.plGame \in Nat
    BY <1>3
  <2>2. QED
    BY <1>3, <2>1
<1> HIDE DEF l
<1>5. /\ t.lMatch = l /\ t.plGame = e.plGame /\ t.prompt = e.prompt
      /\ t.plLastMove = c
  BY DEF StateFields
<1> HIDE DEF t, gm
<1>6. QED
  BY <1>1, <1>2, <1>4, <1>5 DEF c, gm

(* At the end of the list no record is lost. *)
LEMMA AddGrows ==
    ASSUME NEW e, Ending(e), NEW r \in Record, r.mt \in PlayMoves
    PROVE  Grows(e.lMatch, AddMoveRecord(e, r).lMatch)
<1> DEFINE k == e.plGame
           n == e.plLastMove
           l == e.lMatch
           t == AddMoveRecord(e, r)
           x == l[k].recs
           b == Kept(l[k], n, r)
<1>1. /\ DOMAIN e = StateFields /\ l \in Seq(Game) /\ k # 0 /\ k = Len(l)
      /\ n = Len(x)
  BY DEF Ending, AtEnd
<1>2. k \in 1..Len(l) /\ Len(l) \in Nat /\ k \in Nat
  BY <1>1
<1>3. CASE add_moverecord_sanity_check(r) # "no"
  <2>1. t.lMatch = l
    BY <1>1, <1>3 DEF AddMoveRecord, StateFields
  <2> HIDE DEF t, l
  <2>2. QED
    BY <1>1, <2>1, GrowsOn DEF t, l
<1>4. CASE add_moverecord_sanity_check(r) = "no"
  <2>1. /\ Len(t.lMatch) = k /\ t.lMatch[k].recs = Append(b, r)
        /\ \A j \in 1..(k - 1) : t.lMatch[j] = l[j]
    <3>1. /\ DOMAIN e = StateFields /\ e.lMatch \in Seq(Game)
          /\ e.plGame \in 1..Len(e.lMatch)
      BY <1>1, <1>2
    <3>2. LET gm == e.lMatch[e.plGame]
              a  == AddMoveRecord(e, r)
          IN  /\ Len(a.lMatch) = e.plGame
              /\ \A j \in 1..(e.plGame - 1) : a.lMatch[j] = e.lMatch[j]
              /\ a.lMatch[e.plGame].recs
                   = Append(Kept(gm, e.plLastMove, r), r)
      BY <1>4, <3>1, AddedList
    <3>3. QED
      BY <3>2
  <2>2. x \in Seq(Record)
    <3>1. l[k] \in Game
      BY <1>1, <1>2
    <3>2. QED
      BY <3>1 DEF Game
  <2>3. SubSeq(x, 1, n) = x
    BY <1>1, <2>2
  <2>4. b = IF x # <<>> /\ Elides(r, Last(x)) THEN Front(x) ELSE x
    BY <2>3 DEF Kept
  <2> HIDE DEF b, x, n, t, l, k
  <2>5. /\ IsPrefix(Undecided(x), Append(b, r))
        /\ IsPrefix(Undecided(x), Undecided(Append(b, r)))
    BY <2>2, <2>4, UndecidedGrows
  <2>6. Grows(l, l)
    BY <1>1, GrowsOn
  <2>7. Grows(l, t.lMatch)
    <3>1. ASSUME NEW j \in 1..Len(l)
          PROVE  /\ IsPrefix(Undecided(l[j].recs), t.lMatch[j].recs)
                 /\ IsPrefix(Undecided(l[j].recs), Undecided(t.lMatch[j].recs))
      <4>1. CASE j = k
        BY <2>1, <2>5, <4>1 DEF x
      <4>2. CASE j # k
        <5>1. t.lMatch[j] = l[j]
          BY <1>1, <1>2, <2>1, <4>2
        <5>2. QED
          BY <2>6, <5>1 DEF Grows
      <4>3. QED
        BY <4>1, <4>2
    <3>2. QED
      BY <1>1, <2>1, <3>1 DEF Grows
  <2>8. QED
    BY <2>7 DEF t, l
<1>5. QED
  BY <1>3, <1>4

(* A human decides in a game in progress, and the program is not playing by
   itself. *)
Deciding(s) == /\ Told(s) /\ Playing(s) /\ Neat(s, {"none"})
               /\ ~s.automaticTask

(* TurnDone keeps what is permitted. *)
LEMMA PermittedDone ==
    ASSUME NEW s, NEW t, DOMAIN t = StateFields, Permitted(s, t)
    PROVE  Permitted(s, TurnDone(t))
BY DEF Permitted, TakenAnyway, TurnDone, StateFields

(* So does a step that keeps the list. *)
LEMMA PermittedSame ==
    ASSUME NEW s, Deciding(s), NEW t, t.lMatch = s.lMatch
    PROVE  Permitted(s, t)
<1>1. s.lMatch \in Seq(Game)
  BY DEF Deciding, Told, States
<1>2. Grows(s.lMatch, t.lMatch)
  BY <1>1, GrowsOn
<1>3. QED
  BY <1>1, <1>2, GrowsKeeps DEF Permitted

(* The user is asked, unless the current record is the last of all. *)
LEMMA AskedCases ==
    ASSUME NEW s, Deciding(s), NEW ans \in BOOLEAN
    PROVE  LET q == move_not_last_in_match_ok(s, ans)
           IN  /\ DOMAIN q = StateFields /\ q.lMatch = s.lMatch
               /\ q.plGame = s.plGame /\ q.plLastMove = s.plLastMove
               /\ q.ms = s.ms /\ q.lMatch \in Seq(Game)
               /\ q.plGame \in 1..Len(q.lMatch)
               /\ \/ q = s /\ Ending(s)
                  \/ q.prompt = Reply(ans) /\ Neat(q, {Reply(ans)})
<1> DEFINE q == move_not_last_in_match_ok(s, ans)
           gm == s.lMatch[s.plGame]
<1>1. /\ DOMAIN s = StateFields /\ Concluded(s.lMatch) /\ ~s.automaticTask
      /\ Told(s) /\ Playing(s) /\ Neat(s, {"none"})
  BY DEF Deciding, Neat
<1>2. /\ s.plGame \in 1..Len(s.lMatch) /\ s.plGame # 0 /\ s \in States
      /\ s.lMatch \in Seq(Game) /\ Len(s.lMatch) \in Nat
  BY <1>1, InHand DEF States
<1>3. CASE move_is_last_in_match(s)
  <2>1. s.plLastMove = Len(gm.recs)
    BY <1>2, <1>3 DEF move_is_last_in_match
  <2>2. s.plLastMove # 0 /\ At(s.ms, gm, s.plLastMove)
    BY <1>1, <1>2, <2>1, AGame
  <2>3. Same(s.ms, After(gm, Len(gm.recs)).ms)
    BY <2>1, <2>2 DEF At
  <2>4. ~Over(gm)
    BY <1>1, <2>3 DEF Over, Same, Playing
  <2>5. s.plGame = Len(s.lMatch)
    BY <1>1, <1>2, <2>4 DEF Concluded
  <2>6. Ending(s)
    BY <1>1, <1>2, <2>1, <2>5 DEF Ending, AtEnd
  <2>7. q = s
    BY <1>3 DEF move_not_last_in_match_ok
  <2>8. QED
    BY <1>1, <1>2, <2>6, <2>7
<1>4. CASE ~move_is_last_in_match(s)
  <2>1. q = Answer(s, ans)
    BY <1>1, <1>4 DEF move_not_last_in_match_ok
  <2>2. /\ DOMAIN q = StateFields /\ q.lMatch = s.lMatch
        /\ q.plGame = s.plGame /\ q.plLastMove = s.plLastMove
        /\ q.ms = s.ms /\ q.prompt = Reply(ans)
        /\ q.automaticTask = s.automaticTask
    BY <1>1, <2>1 DEF Answer, StateFields, Reply
  <2> HIDE DEF q
  <2>3. Neat(q, {Reply(ans)})
    BY <1>1, <2>2 DEF Neat
  <2>4. QED
    BY <1>2, <2>2, <2>3 DEF q
<1>5. QED
  BY <1>3, <1>4

(* A record added after the question. *)
LEMMA AddPermitted ==
    ASSUME NEW s, Deciding(s), NEW ans \in BOOLEAN, NEW m,
           NEW r \in Record, r.mt \in PlayMoves
    PROVE  LET q == move_not_last_in_match_ok(s, ans)
               e == [q EXCEPT !.ms = m]
           IN  /\ Permitted(s, s) /\ Permitted(s, q)
               /\ ~Refused(q) =>
                     /\ Permitted(s, AddMoveRecord(q, r))
                     /\ Permitted(s, TurnDone(AddMoveRecord(q, r)))
                     /\ Permitted(s, TurnDone(AddMoveRecord(e, r)))
               /\ r.mt = "take" => Permitted(s, TurnDone(AddMoveRecord(q, r)))
<1> DEFINE q == move_not_last_in_match_ok(s, ans)
           e == [q EXCEPT !.ms = m]
<1>1. /\ DOMAIN q = StateFields /\ q.lMatch = s.lMatch
      /\ q.plGame = s.plGame /\ q.plLastMove = s.plLastMove
      /\ q.ms = s.ms /\ q.lMatch \in Seq(Game)
      /\ q.plGame \in 1..Len(q.lMatch)
      /\ \/ q = s /\ Ending(s)
         \/ q.prompt = Reply(ans) /\ Neat(q, {Reply(ans)})
  BY AskedCases
<1>2. s.lMatch \in Seq(Game)
  BY <1>1
<1> HIDE DEF q
<1>3. Permitted(s, s) /\ Permitted(s, q)
  BY <1>1, PermittedSame
<1>4. /\ DOMAIN e = StateFields /\ e.lMatch = q.lMatch /\ e.prompt = q.prompt
      /\ e.plGame = q.plGame /\ e.plLastMove = q.plLastMove
  BY <1>1 DEF StateFields
<1> HIDE DEF e
<1>5. ASSUME NEW t \in {q, e}
      PROVE  /\ DOMAIN AddMoveRecord(t, r) = StateFields
             /\ ~Refused(q) => Permitted(s, AddMoveRecord(t, r))
             /\ r.mt = "take" => Permitted(s, AddMoveRecord(t, r))
  <2>1. /\ DOMAIN t = StateFields /\ t.lMatch = s.lMatch /\ t.prompt = q.prompt
        /\ t.plGame = s.plGame /\ t.plLastMove = s.plLastMove
    BY <1>1, <1>4, <1>5
  <2>2. DOMAIN AddMoveRecord(t, r) = StateFields
    BY <2>1 DEF AddMoveRecord
  <2>3. CASE q = s /\ Ending(s)
    <3>1. Ending(t)
      BY <2>1, <2>3 DEF Ending, AtEnd
    <3>2. Grows(s.lMatch, AddMoveRecord(t, r).lMatch)
      BY <2>1, <3>1, AddGrows
    <3>3. Permitted(s, AddMoveRecord(t, r))
      BY <1>2, <3>2, GrowsKeeps DEF Permitted
    <3>4. QED
      BY <2>2, <3>3
  <2>4. CASE q.prompt = Reply(ans) /\ Neat(q, {Reply(ans)})
    <3>1. AddMoveRecord(t, r).prompt = Reply(ans)
      BY <2>1, <2>4 DEF AddMoveRecord, StateFields
    <3>2. ~Refused(q) => Permitted(s, AddMoveRecord(t, r))
      BY <2>4, <3>1 DEF Reply, Refused, Permitted
    <3>3. ASSUME r.mt = "take" PROVE Permitted(s, AddMoveRecord(t, r))
      <4> DEFINE gm == t.lMatch[t.plGame]
                 n == t.plLastMove
                 a == AddMoveRecord(t, r)
      <4>1. add_moverecord_sanity_check(r) = "no"
        BY <3>3 DEF add_moverecord_sanity_check
      <4>2. /\ t.lMatch \in Seq(Game) /\ t.plGame \in 1..Len(t.lMatch)
            /\ Len(gm.recs) \in Nat /\ n \in 0..Len(gm.recs)
            /\ gm.recs \in Seq(Record)
        <5>1. Told(s) /\ s.plGame # 0
          BY <1>1 DEF Deciding
        <5>2. gm \in Game
          BY <1>1, <2>1
        <5>3. QED
          BY <1>1, <2>1, <5>1, <5>2, AGame DEF Game
      <4>3. /\ a.plGame = t.plGame
            /\ a.lMatch[t.plGame].recs = Append(Kept(gm, n, r), r)
            /\ a.plLastMove = Len(a.lMatch[t.plGame].recs)
        BY <2>1, <4>1, <4>2, AddedList
      <4> HIDE DEF gm, n, a
      <4>4. /\ SubSeq(gm.recs, 1, n) \in Seq(Record)
            /\ Len(SubSeq(gm.recs, 1, n)) = n
        BY <4>2
      <4>5. Kept(gm, n, r) = SubSeq(gm.recs, 1, n)
        BY <3>3 DEF Kept, Elides
      <4>6. /\ Len(Append(Kept(gm, n, r), r)) = n + 1
            /\ Append(Kept(gm, n, r), r)[n + 1] = r
        BY <4>4, <4>5
      <4>7. a.plLastMove = s.plLastMove + 1
        BY <2>1, <4>3, <4>6 DEF n
      <4>8. a.lMatch[a.plGame].recs[a.plLastMove].mt = "take"
        BY <3>3, <4>3, <4>6
      <4>9. a.prompt = "yes" \/ TakenAnyway(s, a)
        BY <3>1, <4>7, <4>8 DEF TakenAnyway, Reply, a
      <4>10. QED
        BY <4>9 DEF Permitted, a
    <3>4. QED
      BY <2>2, <3>2, <3>3
  <2>5. QED
    BY <1>1, <2>3, <2>4
<1>6. QED
  BY <1>3, <1>5, PermittedDone DEF q, e

(* The records that the commands of a human make. *)
LEMMA CommandRecords ==
    ASSUME NEW s, Deciding(s)
    PROVE  /\ \A v \in Int : /\ Rec("normal", s.ms.fTurn, v) \in Record
                             /\ Rec("setdice", s.ms.fTurn, v) \in Record
                             /\ Rec("double", s.ms.fTurn, v) \in Record
                             /\ Rec("take", s.ms.fTurn, v) \in Record
                             /\ Rec("drop", s.ms.fTurn, v) \in Record
                             /\ Rec("resign", Other(s.ms.fTurn), v) \in Record
           /\ \A mt, p, v : Rec(mt, p, v).mt = mt
           /\ {"normal", "setdice", "double", "take", "drop", "resign"}
                 \subseteq PlayMoves
           /\ s.ms.fResigned \in Int
<1>1. s.ms.fTurn \in Player /\ Other(s.ms.fTurn) \in Player
  BY InHand DEF Deciding, Player, Other
<1>2. s.ms.fResigned \in -1..3
  BY InHand DEF Deciding, MatchStates
<1>3. QED
  BY <1>1, <1>2 DEF Rec, Record, MoveType, PlayMoves

(* The commands that add one record at most. *)
LEMMA CommandsPermitted ==
    ASSUME NEW s, Deciding(s), NEW ans \in BOOLEAN, NEW v \in Int
    PROVE  /\ Permitted(s, CommandAgree(s, FALSE, ans))
           /\ Permitted(s, CommandDecline(s, FALSE))
           /\ Permitted(s, CommandResign(s, FALSE, v))
           /\ Permitted(s, CommandRedouble(s, FALSE, ans))
           /\ Permitted(s, CommandTake(s, FALSE, ans))
           /\ Permitted(s, CommandDrop(s, FALSE, ans))
           /\ Permitted(s, CommandMove(s, ans, v))
<1> DEFINE q == move_not_last_in_match_ok(s, ans)
           D(r) == TurnDone(AddMoveRecord(q, r))
<1>1. DOMAIN s = StateFields
  BY DEF Deciding, Neat
<1>2. ASSUME NEW r \in Record, r.mt \in PlayMoves
      PROVE  /\ Permitted(s, s) /\ Permitted(s, q)
             /\ ~Refused(q) => Permitted(s, D(r))
             /\ r.mt = "take" => Permitted(s, D(r))
  BY <1>2, AddPermitted
<1>3. ASSUME NEW m, NEW r \in Record, r.mt \in PlayMoves, ~Refused(q)
      PROVE  Permitted(s, TurnDone(AddMoveRecord([q EXCEPT !.ms = m], r)))
  BY <1>3, AddPermitted
<1> HIDE DEF D
<1>4. Permitted(s, CommandAgree(s, FALSE, ans))
  <2> DEFINE r == Rec("resign", Other(s.ms.fTurn), s.ms.fResigned)
  <2>1. \/ CommandAgree(s, FALSE, ans) \in {s, q}
        \/ ~Refused(q) /\ CommandAgree(s, FALSE, ans) = D(r)
    BY DEF CommandAgree, D
  <2>2. r \in Record /\ r.mt \in PlayMoves
    BY CommandRecords
  <2> HIDE DEF r, q
  <2>3. QED
    BY <1>2, <2>1, <2>2
<1>5. Permitted(s, CommandDecline(s, FALSE))
  <2> DEFINE m == [s.ms EXCEPT !.fResignationDeclined = s.ms.fResigned,
                               !.fResigned = 0, !.fTurn = Other(s.ms.fTurn)]
             t == [s EXCEPT !.ms = m]
  <2>1. CommandDecline(s, FALSE) \in {s, TurnDone(t)}
    BY DEF CommandDecline
  <2> HIDE DEF m
  <2>2. DOMAIN t = StateFields /\ t.lMatch = s.lMatch
    BY <1>1 DEF StateFields
  <2> HIDE DEF t
  <2>3. Permitted(s, s) /\ Permitted(s, TurnDone(t))
    BY <2>2, PermittedSame, PermittedDone
  <2>4. QED
    BY <2>1, <2>3
<1>6. Permitted(s, CommandResign(s, FALSE, v))
  <2> DEFINE m == [s.ms EXCEPT !.fResigned = 0]
             n == [s.ms EXCEPT !.fResigned = v, !.fTurn = Other(s.ms.fTurn)]
             t == [s EXCEPT !.ms = m]
             u == [s EXCEPT !.ms = n]
  <2>1. CommandResign(s, FALSE, v) \in {s, t, TurnDone(u)}
    BY DEF CommandResign
  <2> HIDE DEF m, n
  <2>2. /\ DOMAIN t = StateFields /\ t.lMatch = s.lMatch
        /\ DOMAIN u = StateFields /\ u.lMatch = s.lMatch
    BY <1>1 DEF StateFields
  <2> HIDE DEF t, u
  <2>3. Permitted(s, s) /\ Permitted(s, t) /\ Permitted(s, TurnDone(u))
    BY <2>2, PermittedSame, PermittedDone
  <2>4. QED
    BY <2>1, <2>3
<1>7. Permitted(s, CommandRedouble(s, FALSE, ans))
  <2> DEFINE m == [q.ms EXCEPT !.fCubeOwner = Other(s.ms.fMove)]
             r == Rec("double", s.ms.fTurn, 0)
             f == TurnDone(AddMoveRecord([q EXCEPT !.ms = m], r))
  <2>1. \/ CommandRedouble(s, FALSE, ans) \in {s, q}
        \/ ~Refused(q) /\ CommandRedouble(s, FALSE, ans) = f
    BY DEF CommandRedouble
  <2>2. r \in Record /\ r.mt \in PlayMoves
    BY CommandRecords
  <2> HIDE DEF q, m, r
  <2>3. QED
    BY <1>2, <1>3, <2>1, <2>2
<1>8. Permitted(s, CommandTake(s, FALSE, ans))
  <2> DEFINE r == Rec("take", s.ms.fTurn, 0)
  <2>1. CommandTake(s, FALSE, ans) \in {s, q, D(r)}
    BY DEF CommandTake, D
  <2>2. r \in Record /\ r.mt \in PlayMoves /\ r.mt = "take"
    BY CommandRecords
  <2> HIDE DEF r, q
  <2>3. QED
    BY <1>2, <2>1, <2>2
<1>9. Permitted(s, CommandDrop(s, FALSE, ans))
  <2> DEFINE r == Rec("drop", s.ms.fTurn, 0)
  <2>1. \/ CommandDrop(s, FALSE, ans) \in {s, q}
        \/ ~Refused(q) /\ CommandDrop(s, FALSE, ans) = D(r)
    BY DEF CommandDrop, D
  <2>2. r \in Record /\ r.mt \in PlayMoves
    BY CommandRecords
  <2> HIDE DEF r, q
  <2>3. QED
    BY <1>2, <2>1, <2>2
<1>10. Permitted(s, CommandMove(s, ans, v))
  <2> DEFINE r == Rec("normal", s.ms.fTurn, v)
  <2>1. \/ CommandMove(s, ans, v) \in {s, q}
        \/ ~Refused(q) /\ CommandMove(s, ans, v) = D(r)
    BY DEF CommandMove, D
  <2>2. r \in Record /\ r.mt \in PlayMoves
    BY CommandRecords
  <2> HIDE DEF r, q
  <2>3. QED
    BY <1>2, <2>1, <2>2
<1>11. QED
  BY <1>4, <1>5, <1>6, <1>7, <1>8, <1>9, <1>10

(* CommandDouble, which may go on to the beaver, and the answers. *)
LEMMA CubePermitted ==
    ASSUME NEW s, Deciding(s), NEW ans \in BOOLEAN
    PROVE  /\ Permitted(s, CommandDouble(s, FALSE, ans))
           /\ Permitted(s, CommandAccept(s, ans))
           /\ Permitted(s, CommandReject(s, ans))
<1> DEFINE q == move_not_last_in_match_ok(s, ans)
           r == Rec("double", s.ms.fTurn, 0)
           d == CommandRedouble(q, FALSE, ans)
           f == TurnDone(AddMoveRecord(q, r))
<1>1. \/ CommandDouble(s, FALSE, ans) \in {s, q}
      \/ ~Refused(q) /\ CommandDouble(s, FALSE, ans) \in {d, f}
  BY DEF CommandDouble
<1>2. r \in Record /\ r.mt \in PlayMoves
  BY CommandRecords
<1>3. /\ Permitted(s, s) /\ Permitted(s, q)
      /\ ~Refused(q) => Permitted(s, f)
  <2> HIDE DEF r
  <2>1. QED
    BY <1>2, AddPermitted
<1>4. q = s \/ (q.prompt = Reply(ans) /\ Neat(q, {Reply(ans)}))
  BY AskedCases
<1>5. /\ Permitted(s, CommandRedouble(s, FALSE, ans))
      /\ Permitted(s, CommandAgree(s, FALSE, ans))
      /\ Permitted(s, CommandDecline(s, FALSE))
      /\ Permitted(s, CommandTake(s, FALSE, ans))
      /\ Permitted(s, CommandDrop(s, FALSE, ans))
  <2>1. 0 \in Int
    OBVIOUS
  <2>2. QED
    BY <2>1, CommandsPermitted
<1> HIDE DEF q, f
<1>6. ASSUME ~Refused(q) PROVE Permitted(s, d)
  <2>1. CASE q = s
    BY <1>5, <2>1
  <2>2. CASE q.prompt = Reply(ans) /\ Neat(q, {Reply(ans)})
    <3> DEFINE P == {Reply(ans)}
    <3>1. Neat(q, P) /\ Reply(ans) \in P
      BY <2>2
    <3> HIDE DEF P
    <3>2. Neat(CommandRedouble(q, FALSE, ans), P)
      BY <3>1, NeatCommand
    <3>3. Neat(d, {Reply(ans)})
      BY <3>2 DEF P
    <3>4. Reply(ans) = "yes"
      BY <1>6, <2>2 DEF Refused, Reply
    <3>5. QED
      BY <3>3, <3>4 DEF Neat, Permitted
  <2>3. QED
    BY <1>4, <2>1, <2>2
<1>7. Permitted(s, CommandDouble(s, FALSE, ans))
  BY <1>1, <1>3, <1>6
<1>8. QED
  BY <1>3, <1>7, <1>5 DEF CommandAccept, CommandReject

(* CommandRoll, with the play that may follow at once. *)
LEMMA RollPermitted ==
    ASSUME NEW s, Deciding(s), NEW ans \in BOOLEAN,
           NEW out \in RollOutcomes(s.ms)
    PROVE  Permitted(s, CommandRoll(s, ans, out))
<1> DEFINE q == move_not_last_in_match_ok(s, ans)
           r == Rec("setdice", s.ms.fTurn, 0)
           x == Rec("normal", s.ms.fTurn, out)
           e == AddMoveRecord(q, r)
           g == AddMoveRecord(e, x)
           f == TurnDone(g)
<1>1. \/ CommandRoll(s, ans, out) \in {s, q}
      \/ /\ ~Refused(q) /\ CommandRoll(s, ans, out) \in {e, f}
         /\ ~s.ms.fDoubled /\ s.ms.fResigned = 0
  BY DEF CommandRoll
<1>2. r \in Record /\ r.mt \in PlayMoves /\ x \in Record /\ x.mt \in PlayMoves
  <2>1. out \in Int
    BY SettingsAssumption DEF RollOutcomes, PlayResults, Choice
  <2>2. QED
    BY <2>1, CommandRecords
<1>3. /\ Permitted(s, s) /\ Permitted(s, q)
      /\ ~Refused(q) => Permitted(s, e)
  <2> HIDE DEF r
  <2>1. QED
    BY <1>2, AddPermitted
<1>4. \/ q = s /\ Ending(s)
      \/ q.prompt = Reply(ans) /\ Neat(q, {Reply(ans)})
  BY AskedCases
<1>5. ASSUME ~s.ms.fDoubled, s.ms.fResigned = 0, ~Refused(q),
             CommandRoll(s, ans, out) = f
      PROVE  Permitted(s, f)
  <2>1. CASE q = s /\ Ending(s)
    <3>1. Allowed(s.ms, r)
      BY <1>5, AllowedRecs
    <3>2. r.mt = "setdice"
      BY CommandRecords
    <3> HIDE DEF r, x, q
    <3>3. LET t == AddMoveRecord(s, r) IN Told(t) /\ AtEnd(t)
      BY <1>5, <3>1, <3>2, ToldAdd DEF Deciding
    <3>4. Told(e) /\ AtEnd(e)
      BY <2>1, <3>3
    <3>5. Grows(s.lMatch, e.lMatch)
      BY <1>2, <2>1, AddGrows
    <3> HIDE DEF e
    <3>6. Ending(e)
      BY <3>4 DEF Ending, Told, States, StateFields
    <3>7. Grows(e.lMatch, g.lMatch)
      BY <1>2, <3>6, AddGrows
    <3>8. DOMAIN g = StateFields
      BY <3>6 DEF Ending, AddMoveRecord
    <3>9. /\ s.lMatch \in Seq(Game) /\ e.lMatch \in Seq(Game)
      BY <2>1, <3>6 DEF Ending
    <3>10. ~Loses(s.lMatch, g.lMatch)
      <4>1. Told(f)
        BY <1>5, ToldRoll DEF Deciding, Continues, Live
      <4>2. g.lMatch \in Seq(Game)
        BY <3>8, <4>1 DEF Told, States, TurnDone, StateFields
      <4>3. Grows(s.lMatch, g.lMatch)
        BY <3>5, <3>7, <3>9, <4>2, GrowsOn
      <4>4. QED
        BY <3>9, <4>3, GrowsKeeps
    <3>11. QED
      BY <3>8, <3>10, PermittedDone DEF Permitted
  <2>2. CASE q.prompt = Reply(ans) /\ Neat(q, {Reply(ans)})
    <3>1. Neat(f, {Reply(ans)})
      <4> HIDE DEF q, r, x
      <4>1. Neat(e, {Reply(ans)})
        BY <2>2, NeatAdd
      <4> HIDE DEF e
      <4>2. Neat(g, {Reply(ans)})
        BY <4>1, NeatAdd
      <4> HIDE DEF g
      <4>3. QED
        BY <4>2, NeatPart
    <3>2. Reply(ans) = "yes"
      BY <1>5, <2>2 DEF Refused, Reply
    <3> HIDE DEF f
    <3>3. QED
      BY <3>1, <3>2 DEF Neat, Permitted
  <2>3. QED
    BY <1>4, <2>1, <2>2
<1> HIDE DEF q, e, f
<1>6. QED
  BY <1>1, <1>3, <1>5

(* A new game, or a new match, begins only after the answer yes. *)
LEMMA NewPermitted ==
    ASSUME ConfirmNew, NEW s, Deciding(s), NEW ans \in BOOLEAN
    PROVE  /\ \A t \in CommandNewGame(s, ans) : Permitted(s, t)
           /\ \A n, t : t \in CommandNewMatch(s, n, ans) => Permitted(s, t)
<1> DEFINE q == Answer(s, ans)
<1>1. Playing(s) /\ Neat(s, {"none"}) /\ DOMAIN s = StateFields
  BY DEF Deciding, Neat
<1>2. /\ q.lMatch = s.lMatch /\ q.prompt = Reply(ans)
      /\ DOMAIN q = StateFields /\ q.plGame = s.plGame
      /\ q.automaticTask = s.automaticTask
  BY <1>1 DEF Answer, Reply, StateFields
<1> HIDE DEF q
<1>3. Neat(q, {Reply(ans)})
  BY <1>1, <1>2 DEF Neat
<1>4. Permitted(s, s) /\ Permitted(s, q)
  BY <1>2, PermittedSame
<1>5. ~Refused(q) => Reply(ans) = "yes"
  BY <1>2 DEF Refused, Reply
<1>6. \A t : Neat(t, {"yes"}) => Permitted(s, t)
  BY DEF Neat, Permitted
<1>7. ASSUME NEW t \in CommandNewGame(s, ans) PROVE Permitted(s, t)
  <2> DEFINE c == StartAutomaticPlay(PopGame(q))
  <2>1. \/ t \in {s, q}
        \/ ~Refused(q) /\ t \in StartNewGame(c, ans)
    BY <1>1, <1>7 DEF CommandNewGame, q
  <2>2. Neat(c, {Reply(ans)}) /\ AllOver(c.lMatch)
    BY <1>3, NeatPop, NeatAutomatic
  <2> HIDE DEF c
  <2>3. t \in StartNewGame(c, ans) => Neat(t, {Reply(ans)})
    BY <2>2, NeatStartNewGame
  <2>4. QED
    BY <1>4, <1>5, <1>6, <2>1, <2>3
<1>8. ASSUME NEW n, NEW t, t \in CommandNewMatch(s, n, ans)
      PROVE  Permitted(s, t)
  <2> DEFINE c == [ClearMatch(q) EXCEPT !.ms.nMatchTo = n]
  <2>1. \/ t = q
        \/ ~Refused(q) /\ t \in CommandNewGame(c, ans)
    BY <1>1, <1>8 DEF CommandNewMatch, get_input_discard, q
  <2>2. Neat(c, {Reply(ans)}) /\ c.lMatch = <<>>
    BY <1>3, NeatClear
  <2> HIDE DEF c
  <2>3. AllOver(c.lMatch)
    BY <2>2 DEF AllOver
  <2>4. t \in CommandNewGame(c, ans) => Neat(t, {Reply(ans)})
    BY <2>2, <2>3, NeatCommandNewGame
  <2>5. QED
    BY <1>4, <1>5, <1>6, <2>1, <2>4
<1>9. QED
  BY <1>7, <1>8

(* NextTurn rolls for a human, or leaves the turn to him. *)
LEMMA NextTurnPermitted ==
    ASSUME NEW s, Deciding(s), PlayerType[s.ms.fTurn] = "human",
           NEW ans \in BOOLEAN, NEW t \in NextTurn(s, ans)
    PROVE  Permitted(s, t)
<1> DEFINE z == [s EXCEPT !.fNextTurn = FALSE]
<1>1. /\ Told(s) /\ Playing(s) /\ Neat(s, {"none"}) /\ ~s.automaticTask
      /\ DOMAIN s = StateFields /\ s \in States
  BY DEF Deciding, Neat, Told
<1>2. /\ z.ms = s.ms /\ z.lMatch = s.lMatch /\ z.plGame = s.plGame
      /\ z.automaticTask = s.automaticTask /\ z.aborted = s.aborted
      /\ z.plLastMove = s.plLastMove
  BY <1>1 DEF StateFields
<1>3. Like(s, z) /\ Neat(z, {"none"})
  <2>1. Neat(z, {"none"})
    BY <1>1, NeatPart
  <2>2. z \in States
    BY <1>1 DEF States
  <2>3. QED
    BY <1>2, <2>1, <2>2 DEF Like
<1>4. t = z \/ \E o \in RollOutcomes(z.ms) : t = CommandRoll(z, ans, o)
  <2>1. ~GameEnded(z.ms) /\ z.aborted = "no" /\ Playing(z)
        /\ PlayerType[z.ms.fTurn] = "human"
    BY <1>1, <1>2 DEF Told, Sound, InGame, GameEnded, Playing
  <2>2. t = z \/ t \in PlayNext(z, ans)
    BY <2>1 DEF NextTurn
  <2> HIDE DEF z
  <2>3. QED
    BY <2>1, <2>2 DEF PlayNext
<1> HIDE DEF z
<1>5. Deciding(z)
  BY <1>1, <1>2, <1>3, ToldLike DEF Deciding
<1>6. ASSUME NEW o \in RollOutcomes(z.ms) PROVE Permitted(z, CommandRoll(z, ans, o))
  BY <1>5, <1>6, RollPermitted
<1>7. \A u : Permitted(z, u) => Permitted(s, u)
  BY <1>2 DEF Permitted, TakenAnyway
<1>8. Permitted(s, z)
  BY <1>2, PermittedSame
<1>9. QED
  BY <1>4, <1>6, <1>7, <1>8

-----------------------------------------------------------------------------
(* The invariant of play with questions. *)
DiscardInv == HistoryInv /\ Concluded(lMatch) /\ (automaticTask => NoHuman)

HumanTurn == ms.gs = "playing" /\ PlayerType[ms.fTurn] = "human"

Answers == {"none", "yes", "no"}

(* A step to t keeps the invariant and what the user has not given up. *)
Minds(t) == /\ Install(t) /\ Neat(t, Answers)
            /\ HumanTurn => Permitted(cur, t)

LEMMA DiscardNow ==
    ASSUME DiscardInv
    PROVE  /\ Told(cur) /\ Steady(cur) /\ Neat(cur, {"none"})
           /\ Neat(cur, Answers) /\ cur.ms = ms /\ cur.lMatch = lMatch
           /\ HumanTurn => Deciding(cur) /\ Playing(cur)
           /\ cur.fNextTurn = fNextTurn /\ cur.plGame = plGame
<1>1. /\ Told(cur) /\ Steady(cur) /\ cur.ms = ms /\ cur.lMatch = lMatch
      /\ cur.plGame = plGame /\ cur.automaticTask = automaticTask
      /\ cur.prompt = "none" /\ DOMAIN cur = StateFields
      /\ cur.fNextTurn = fNextTurn
  BY DEF DiscardInv, HistoryInv, Steady, cur, StateFields
<1>2. lMatch \in Seq(Game) /\ plGame \in 0..Len(lMatch)
  <2>1. lMatch \in Seq(Game) /\ plGame \in Nat
    BY <1>1 DEF Told, States
  <2>2. plGame # 0 => plGame <= Len(lMatch)
    BY <1>1 DEF Told, InPlace
  <2>3. QED
    BY <2>1, <2>2
<1>3. Neat(cur, {"none"}) /\ Neat(cur, Answers)
  BY <1>1, <1>2 DEF Neat, DiscardInv, Answers
<1>4. ASSUME HumanTurn PROVE Deciding(cur) /\ Playing(cur)
  <2>1. Playing(cur)
    BY <1>1, <1>4 DEF HumanTurn, Playing
  <2>2. ms.fTurn \in Player
    BY <1>1, <2>1, InHand
  <2>3. ~NoHuman
    BY <1>4, <2>2 DEF HumanTurn, NoHuman
  <2>4. QED
    BY <1>1, <1>3, <2>1, <2>3 DEF Deciding, DiscardInv
<1>5. QED
  BY <1>1, <1>3, <1>4

LEMMA MindsNext ==
    ASSUME NEW t, DiscardInv, HistoryInv', Minds(t)
    PROVE  /\ DiscardInv'
           /\ HumanTurn /\ Discards => prompt' = "yes" \/ TakeAfterNo
<1>1. /\ lMatch' = t.lMatch /\ automaticTask' = t.automaticTask
      /\ prompt' = t.prompt /\ plGame' = t.plGame
      /\ plLastMove' = t.plLastMove
  BY DEF Minds, Install
<1>2. Concluded(lMatch') /\ (automaticTask' => NoHuman)
  BY <1>1 DEF Minds, Neat
<1>3. DiscardInv'
  BY <1>2 DEF DiscardInv, Concluded, Over, NoHuman
<1>4. cur.lMatch = lMatch /\ cur.plLastMove = plLastMove
  BY DEF cur
<1>5. Discards <=> Loses(cur.lMatch, t.lMatch)
  BY <1>1, <1>4 DEF Discards, Loses
<1>6. TakenAnyway(cur, t) => TakeAfterNo
  BY <1>1, <1>4 DEF TakenAnyway, TakeAfterNo
<1>7. QED
  BY <1>1, <1>3, <1>5, <1>6 DEF Minds, Permitted

(* The commands of play. *)
LEMMA PlayMinds ==
    ASSUME DiscardInv, PlayCommand
    PROVE  \E t : Minds(t)
<1>1. /\ Told(cur) /\ Neat(cur, Answers) /\ cur.ms = ms
      /\ HumanTurn => Deciding(cur) /\ Playing(cur)
  BY DiscardNow
<1>2. \A ans \in BOOLEAN : Reply(ans) \in Answers
  BY DEF Reply, Answers
<1>3. ASSUME NEW ans \in BOOLEAN, NEW v
      PROVE  /\ Neat(CommandAgree(cur, FALSE, ans), Answers)
             /\ Neat(CommandDecline(cur, FALSE), Answers)
             /\ Neat(CommandResign(cur, FALSE, v), Answers)
             /\ Neat(CommandRedouble(cur, FALSE, ans), Answers)
             /\ Neat(CommandDouble(cur, FALSE, ans), Answers)
             /\ Neat(CommandTake(cur, FALSE, ans), Answers)
             /\ Neat(CommandDrop(cur, FALSE, ans), Answers)
             /\ Neat(CommandMove(cur, ans, v), Answers)
             /\ Neat(CommandRoll(cur, ans, v), Answers)
  BY <1>1, <1>2, NeatCommand
<1>4. ASSUME NEW ans \in BOOLEAN, HumanTurn
      PROVE  /\ Permitted(cur, CommandAgree(cur, FALSE, ans))
             /\ Permitted(cur, CommandDecline(cur, FALSE))
             /\ Permitted(cur, CommandRedouble(cur, FALSE, ans))
             /\ Permitted(cur, CommandTake(cur, FALSE, ans))
             /\ Permitted(cur, CommandDrop(cur, FALSE, ans))
  <2>1. 0 \in Int
    OBVIOUS
  <2>2. QED
    BY <1>1, <1>4, <2>1, CommandsPermitted
<1>5. CASE DoAgree
  <2>1. PICK ans \in BOOLEAN : Install(CommandAgree(cur, FALSE, ans))
    BY <1>5 DEF DoAgree
  <2>2. QED
    BY <1>3, <1>4, <2>1 DEF Minds
<1>6. CASE DoDecline
  <2>1. TRUE \in BOOLEAN
    OBVIOUS
  <2>2. QED
    BY <1>3, <1>4, <1>6, <2>1 DEF DoDecline, Minds
<1>7. CASE DoResign
  <2>1. PICK v \in ResignArgs : Install(CommandResign(cur, FALSE, v))
    BY <1>7 DEF DoResign
  <2>2. v \in Int /\ TRUE \in BOOLEAN
    BY SettingsAssumption
  <2>3. HumanTurn => Permitted(cur, CommandResign(cur, FALSE, v))
    BY <1>1, <2>2, CommandsPermitted
  <2>4. Neat(CommandResign(cur, FALSE, v), Answers)
    BY <1>3, <2>2
  <2>5. QED
    BY <2>1, <2>3, <2>4 DEF Minds
<1>8. CASE DoDouble
  <2>1. PICK ans \in BOOLEAN : Install(CommandDouble(cur, FALSE, ans))
    BY <1>8 DEF DoDouble
  <2>2. QED
    BY <1>1, <1>3, <2>1, CubePermitted DEF Minds
<1>9. CASE DoRedouble
  <2>1. PICK ans \in BOOLEAN : Install(CommandRedouble(cur, FALSE, ans))
    BY <1>9 DEF DoRedouble
  <2>2. QED
    BY <1>3, <1>4, <2>1 DEF Minds
<1>10. CASE DoTake
  <2>1. PICK ans \in BOOLEAN : Install(CommandTake(cur, FALSE, ans))
    BY <1>10 DEF DoTake
  <2>2. QED
    BY <1>3, <1>4, <2>1 DEF Minds
<1>11. CASE DoDrop
  <2>1. PICK ans \in BOOLEAN : Install(CommandDrop(cur, FALSE, ans))
    BY <1>11 DEF DoDrop
  <2>2. QED
    BY <1>3, <1>4, <2>1 DEF Minds
<1>12. CASE DoAccept
  <2>1. PICK ans \in BOOLEAN : Install(CommandAccept(cur, ans))
    BY <1>12 DEF DoAccept
  <2>2. Neat(CommandAccept(cur, ans), Answers)
    BY <1>1, <1>3 DEF CommandAccept
  <2>3. QED
    BY <1>1, <2>1, <2>2, CubePermitted DEF Minds
<1>13. CASE DoReject
  <2>1. PICK ans \in BOOLEAN : Install(CommandReject(cur, ans))
    BY <1>13 DEF DoReject
  <2>2. Neat(CommandReject(cur, ans), Answers)
    BY <1>1, <1>3 DEF CommandReject
  <2>3. QED
    BY <1>1, <2>1, <2>2, CubePermitted DEF Minds
<1>14. CASE DoRoll
  <2>1. PICK ans \in BOOLEAN, o \in RollOutcomes(cur.ms) :
            Install(CommandRoll(cur, ans, o))
    BY <1>1, <1>14 DEF DoRoll
  <2>2. HumanTurn => Permitted(cur, CommandRoll(cur, ans, o))
    BY <1>1, RollPermitted
  <2>3. QED
    BY <1>3, <2>1, <2>2 DEF Minds
<1>15. CASE DoMove
  <2>1. PICK ans \in BOOLEAN, n \in PlayResults(cur.ms) :
            Install(CommandMove(cur, ans, n))
    BY <1>1, <1>15 DEF DoMove
  <2>2. n \in Int
    BY SettingsAssumption DEF PlayResults
  <2>3. HumanTurn => Permitted(cur, CommandMove(cur, ans, n))
    BY <1>1, <2>2, CommandsPermitted
  <2>4. QED
    BY <1>3, <2>1, <2>3 DEF Minds
<1>16. CASE DoPlay
  <2>1. PICK ans \in BOOLEAN : \E t \in CommandPlay(cur, ans) : Install(t)
    BY <1>16 DEF DoPlay
  <2>2. PICK t \in CommandPlay(cur, ans) : Install(t)
    BY <2>1
  <2>3. Neat(t, Answers)
    BY <1>1, <1>2, NeatCommandPlay
  <2>4. t # cur
    BY <2>2 DEF Install
  <2>5. ~HumanTurn
    BY <1>1, <2>4 DEF CommandPlay, HumanTurn
  <2>6. QED
    BY <2>2, <2>3, <2>5 DEF Minds
<1>17. QED
  BY <1>5, <1>6, <1>7, <1>8, <1>9, <1>10, <1>11, <1>12, <1>13, <1>14,
     <1>15, <1>16 DEF PlayCommand

(* Every step. *)
LEMMA DiscardStep ==
    ASSUME CarefulReader, ConfirmNew, DiscardInv, [HNext]_vars
    PROVE  /\ DiscardInv'
           /\ [HumanTurn /\ Discards => prompt' = "yes" \/ TakeAfterNo]_vars
<1>1. /\ Told(cur) /\ Steady(cur) /\ Neat(cur, {"none"}) /\ Neat(cur, Answers)
      /\ cur.ms = ms /\ cur.lMatch = lMatch
      /\ HumanTurn => Deciding(cur) /\ Playing(cur)
      /\ cur.fNextTurn = fNextTurn /\ cur.plGame = plGame
  BY DiscardNow
<1>2. \A ans \in BOOLEAN : Reply(ans) \in Answers
  BY DEF Reply, Answers
<1>3. HistoryInv'
  BY HistoryStep DEF DiscardInv
<1>4. ASSUME \E t : Minds(t)
      PROVE  /\ DiscardInv'
             /\ [HumanTurn /\ Discards => prompt' = "yes" \/ TakeAfterNo]_vars
  BY <1>3, <1>4, MindsNext
<1>5. CASE UNCHANGED vars
  BY <1>3, <1>5 DEF vars, DiscardInv, Concluded, Over, NoHuman
<1>6. CASE PlayCommand
  BY <1>4, <1>6, PlayMinds
<1>7. CASE DoNewGameHere
  <2>1. PICK ans \in BOOLEAN : \E t \in CommandNewGame(cur, ans) : Install(t)
    BY <1>7 DEF DoNewGameHere, DoNewGame
  <2>2. PICK t \in CommandNewGame(cur, ans) : Install(t)
    BY <2>1
  <2>3. ASSUME ~Playing(cur), move_is_last_in_match(cur)
        PROVE  AllOver(cur.lMatch)
    <3>1. plGame = Len(lMatch) \/ ~move_is_last_in_match(cur)
      BY <1>7 DEF DoNewGameHere, CarefulReader
    <3>2. cur.plGame = 0 \/ AtEnd(cur)
      BY <1>1, <2>3, <3>1 DEF move_is_last_in_match, AtEnd
    <3>3. QED
      BY <1>1, <2>3, <3>2, OverAtEnd DEF Neat
  <2>4. Neat(t, Answers)
    BY <1>1, <1>2, <2>3, NeatCommandNewGame
  <2>5. HumanTurn => Permitted(cur, t)
    BY <1>1, NewPermitted
  <2>6. QED
    BY <1>4, <2>2, <2>4, <2>5 DEF Minds
<1>8. CASE DoNewMatch
  <2>1. PICK ans \in BOOLEAN, n \in Lengths :
            \E t \in CommandNewMatch(cur, n, ans) : Install(t)
    BY <1>8 DEF DoNewMatch
  <2>2. PICK t \in CommandNewMatch(cur, n, ans) : Install(t)
    BY <2>1
  <2>3. Neat(t, Answers)
    BY <1>1, <1>2, NeatCommandNewMatch
  <2>4. HumanTurn => Permitted(cur, t)
    BY <1>1, NewPermitted
  <2>5. QED
    BY <1>4, <2>2, <2>3, <2>4 DEF Minds
<1>9. CASE DoNextTurn
  <2>1. PICK ans \in BOOLEAN : \E t \in NextTurn(cur, ans) : Install(t)
    BY <1>9 DEF DoNextTurn
  <2>2. PICK t \in NextTurn(cur, ans) : Install(t)
    BY <2>1
  <2>3. Live(cur)
    BY <1>1, <1>9 DEF DoNextTurn, Steady
  <2>4. Neat(t, Answers)
    BY <1>1, <1>2, <2>3, NeatNextTurn
  <2>5. HumanTurn => Permitted(cur, t)
    BY <1>1, NextTurnPermitted DEF HumanTurn
  <2>6. QED
    BY <1>4, <2>2, <2>4, <2>5 DEF Minds
<1>10. CASE Navigate
  <2>1. PICK t : Install(t) /\ Visits(cur, t)
    BY <1>10, NavigateSteps DEF DiscardInv
  <2>2. lMatch' = lMatch /\ automaticTask' = automaticTask
    BY <1>1, <1>10, <2>1, IdleNavigate DEF Install, Visits
  <2>3. DiscardInv'
    BY <1>3, <2>2 DEF DiscardInv, Concluded, Over, NoHuman
  <2>4. HumanTurn => ~Discards
    <3>1. lMatch \in Seq(Game)
      BY <1>1 DEF Told, States
    <3>2. ~Loses(lMatch, lMatch)
      BY <3>1, GrowsOn, GrowsKeeps
    <3>3. QED
      BY <2>2, <3>2 DEF Discards, Loses
  <2>5. QED
    BY <2>3, <2>4
<1>11. QED
  BY <1>5, <1>6, <1>7, <1>8, <1>9, <1>10 DEF HNext

(* While a human has the turn of a game in progress, no command loses any of
   the records of the match, whatever he navigates to, before he has answered
   yes to the question whether that may be: the records after the current one
   (move_not_last_in_match_ok), and with `confirm new' on those of the game
   and of the match (CommandNewGame, get_input_discard).  The exception is
   CommandTake, which asks and goes on. *)
THEOREM RecordsKeptUnlessAgreed ==
    ASSUME CarefulReader, ConfirmNew
    PROVE  HSpec => DiscardNeedsYes
<1>1. Init => DiscardInv
  <2>1. ASSUME Init PROVE DiscardInv
    <3>1. lMatch = <<>> /\ automaticTask = FALSE
      BY <2>1 DEF Init
    <3>2. Concluded(lMatch)
      BY <3>1 DEF Concluded
    <3>3. QED
      BY <2>1, <3>1, <3>2, HistoryInit DEF DiscardInv
  <2>2. QED
    BY <2>1
<1>2. DiscardInv /\ [HNext]_vars => DiscardInv'
  BY DiscardStep
<1>3. DiscardInv /\ [HNext]_vars
        => [ms.gs = "playing" /\ PlayerType[ms.fTurn] = "human" /\ Discards
              => prompt' = "yes" \/ TakeAfterNo]_vars
  BY DiscardStep DEF HumanTurn
<1>4. QED
  BY <1>1, <1>2, <1>3, PTL DEF HSpec, DiscardNeedsYes
=============================================================================
