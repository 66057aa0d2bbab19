---------------------------- MODULE ReplayProofs ----------------------------
(***************************************************************************)
(* What a game is on record: a list of records each of which may follow    *)
(* the ones before it, so that CalculateBoard gives a sound match state    *)
(* for every part of the game.  Adding a record, with its elisions, keeps  *)
(* it that way, and play and replay agree.                                 *)
(***************************************************************************)
EXTENDS MatchProofs, Induction

(* The hypothesis on the settings: an automatic double that is not shown is
   counted in the GAMEINFO record and not made on the cube (NewGame). *)
DoublesShown == Display \/ ~CubeUse \/ cAutoDoubles = 0

-----------------------------------------------------------------------------
(* The invariant. *)

(* A GAMEINFO record that a game can start from. *)
Start(g) ==
    /\ g \in GameInfo
    /\ g.nMatch > 0 => \A p \in Player : g.anScore[p] < g.nMatch
    /\ g.i <= g.anScore[0] + g.anScore[1]
    /\ g.fCrawfordGame => AutoCrawford /\ g.nMatch > 1 /\ g.nAutoDoubles = 0
    /\ 2 ^ g.nAutoDoubles \in CubeValues

(* What play and a replay of it have in common: in a game the position, the
   cube and who is on roll, after it the score. *)
Same(m, n) ==
    /\ n.gs = m.gs /\ n.anScore = m.anScore /\ n.cGames = m.cGames
    /\ n.nMatchTo = m.nMatchTo /\ n.nCube = m.nCube
    /\ m.gs = "playing" =>
          /\ n.side = m.side /\ n.st = m.st /\ n.fMove = m.fMove
          /\ n.fDoubled = m.fDoubled /\ n.fCubeOwner = m.fCubeOwner
          /\ n.cBeavers = m.cBeavers /\ n.fCrawford = m.fCrawford

(* The records that may follow match state m of a game in progress. *)
Allowed(m, r) ==
    \/ /\ r.mt \in {"normal", "setdice"} /\ ~m.fDoubled
       /\ r = Rec(r.mt, m.fTurn, r.v) /\ r.v \in 0..3
       /\ r.mt = "setdice" => r.v = 0
    \/ /\ r = Rec("double", m.fTurn, 0) /\ ~m.fDoubled /\ ~m.fCrawford
       /\ m.fCubeOwner \in {NoOne, m.fMove} /\ m.nCube < MAX_CUBE
    \/ /\ r = Rec("double", m.fTurn, 0) /\ m.fDoubled /\ m.nMatchTo = 0
       /\ m.cBeavers < nBeavers /\ m.nCube < MAX_CUBE \div 2
    \/ r \in {Rec("take", m.fTurn, 0), Rec("drop", m.fTurn, 0)} /\ m.fDoubled
    \/ r = Rec("resign", r.fPlayer, r.v) /\ r.fPlayer \in Player /\ r.v \in 1..3

(* The records a game may open with: the roll that starts it, the play that
   takes its place, or a resignation before the play. *)
Opener(r, p) ==
    \/ r = Rec("setdice", p, 0)
    \/ r = Rec("normal", p, r.v) /\ r.v \in 0..3
    \/ r = Rec("resign", p, r.v) /\ r.v \in 1..3

(* Game gm up to its n-th record, and the state that the first n records
   lead to, whatever follows them. *)
Upto(gm, n) == [info |-> gm.info, recs |-> SubSeq(gm.recs, 1, n)]
After(gm, n) == CalculateBoard(Upto(gm, n), n)

(* Every record of a game is one that may follow the ones before it, the
   game goes on until the last one, and a replay finds the GAMEINFO record
   as the game has left it. *)
Plays(gm) ==
    /\ gm \in Game /\ Start(gm.info)
    /\ gm.recs # <<>> => Opener(gm.recs[1], gm.recs[1].fPlayer)
    /\ \A n \in 1..Len(gm.recs) :
          LET t == After(gm, n)
          IN  /\ Sound(t.ms) /\ Fits(t.ms, gm.info) /\ t.info = gm.info
              /\ t.ms.gs # "none" /\ (t.ms.gs = "playing" => t.ms.fResigned = 0)
              /\ n < Len(gm.recs) =>
                    t.ms.gs = "playing" /\ Allowed(t.ms, gm.recs[n + 1])

-----------------------------------------------------------------------------
(* CalculateBoard, record by record. *)

(* One step of a replay. *)
Replayed(t, gm, k) ==
    LET u == ApplyMoveRecord(t.ms, t.info, gm.recs[k])
    IN  [u EXCEPT !.ms = FixForNext(@, gm.recs, k)]

(* The replay of n + 1 records is one step from the replay of n. *)
LEMMA CalculateBoardDef ==
    ASSUME NEW gm
    PROVE  /\ CalculateBoard(gm, 0) =
                 [ms |-> FixForNext(ApplyGameInfo(gm.info), gm.recs, 0),
                  info |-> gm.info]
           /\ \A n \in Nat :
                 CalculateBoard(gm, n + 1)
                   = Replayed(CalculateBoard(gm, n), gm, n + 1)
<1> DEFINE First == [ms |-> FixForNext(ApplyGameInfo(gm.info), gm.recs, 0),
                     info |-> gm.info]
           Onward(t, k) == Replayed(t, gm, k)
           Is0(f, n) == f = [k \in 0..n |-> IF k = 0 THEN First ELSE Onward(f[k - 1], k)]
           S == {n \in Nat : \E f : Is0(f, n)}
           h(n) == CHOOSE f : Is0(f, n)
<1>0. ASSUME NEW n PROVE CalculateBoard(gm, n) = h(n)[n]
  BY DEF CalculateBoard, Replayed
<1> HIDE DEF First, Onward
<1>1. 0 \in S
  <2> DEFINE g == [k \in 0..0 |-> First]
  <2>1. g = [k \in 0..0 |-> IF k = 0 THEN First ELSE Onward(g[k - 1], k)]
    OBVIOUS
  <2>2. QED
    BY <2>1
<1>2. ASSUME NEW n \in Nat, n \in S PROVE n + 1 \in S
  <2>1. PICK f : f = [k \in 0..n |-> IF k = 0 THEN First ELSE Onward(f[k - 1], k)]
    BY <1>2
  <2> DEFINE g == [k \in 0..(n + 1) |-> IF k <= n THEN f[k] ELSE Onward(f[n], n + 1)]
  <2>2. \A k \in 0..(n + 1) : g[k] = IF k = 0 THEN First ELSE Onward(g[k - 1], k)
    BY <2>1
  <2>3. g = [k \in 0..(n + 1) |-> IF k = 0 THEN First ELSE Onward(g[k - 1], k)]
    BY <2>2
  <2> HIDE DEF g
  <2>4. QED
    BY <2>3
<1> HIDE DEF S
<1>3. \A n \in Nat : n \in S
  BY <1>1, <1>2, Induct
<1>4. ASSUME NEW n \in Nat PROVE Is0(h(n), n)
  BY <1>3 DEF S
<1> HIDE DEF h
<1>5. ASSUME NEW n \in Nat
      PROVE  h(n)[0] = First /\ \A k \in 1..n : h(n)[k] = Onward(h(n)[k - 1], k)
  BY <1>4
<1> HIDE DEF Is0
<1>6. ASSUME NEW n \in Nat PROVE h(n + 1)[n] = h(n)[n]
  <2> DEFINE g == h(n)
             f == h(n + 1)
             T == {k \in Nat : k <= n => f[k] = g[k]}
  <2>1. g[0] = First /\ \A k \in 1..n : g[k] = Onward(g[k - 1], k)
    BY <1>5
  <2>2. f[0] = First /\ \A k \in 1..(n + 1) : f[k] = Onward(f[k - 1], k)
    <3>1. n + 1 \in Nat
      OBVIOUS
    <3>2. QED
      BY <1>5, <3>1
  <2> HIDE DEF g, f
  <2>3. 0 \in T
    BY <2>1, <2>2
  <2>4. ASSUME NEW k \in Nat, k \in T PROVE k + 1 \in T
    <3> SUFFICES ASSUME k + 1 <= n PROVE f[k + 1] = g[k + 1]
      OBVIOUS
    <3>1. /\ k + 1 \in 1..n /\ k + 1 \in 1..(n + 1) /\ (k + 1) - 1 = k
          /\ k <= n
      OBVIOUS
    <3>2. f[k] = g[k]
      BY <2>4, <3>1
    <3>3. QED
      BY <2>1, <2>2, <3>1, <3>2
  <2> HIDE DEF T
  <2>5. n \in T
    BY <2>3, <2>4, Induct
  <2>6. QED
    BY <2>5 DEF T, f, g
<1>7. CalculateBoard(gm, 0) = First
  BY <1>0, <1>5
<1>8. ASSUME NEW n \in Nat
      PROVE  CalculateBoard(gm, n + 1) = Onward(CalculateBoard(gm, n), n + 1)
  <2>1. n + 1 \in Nat /\ n + 1 \in 1..(n + 1) /\ (n + 1) - 1 = n
    OBVIOUS
  <2>2. h(n + 1)[n + 1] = Onward(h(n + 1)[n], n + 1)
    BY <1>5, <2>1
  <2>3. QED
    BY <1>0, <1>6, <2>2
<1>9. QED
  BY <1>7, <1>8 DEF First, Onward

(* The result of a record is a match state and a GAMEINFO record. *)
LEMMA Shape ==
    ASSUME NEW m, NEW g, NEW r
    PROVE  LET u == ApplyMoveRecord(m, g, r)
           IN  /\ u = [ms |-> u.ms, info |-> u.info]
               /\ [u EXCEPT !.ms = u.ms] = u
<1> DEFINE Pair(u) == \E x, y : u = [ms |-> x, info |-> y]
           f == Fresh(m)
<1>1. \A d, gs, w, n : Pair(ApplyGameOver(d, g, gs, w, n))
  BY DEF ApplyGameOver
<1>2. Pair(ApplyNormal(f, g, r)) /\ Pair(ApplyDrop(f, g, r)) /\ Pair(ApplyResign(f, g, r))
  <2> HIDE DEF f
  <2>1. Pair(ApplyDrop(f, g, r)) /\ Pair(ApplyResign(f, g, r))
    <3> HIDE DEF Pair
    <3> QED
      BY <1>1 DEF ApplyDrop, ApplyResign
  <2>2. Pair(ApplyNormal(f, g, r))
    <3> DEFINE t == [PlayMove([f EXCEPT !.fDoubled = FALSE], r) EXCEPT !.dice = FALSE]
    <3>1. ApplyNormal(f, g, r) = IF t.st = 0 THEN [ms |-> t, info |-> g]
            ELSE ApplyGameOver(t, g, "over", r.fPlayer, t.nCube * GameValue(t, t.st))
      BY DEF ApplyNormal
    <3> HIDE DEF t
    <3>2. Pair([ms |-> t, info |-> g])
      OBVIOUS
    <3> HIDE DEF Pair
    <3> QED
      BY <1>1, <3>1, <3>2
  <2>3. QED
    BY <2>1, <2>2
<1>3. \A x : Pair([ms |-> x, info |-> g])
  OBVIOUS
<1>4. Pair(ApplyMoveRecord(m, g, r))
  <2> HIDE DEF Pair
  <2>1. ApplyMoveRecord(m, g, r) =
         CASE r.mt = "double"   -> [ms |-> ApplyDouble(f, r), info |-> g]
           [] r.mt = "take"     -> [ms |-> IF f.fDoubled THEN ApplyTake(f) ELSE f, info |-> g]
           [] r.mt = "drop"     -> IF f.fDoubled THEN ApplyDrop(f, g, r)
                                                 ELSE [ms |-> f, info |-> g]
           [] r.mt = "normal"   -> ApplyNormal(f, g, r)
           [] r.mt = "resign"   -> ApplyResign(f, g, r)
           [] r.mt = "setboard" -> [ms |-> ApplySetBoard(f, r), info |-> g]
           [] r.mt = "setdice"  -> [ms |-> ApplySetDice(f, r), info |-> g]
           [] OTHER             -> [ms |-> ApplySetCube(f, r), info |-> g]
    BY DEF ApplyMoveRecord, Fresh
  <2> HIDE DEF f
  <2>2. QED
    BY <1>2, <1>3, <2>1
<1>5. QED
  BY <1>4

(* What a part of a game has of the game. *)
LEMMA UptoFields ==
    ASSUME NEW gm \in Game, NEW n \in 0..Len(gm.recs)
    PROVE  /\ Len(gm.recs) \in Nat /\ gm.info \in GameInfo
           /\ gm.recs \in Seq(Record)
           /\ Upto(gm, n).info = gm.info /\ Len(Upto(gm, n).recs) = n
           /\ \A k \in 1..n : Upto(gm, n).recs[k] = gm.recs[k] /\ gm.recs[k] \in Record
<1>1. gm.recs \in Seq(Record) /\ gm.info \in GameInfo
  BY DEF Game
<1>2. QED
  BY <1>1 DEF Upto

(* A replay does not look further than one record ahead. *)
LEMMA SamePrefix ==
    ASSUME NEW gm \in Game, NEW n \in 0..Len(gm.recs)
    PROVE  \A k \in Nat : k < n =>
               CalculateBoard(Upto(gm, n), k) = CalculateBoard(gm, k)
<1> DEFINE h == Upto(gm, n)
           S == {k \in Nat : k < n => CalculateBoard(h, k) = CalculateBoard(gm, k)}
<1>0. /\ Len(gm.recs) \in Nat /\ h.info = gm.info /\ Len(h.recs) = n /\ n \in Nat
      /\ n <= Len(gm.recs)
      /\ \A k \in 1..n : h.recs[k] = gm.recs[k]
  BY UptoFields
<1> HIDE DEF h
<1>1. ASSUME NEW m, NEW k \in Nat, k < n
      PROVE  FixForNext(m, h.recs, k) = FixForNext(m, gm.recs, k)
  <2>1. k < Len(gm.recs) /\ k < Len(h.recs) /\ k + 1 \in 1..n
    BY <1>0, <1>1
  <2>2. QED
    BY <1>0, <2>1 DEF FixForNext
<1>2. 0 \in S
  <2>1. SUFFICES ASSUME 0 < n PROVE CalculateBoard(h, 0) = CalculateBoard(gm, 0)
    OBVIOUS
  <2>2. /\ CalculateBoard(h, 0) = [ms |-> FixForNext(ApplyGameInfo(h.info), h.recs, 0),
                                  info |-> h.info]
        /\ CalculateBoard(gm, 0) = [ms |-> FixForNext(ApplyGameInfo(gm.info), gm.recs, 0),
                                  info |-> gm.info]
    BY CalculateBoardDef
  <2>3. FixForNext(ApplyGameInfo(gm.info), h.recs, 0)
          = FixForNext(ApplyGameInfo(gm.info), gm.recs, 0)
    BY <1>1, <2>1
  <2>4. QED
    BY <1>0, <2>2, <2>3
<1>3. ASSUME NEW k \in Nat, k \in S PROVE k + 1 \in S
  <2>1. SUFFICES ASSUME k + 1 < n
                 PROVE CalculateBoard(h, k + 1) = CalculateBoard(gm, k + 1)
    OBVIOUS
  <2>2. CalculateBoard(h, k) = CalculateBoard(gm, k)
    BY <1>0, <1>3, <2>1
  <2> DEFINE t == CalculateBoard(gm, k)
             u == ApplyMoveRecord(t.ms, t.info, gm.recs[k + 1])
  <2>3. /\ CalculateBoard(h, k + 1) = Replayed(t, h, k + 1)
        /\ CalculateBoard(gm, k + 1) = Replayed(t, gm, k + 1)
    BY <2>2, CalculateBoardDef
  <2>4. h.recs[k + 1] = gm.recs[k + 1]
    BY <1>0, <2>1
  <2> HIDE DEF t
  <2>5. FixForNext(u.ms, h.recs, k + 1) = FixForNext(u.ms, gm.recs, k + 1)
    BY <1>1, <2>1
  <2>6. QED
    BY <2>3, <2>4, <2>5 DEF Replayed
<1> HIDE DEF S
<1>4. \A k \in Nat : k \in S
  BY <1>2, <1>3, Induct
<1>5. QED
  BY <1>4 DEF S, h

(* The states that the records lead to, and what CalculateBoard makes of
   them: it looks at the next record too. *)
LEMMA AfterDef ==
    ASSUME NEW gm \in Game
    PROVE  /\ After(gm, 0) = [ms |-> ApplyGameInfo(gm.info), info |-> gm.info]
           /\ \A n \in Nat : n < Len(gm.recs) =>
                 After(gm, n + 1)
                   = Applied(After(gm, n).ms, After(gm, n).info, gm.recs[n + 1])
           /\ \A n \in 0..Len(gm.recs) :
                 CalculateBoard(gm, n)
                   = [ms |-> FixForNext(After(gm, n).ms, gm.recs, n),
                      info |-> After(gm, n).info]
<1>0. Len(gm.recs) \in Nat
  BY DEF Game
<1>1. After(gm, 0) = [ms |-> ApplyGameInfo(gm.info), info |-> gm.info]
  <2>1. Upto(gm, 0).info = gm.info /\ Len(Upto(gm, 0).recs) = 0
    BY <1>0, UptoFields
  <2>2. QED
    BY <2>1, CalculateBoardDef DEF After, FixForNext
<1>2. ASSUME NEW n \in Nat, n < Len(gm.recs)
      PROVE  LET t == CalculateBoard(gm, n)
             IN  After(gm, n + 1) = ApplyMoveRecord(t.ms, t.info, gm.recs[n + 1])
  <2> DEFINE h == Upto(gm, n + 1)
             t == CalculateBoard(gm, n)
             u == ApplyMoveRecord(t.ms, t.info, gm.recs[n + 1])
  <2>0. n + 1 \in 0..Len(gm.recs) /\ n + 1 \in Nat /\ n < n + 1 /\ n + 1 \in 1..(n + 1)
    BY <1>0, <1>2
  <2>1. Len(h.recs) = n + 1 /\ h.recs[n + 1] = gm.recs[n + 1]
    BY <2>0, UptoFields
  <2>2. CalculateBoard(h, n) = t
    BY <2>0, SamePrefix
  <2>3. CalculateBoard(h, n + 1) = Replayed(t, h, n + 1)
    BY <2>2, CalculateBoardDef
  <2> HIDE DEF h, t
  <2>4. Replayed(t, h, n + 1) = [u EXCEPT !.ms = FixForNext(u.ms, h.recs, n + 1)]
    BY <2>1 DEF Replayed
  <2>5. FixForNext(u.ms, h.recs, n + 1) = u.ms
    BY <2>0, <2>1 DEF FixForNext
  <2>6. [u EXCEPT !.ms = u.ms] = u
    BY Shape
  <2>7. QED
    BY <2>3, <2>4, <2>5, <2>6 DEF After, h, t
<1>3. ASSUME NEW n \in 0..Len(gm.recs)
      PROVE  CalculateBoard(gm, n)
                   = [ms |-> FixForNext(After(gm, n).ms, gm.recs, n),
                      info |-> After(gm, n).info]
  <2>1. CASE n = 0
    BY <1>1, <2>1, CalculateBoardDef
  <2>2. CASE n # 0
    <3>1. /\ n - 1 \in Nat /\ n - 1 < Len(gm.recs) /\ (n - 1) + 1 = n
      BY <1>0, <2>2
    <3> DEFINE t == CalculateBoard(gm, n - 1)
               u == ApplyMoveRecord(t.ms, t.info, gm.recs[n])
    <3>2. CalculateBoard(gm, n) = Replayed(t, gm, n)
      BY <3>1, CalculateBoardDef
    <3>3. After(gm, n) = u
      BY <1>2, <3>1
    <3> HIDE DEF t
    <3>4. Replayed(t, gm, n) = [u EXCEPT !.ms = FixForNext(u.ms, gm.recs, n)]
      BY DEF Replayed
    <3>5. u = [ms |-> u.ms, info |-> u.info]
      BY Shape
    <3> HIDE DEF u
    <3>6. [u EXCEPT !.ms = FixForNext(u.ms, gm.recs, n)]
            = [ms |-> FixForNext(u.ms, gm.recs, n), info |-> u.info]
      BY <3>5
    <3>7. QED
      BY <3>2, <3>3, <3>4, <3>6
  <2>3. QED
    BY <2>1, <2>2
<1>4. ASSUME NEW n \in Nat, n < Len(gm.recs)
      PROVE  After(gm, n + 1)
               = Applied(After(gm, n).ms, After(gm, n).info, gm.recs[n + 1])
  <2>1. n \in 0..Len(gm.recs)
    BY <1>0, <1>4
  <2>2. FixForNext(After(gm, n).ms, gm.recs, n)
          = FixMatchState(After(gm, n).ms, gm.recs[n + 1])
    BY <1>4 DEF FixForNext
  <2>3. /\ CalculateBoard(gm, n).ms = FixMatchState(After(gm, n).ms, gm.recs[n + 1])
        /\ CalculateBoard(gm, n).info = After(gm, n).info
    BY <1>3, <2>1, <2>2
  <2>4. QED
    BY <1>2, <1>4, <2>3 DEF Applied
<1>5. QED
  BY <1>1, <1>3, <1>4


-----------------------------------------------------------------------------
(* What a record does to the GAMEINFO record. *)

(* Record r leaves the GAMEINFO record alone, or ends the game: in both cases
   in a way that does not depend on it. *)
Goes(m, r) ==
    \E t : \A g : ApplyMoveRecord(m, g, r) = [ms |-> t, info |-> g]
Ends(m, r) ==
    \E d \in MatchStates, gs \in {"over", "drop", "resigned"} :
        \E w, n : \A g : ApplyMoveRecord(m, g, r) = ApplyGameOver(d, g, gs, w, n)

(* Every record that may be added does one of the two. *)
LEMMA GoesOrEnds ==
    ASSUME NEW m \in MatchStates, NEW r \in Record, r.mt = "normal" => r.v \in 0..3,
           r.mt = "resign" => r.v \in 1..3
    PROVE  Goes(m, r) \/ Ends(m, r)
<1> DEFINE f == Fresh(m)
<1>0. f \in MatchStates
  BY FreshFields
<1>1. r.mt \in MoveType /\ r.fPlayer \in Player
  BY DEF Record
<1>2. \A g : ApplyMoveRecord(m, g, r) =
         CASE r.mt = "double"   -> [ms |-> ApplyDouble(f, r), info |-> g]
           [] r.mt = "take"     -> [ms |-> IF f.fDoubled THEN ApplyTake(f) ELSE f, info |-> g]
           [] r.mt = "drop"     -> IF f.fDoubled THEN ApplyDrop(f, g, r)
                                                 ELSE [ms |-> f, info |-> g]
           [] r.mt = "normal"   -> ApplyNormal(f, g, r)
           [] r.mt = "resign"   -> ApplyResign(f, g, r)
           [] r.mt = "setboard" -> [ms |-> ApplySetBoard(f, r), info |-> g]
           [] r.mt = "setdice"  -> [ms |-> ApplySetDice(f, r), info |-> g]
           [] OTHER             -> [ms |-> ApplySetCube(f, r), info |-> g]
  BY DEF ApplyMoveRecord, Fresh
<1> HIDE DEF f
<1>3. CASE r.mt = "double"
  BY <1>2, <1>3 DEF Goes
<1>4. CASE r.mt = "take"
  BY <1>2, <1>4 DEF Goes
<1>5. CASE r.mt = "setboard"
  BY <1>2, <1>5 DEF Goes
<1>6. CASE r.mt = "setdice"
  BY <1>2, <1>6 DEF Goes
<1>7. CASE r.mt \in {"setcubeval", "setcubepos"}
  BY <1>2, <1>7 DEF Goes
<1>8. CASE r.mt = "drop" /\ ~f.fDoubled
  BY <1>2, <1>8 DEF Goes
<1>9. CASE r.mt = "drop" /\ f.fDoubled
  <2> DEFINE d == [f EXCEPT !.fDoubled = FALSE, !.cBeavers = 0]
  <2>1. d \in MatchStates
    BY <1>0 DEF MatchStates
  <2>2. \A g : ApplyMoveRecord(m, g, r)
                 = ApplyGameOver(d, g, "drop", Other(r.fPlayer), f.nCube)
    BY <1>2, <1>9 DEF ApplyDrop
  <2> HIDE DEF d
  <2>3. QED
    BY <2>1, <2>2 DEF Ends
<1>10. CASE r.mt = "resign"
  <2> DEFINE d == [f EXCEPT !.fResigned = r.v]
  <2>1. d \in MatchStates
    <3>1. r.v \in -1..3
      BY <1>10
    <3>2. QED
      BY <1>0, <3>1 DEF MatchStates
  <2>2. \A g : ApplyMoveRecord(m, g, r)
                 = ApplyGameOver(d, g, "resigned", Other(r.fPlayer), f.nCube * r.v)
    BY <1>2, <1>10 DEF ApplyResign
  <2> HIDE DEF d
  <2>3. QED
    BY <2>1, <2>2 DEF Ends
<1>11. CASE r.mt = "normal"
  <2> DEFINE e == [f EXCEPT !.fDoubled = FALSE]
             t == [PlayMove(e, r) EXCEPT !.dice = FALSE]
  <2>1. e \in MatchStates
    BY <1>0 DEF MatchStates
  <2> HIDE DEF e
  <2>2. PlayMove(e, r) \in MatchStates
    <3> DEFINE turned == IF e.fMove # NoOne /\ r.fPlayer # e.fMove
                         THEN SwapSides(e.side) ELSE e.side
               seen == IF turned = NoOne THEN r.fPlayer ELSE turned
    <3>1. e.side \in Player \cup {NoOne}
      BY <2>1, Fields
    <3>2. turned \in Player \cup {NoOne}
      BY <3>1, Players DEF SwapSides
    <3>3. Other(seen) \in Player \cup {NoOne} /\ Other(r.fPlayer) \in Player \cup {NoOne}
      BY <1>1, <3>2, Players
    <3>4. r.v \in 0..3
      BY <1>11
    <3>5. PlayMove(e, r) = [e EXCEPT !.side = Other(seen), !.st = r.v,
                                     !.fMove = Other(r.fPlayer),
                                     !.fTurn = Other(r.fPlayer)]
      BY DEF PlayMove
    <3> HIDE DEF seen
    <3>6. QED
      BY <2>1, <3>3, <3>4, <3>5 DEF MatchStates
  <2>3. t \in MatchStates
    BY <2>2 DEF MatchStates
  <2>4. \A g : ApplyMoveRecord(m, g, r) =
           IF t.st = 0 THEN [ms |-> t, info |-> g]
           ELSE ApplyGameOver(t, g, "over", r.fPlayer, t.nCube * GameValue(t, t.st))
    BY <1>2, <1>11 DEF ApplyNormal, e
  <2> HIDE DEF t
  <2>5. QED
    BY <2>3, <2>4 DEF Goes, Ends
<1>12. QED
  BY <1>1, <1>3, <1>4, <1>5, <1>6, <1>7, <1>8, <1>9, <1>10, <1>11 DEF MoveType

(* Hence the match state does not depend on the GAMEINFO record, a second
   replay finds what the first one wrote, and the start of the game stays. *)
LEMMA InfoKept ==
    ASSUME NEW m \in MatchStates, NEW r \in Record, r.mt = "normal" => r.v \in 0..3,
           r.mt = "resign" => r.v \in 1..3, NEW g \in GameInfo, NEW h \in GameInfo
    PROVE  LET u == ApplyMoveRecord(m, g, r)
           IN  /\ ApplyMoveRecord(m, h, r).ms = u.ms
               /\ ApplyMoveRecord(m, u.info, r) = u
               /\ ApplyGameInfo(u.info) = ApplyGameInfo(g)
               /\ u.info.nAutoDoubles = g.nAutoDoubles
               /\ u.ms.gs = "playing" => u.info = g
<1>1. CASE Goes(m, r)
  BY <1>1 DEF Goes
<1>2. CASE Ends(m, r)
  <2>0. PICK d \in MatchStates, gs \in {"over", "drop", "resigned"} :
            \E w, n : \A e : ApplyMoveRecord(m, e, r) = ApplyGameOver(d, e, gs, w, n)
    BY <1>2 DEF Ends
  <2>1. PICK w, n :
            \A e : ApplyMoveRecord(m, e, r) = ApplyGameOver(d, e, gs, w, n)
    BY <2>0
  <2> DEFINE t == [d EXCEPT !.gs = gs, !.cGames = @ + 1, !.anScore[w] = @ + n]
             i(e) == [e EXCEPT !.fWinner = w, !.nPoints = n]
  <2>2. \A e : ApplyMoveRecord(m, e, r) = [ms |-> t, info |-> i(e)]
    BY <2>1 DEF ApplyGameOver
  <2>3. t.gs = gs
    BY DEF MatchStates
  <2> HIDE DEF t
  <2>4. i(i(g)) = i(g)
    BY DEF GameInfo
  <2>5. /\ i(g).nMatch = g.nMatch /\ i(g).anScore = g.anScore /\ i(g).i = g.i
        /\ i(g).nAutoDoubles = g.nAutoDoubles
        /\ i(g).fCrawfordGame = g.fCrawfordGame
    BY DEF GameInfo
  <2> HIDE DEF i
  <2>6. ApplyGameInfo(i(g)) = ApplyGameInfo(g)
    BY <2>5 DEF ApplyGameInfo
  <2>7. QED
    BY <2>2, <2>3, <2>4, <2>5, <2>6
<1>3. QED
  BY <1>1, <1>2, GoesOrEnds

-----------------------------------------------------------------------------
(* What the records of a game in progress do to the match state. *)

(* What a match state in play starts from, for the lemmas below. *)
InPlayState(m) ==
    m \in MatchStates /\ InGame(m) /\ m.gs = "playing" /\ m.fResigned = 0

(* The match states after a record that keeps the game going: the score and
   the Crawford flag stay, and no resignation is offered. *)
GoesOn(m, t) ==
    /\ t.gs = "playing" /\ t.fResigned = 0
    /\ t.anScore = m.anScore /\ t.cGames = m.cGames
    /\ t.nMatchTo = m.nMatchTo /\ t.fCrawford = m.fCrawford

(* What a record that keeps the game going leads to. *)
Shown(u, m, g, side, mover, doubled, owner, beavers, cube) ==
    /\ u.info = g /\ GoesOn(m, u.ms) /\ u.ms.st = m.st
    /\ u.ms.side = side /\ u.ms.fMove = mover /\ u.ms.fDoubled = doubled
    /\ u.ms.fCubeOwner = owner /\ u.ms.cBeavers = beavers /\ u.ms.nCube = cube

(* The types of what the lemmas look at. *)
LEMMA PlayTypes ==
    ASSUME NEW m, InPlayState(m)
    PROVE  /\ Fresh(m) \in MatchStates /\ m.fMove \in Player
           /\ m.fTurn \in Player /\ m.fTurn = Decider(m)
           /\ m.nCube \in Nat /\ m.nCube >= 1 /\ m.cBeavers \in Nat
           /\ ~m.fDoubled => m.fTurn = m.fMove /\ m.cBeavers = 0
BY FreshFields, Fields, Players, Doubling DEF InPlayState, InGame, Decider

(* A double only puts the cube on offer. *)
LEMMA DoubleEffect ==
    ASSUME NEW m, InPlayState(m), NEW g, ~m.fDoubled, m.nCube < MAX_CUBE
    PROVE  Shown(Applied(m, g, Rec("double", m.fTurn, 0)), m, g,
                 m.side, m.fMove, TRUE, m.fCubeOwner, m.cBeavers, m.nCube)
<1> DEFINE r == Rec("double", m.fTurn, 0)
           f == Fresh(m)
           t == ApplyDouble(f, r)
<1>1. r.mt = "double" /\ r.fPlayer = m.fTurn
  BY DEF Rec
<1>2. Applied(m, g, r) = [ms |-> t, info |-> g]
  BY <1>1 DEF Applied, FixMatchState, ApplyMoveRecord, Fresh
<1>3. ~(m.nCube >= MAX_CUBE) /\ m.fMove # NoOne
  BY PlayTypes, CubeAssumption, Players
<1>4. f \in MatchStates
  BY PlayTypes
<1>5. /\ f.gs = "playing" /\ f.fResigned = 0 /\ f.side = m.side /\ f.st = m.st
      /\ f.fMove = m.fMove /\ f.fDoubled = m.fDoubled /\ f.cGames = m.cGames
      /\ f.fCubeOwner = m.fCubeOwner /\ f.fCrawford = m.fCrawford
      /\ f.nMatchTo = m.nMatchTo /\ f.anScore = m.anScore
      /\ f.nCube = m.nCube /\ f.cBeavers = m.cBeavers
  BY FreshFields DEF InPlayState
<1> HIDE DEF f
<1>6. t = [[f EXCEPT !.fMove = m.fMove] EXCEPT !.fDoubled = TRUE,
                                              !.fTurn = Other(m.fTurn)]
  BY <1>1, <1>3, <1>5 DEF ApplyDouble
<1> HIDE DEF t
<1>7. /\ GoesOn(m, t)
      /\ t.side = m.side /\ t.st = m.st /\ t.fMove = m.fMove
      /\ t.fDoubled = TRUE /\ t.fCubeOwner = m.fCubeOwner
      /\ t.cBeavers = m.cBeavers /\ t.nCube = m.nCube
  BY <1>4, <1>5, <1>6 DEF MatchStates, GoesOn
<1>8. QED
  BY <1>2, <1>7 DEF Shown

(* A beaver turns the cube and gives it to the opponent of the doubler. *)
LEMMA BeaverEffect ==
    ASSUME NEW m, m \in MatchStates, m.fMove \in Player, m.fTurn \in Player,
           NEW g, m.fDoubled, m.nCube < MAX_CUBE
    PROVE  Shown(Applied(m, g, Rec("double", m.fTurn, 0)), m, g,
                 m.side, m.fMove, TRUE, Other(m.fMove), m.cBeavers + 1, 2 * m.nCube)
<1> DEFINE r == Rec("double", m.fTurn, 0)
           f == Fresh(m)
           t == ApplyDouble(f, r)
<1>1. r.mt = "double" /\ r.fPlayer = m.fTurn
  BY DEF Rec
<1>2. Applied(m, g, r) = [ms |-> t, info |-> g]
  BY <1>1 DEF Applied, FixMatchState, ApplyMoveRecord, Fresh
<1>3. ~(m.nCube >= MAX_CUBE) /\ m.fMove # NoOne
  <2>1. m.nCube \in Nat
    BY Fields, Doubling
  <2>2. QED
    BY <2>1, CubeAssumption, Players
<1>4. f \in MatchStates
  BY FreshFields
<1>5. /\ f.gs = "playing" /\ f.fResigned = 0 /\ f.side = m.side /\ f.st = m.st
      /\ f.fMove = m.fMove /\ f.fDoubled = m.fDoubled /\ f.cGames = m.cGames
      /\ f.fCubeOwner = m.fCubeOwner /\ f.fCrawford = m.fCrawford
      /\ f.nMatchTo = m.nMatchTo /\ f.anScore = m.anScore
      /\ f.nCube = m.nCube /\ f.cBeavers = m.cBeavers
  BY FreshFields
<1> HIDE DEF f
<1>6. t = [[f EXCEPT !.fMove = m.fMove] EXCEPT
              !.cBeavers = m.cBeavers + 1, !.nCube = 2 * m.nCube,
              !.fCubeOwner = Other(m.fMove), !.fTurn = Other(m.fTurn)]
  <2>1. [f EXCEPT !.fMove = m.fMove] = f
    BY <1>4, <1>5 DEF MatchStates
  <2>2. QED
    BY <1>1, <1>3, <1>5, <2>1 DEF ApplyDouble
<1> HIDE DEF t
<1>7. /\ GoesOn(m, t)
      /\ t.side = m.side /\ t.st = m.st /\ t.fMove = m.fMove
      /\ t.fDoubled = TRUE /\ t.fCubeOwner = Other(m.fMove)
      /\ t.cBeavers = m.cBeavers + 1 /\ t.nCube = 2 * m.nCube
  BY <1>4, <1>5, <1>6 DEF MatchStates, GoesOn
<1>8. QED
  BY <1>2, <1>7 DEF Shown

(* A take turns the cube and settles it. *)
LEMMA TakeEffect ==
    ASSUME NEW m, InPlayState(m), NEW g, m.fDoubled, NEW p
    PROVE  Shown(Applied(m, g, Rec("take", p, 0)), m, g,
                 m.side, m.fMove, FALSE, Other(m.fMove), 0, 2 * m.nCube)
<1> DEFINE r == Rec("take", p, 0)
           f == Fresh(m)
           t == ApplyTake(f)
<1>1. r.mt = "take"
  BY DEF Rec
<1>2. f.fDoubled = m.fDoubled
  BY FreshFields DEF InPlayState
<1>3. Applied(m, g, r) = [ms |-> t, info |-> g]
  BY <1>1, <1>2 DEF Applied, FixMatchState, ApplyMoveRecord, Fresh
<1>4. f \in MatchStates
  BY PlayTypes
<1>5. /\ f.gs = "playing" /\ f.fResigned = 0 /\ f.side = m.side /\ f.st = m.st
      /\ f.fMove = m.fMove /\ f.cGames = m.cGames
      /\ f.fCrawford = m.fCrawford
      /\ f.nMatchTo = m.nMatchTo /\ f.anScore = m.anScore
      /\ f.nCube = m.nCube
  BY FreshFields DEF InPlayState
<1> HIDE DEF f
<1>6. /\ GoesOn(m, t)
      /\ t.side = m.side /\ t.st = m.st /\ t.fMove = m.fMove
      /\ t.fDoubled = FALSE /\ t.fCubeOwner = Other(m.fMove)
      /\ t.cBeavers = 0 /\ t.nCube = 2 * m.nCube
  BY <1>4, <1>5 DEF ApplyTake, MatchStates, GoesOn
<1>7. QED
  BY <1>3, <1>6 DEF Shown

(* A roll by the player on roll changes none of this. *)
LEMMA RollEffect ==
    ASSUME NEW m, InPlayState(m), NEW g, ~m.fDoubled
    PROVE  Shown(Applied(m, g, Rec("setdice", m.fTurn, 0)), m, g,
                 m.side, m.fMove, FALSE, m.fCubeOwner, m.cBeavers, m.nCube)
<1> DEFINE r == Rec("setdice", m.fTurn, 0)
           f == Fresh(m)
           t == ApplySetDice(f, r)
<1>1. r.mt = "setdice" /\ r.fPlayer = m.fTurn /\ m.fTurn = m.fMove
  BY PlayTypes DEF Rec
<1>2. Applied(m, g, r) = [ms |-> t, info |-> g]
  BY <1>1 DEF Applied, FixMatchState, ApplyMoveRecord, Fresh
<1>3. f \in MatchStates
  BY PlayTypes
<1>4. /\ f.gs = "playing" /\ f.fResigned = 0 /\ f.side = m.side /\ f.st = m.st
      /\ f.fMove = m.fMove /\ f.cGames = m.cGames
      /\ f.fCubeOwner = m.fCubeOwner /\ f.fCrawford = m.fCrawford
      /\ f.nMatchTo = m.nMatchTo /\ f.anScore = m.anScore
      /\ f.nCube = m.nCube /\ f.cBeavers = m.cBeavers
  BY FreshFields DEF InPlayState
<1> HIDE DEF f
<1>5. t = [f EXCEPT !.dice = TRUE, !.fDoubled = FALSE, !.side = m.side,
                    !.fTurn = m.fTurn, !.fMove = m.fTurn]
  BY <1>1, <1>4 DEF ApplySetDice
<1> HIDE DEF t
<1>6. /\ GoesOn(m, t)
      /\ t.side = m.side /\ t.st = m.st /\ t.fMove = m.fMove
      /\ t.fDoubled = FALSE /\ t.fCubeOwner = m.fCubeOwner
      /\ t.cBeavers = m.cBeavers /\ t.nCube = m.nCube
  BY <1>1, <1>3, <1>4, <1>5 DEF MatchStates, GoesOn
<1>7. QED
  BY <1>2, <1>6 DEF Shown

(* The end of a game in match state m: w gets n points. *)
Finished(m, g, u, gs, w, n) ==
    /\ u.info = [g EXCEPT !.fWinner = w, !.nPoints = n]
    /\ u.ms.gs = gs /\ u.ms.cGames = m.cGames + 1
    /\ u.ms.anScore = [m.anScore EXCEPT ![w] = @ + n]
    /\ u.ms.nMatchTo = m.nMatchTo /\ u.ms.nCube = m.nCube

(* ApplyGameOver changes nothing else. *)
LEMMA OverEffect ==
    ASSUME NEW m, NEW d \in MatchStates, NEW g, NEW gs, NEW w, NEW n,
           d.anScore = m.anScore, d.cGames = m.cGames,
           d.nMatchTo = m.nMatchTo, d.nCube = m.nCube
    PROVE  Finished(m, g, ApplyGameOver(d, g, gs, w, n), gs, w, n)
<1> DEFINE t == [d EXCEPT !.gs = gs, !.cGames = @ + 1, !.anScore[w] = @ + n]
<1>1. /\ t.gs = gs /\ t.cGames = d.cGames + 1
      /\ t.anScore = [d.anScore EXCEPT ![w] = @ + n]
      /\ t.nMatchTo = d.nMatchTo /\ t.nCube = d.nCube
  BY DEF MatchStates
<1>2. ApplyGameOver(d, g, gs, w, n)
        = [ms |-> t, info |-> [g EXCEPT !.fWinner = w, !.nPoints = n]]
  BY DEF ApplyGameOver
<1> HIDE DEF t
<1>3. QED
  BY <1>1, <1>2 DEF Finished

(* A resignation ends the game for the opponent of the player who resigns. *)
LEMMA ResignEffect ==
    ASSUME NEW m \in MatchStates, NEW g, NEW p, NEW v \in 1..3
    PROVE  Finished(m, g, Applied(m, g, Rec("resign", p, v)), "resigned",
                    Other(p), m.nCube * v)
<1> DEFINE r == Rec("resign", p, v)
           f == Fresh(m)
           d == [f EXCEPT !.fResigned = v]
<1>1. r.mt = "resign" /\ r.fPlayer = p /\ r.v = v
  BY DEF Rec
<1>2. f \in MatchStates /\ f.nCube = m.nCube
  BY FreshFields
<1>3. Applied(m, g, r) = ApplyGameOver(d, g, "resigned", Other(p), m.nCube * v)
  BY <1>1, <1>2 DEF Applied, FixMatchState, ApplyMoveRecord, ApplyResign, Fresh
<1>4. /\ f.anScore = m.anScore /\ f.cGames = m.cGames /\ f.nMatchTo = m.nMatchTo
  BY FreshFields
<1> HIDE DEF f
<1>5. /\ d \in MatchStates /\ d.anScore = m.anScore /\ d.cGames = m.cGames
      /\ d.nMatchTo = m.nMatchTo /\ d.nCube = m.nCube
  <2>1. v \in -1..3
    OBVIOUS
  <2>2. QED
    BY <1>2, <1>4, <2>1 DEF MatchStates
<1> HIDE DEF d
<1>6. QED
  BY <1>3, <1>5, OverEffect

(* A drop ends it for the opponent of the player who drops. *)
LEMMA DropEffect ==
    ASSUME NEW m \in MatchStates, NEW g, NEW p, m.fDoubled
    PROVE  Finished(m, g, Applied(m, g, Rec("drop", p, 0)), "drop",
                    Other(p), m.nCube)
<1> DEFINE r == Rec("drop", p, 0)
           f == Fresh(m)
           d == [f EXCEPT !.fDoubled = FALSE, !.cBeavers = 0]
<1>1. r.mt = "drop" /\ r.fPlayer = p
  BY DEF Rec
<1>2. f \in MatchStates /\ f.nCube = m.nCube /\ f.fDoubled = m.fDoubled
  BY FreshFields
<1>3. Applied(m, g, r) = ApplyGameOver(d, g, "drop", Other(p), m.nCube)
  BY <1>1, <1>2 DEF Applied, FixMatchState, ApplyMoveRecord, ApplyDrop, Fresh
<1>4. /\ f.anScore = m.anScore /\ f.cGames = m.cGames /\ f.nMatchTo = m.nMatchTo
  BY FreshFields
<1> HIDE DEF f
<1>5. /\ d \in MatchStates /\ d.anScore = m.anScore /\ d.cGames = m.cGames
      /\ d.nMatchTo = m.nMatchTo /\ d.nCube = m.nCube
  BY <1>2, <1>4 DEF MatchStates
<1> HIDE DEF d
<1>6. QED
  BY <1>3, <1>5, OverEffect

(* A play passes the turn, or wins the game as many times as the position
   and the Jacoby rule say. *)
LEMMA PlayEffect ==
    ASSUME NEW m, InPlayState(m), NEW g, ~m.fDoubled, NEW n \in 0..3
    PROVE  LET u == Applied(m, g, Rec("normal", m.fTurn, n))
           IN  /\ n = 0 => Shown(u, m, g, Other(m.fTurn), Other(m.fTurn), FALSE,
                                m.fCubeOwner, m.cBeavers, m.nCube)
               /\ n # 0 => Finished(m, g, u, "over", m.fTurn,
                                    m.nCube * GameValue(m, n))
<1> DEFINE r == Rec("normal", m.fTurn, n)
           f == Fresh(m)
           e == [f EXCEPT !.fDoubled = FALSE]
           t == [PlayMove(e, r) EXCEPT !.dice = FALSE]
<1>0. /\ r.mt = "normal" /\ r.fPlayer = m.fTurn /\ r.v = n
      /\ m.fTurn = m.fMove /\ m.fMove \in Player
  BY PlayTypes DEF Rec
<1>1. ApplyMoveRecord(m, g, r) = ApplyNormal(f, g, r)
  BY <1>0 DEF ApplyMoveRecord, Fresh
<1>2. FixMatchState(m, r) = m
  BY <1>0 DEF FixMatchState
<1>3. Applied(m, g, r) = ApplyNormal(f, g, r)
  BY <1>1, <1>2 DEF Applied
<1>4. /\ f \in MatchStates
      /\ f.gs = "playing" /\ f.fResigned = 0 /\ f.side = m.side
      /\ f.fMove = m.fMove /\ f.cGames = m.cGames
      /\ f.fCubeOwner = m.fCubeOwner /\ f.fCrawford = m.fCrawford
      /\ f.nMatchTo = m.nMatchTo /\ f.anScore = m.anScore
      /\ f.nCube = m.nCube /\ f.cBeavers = m.cBeavers
  BY FreshFields DEF InPlayState
<1> HIDE DEF f
<1>5. /\ e \in MatchStates /\ e.fDoubled = FALSE
      /\ e.gs = "playing" /\ e.fResigned = 0 /\ e.side = m.side
      /\ e.fMove = m.fMove /\ e.cGames = m.cGames
      /\ e.fCubeOwner = m.fCubeOwner /\ e.fCrawford = m.fCrawford
      /\ e.nMatchTo = m.nMatchTo /\ e.anScore = m.anScore
      /\ e.nCube = m.nCube /\ e.cBeavers = m.cBeavers
  BY <1>4 DEF MatchStates
<1>6. ApplyNormal(f, g, r) =
           IF t.st = 0 THEN [ms |-> t, info |-> g]
           ELSE ApplyGameOver(t, g, "over", m.fTurn, t.nCube * GameValue(t, t.st))
  BY <1>0 DEF ApplyNormal
<1> HIDE DEF e
<1>7. m.side \in {NoOne, m.fMove}
  BY DEF InPlayState, InGame
<1>8. PlayMove(e, r) = [e EXCEPT !.side = Other(m.fTurn), !.st = n,
                                 !.fMove = Other(m.fTurn),
                                 !.fTurn = Other(m.fTurn)]
  BY <1>0, <1>5, <1>7 DEF PlayMove
<1>9. Other(m.fTurn) \in Player \cup {NoOne}
  BY <1>0, Players
<1>10. PlayMove(e, r) \in MatchStates
  BY <1>5, <1>8, <1>9 DEF MatchStates
<1>11. t = [e EXCEPT !.side = Other(m.fTurn), !.st = n,
                     !.fMove = Other(m.fTurn), !.fTurn = Other(m.fTurn),
                     !.dice = FALSE]
  BY <1>5, <1>8 DEF MatchStates
<1>12. t \in MatchStates
  BY <1>10 DEF MatchStates
<1> HIDE DEF t
<1>13. /\ t.gs = "playing" /\ t.fResigned = 0 /\ t.side = Other(m.fTurn)
       /\ t.st = n /\ t.fMove = Other(m.fTurn) /\ t.fDoubled = FALSE
       /\ t.cGames = m.cGames
       /\ t.fCubeOwner = m.fCubeOwner /\ t.fCrawford = m.fCrawford
       /\ t.nMatchTo = m.nMatchTo /\ t.anScore = m.anScore
       /\ t.nCube = m.nCube /\ t.cBeavers = m.cBeavers
  BY <1>5, <1>11 DEF MatchStates
<1>14. CASE n = 0
  <2>1. m.st = 0
    BY DEF InPlayState, InGame
  <2>2. QED
    BY <1>3, <1>6, <1>13, <1>14, <2>1 DEF GoesOn, Shown
<1>15. CASE n # 0
  <2>1. GameValue(t, t.st) = GameValue(m, n)
    BY <1>13 DEF GameValue
  <2>2. Applied(m, g, r)
          = ApplyGameOver(t, g, "over", m.fTurn, m.nCube * GameValue(m, n))
    BY <1>3, <1>6, <1>13, <1>15, <2>1
  <2>3. QED
    BY <1>12, <1>13, <1>15, <2>2, OverEffect
<1>16. QED
  BY <1>14, <1>15

-----------------------------------------------------------------------------
(* Play and replay. *)

(* The records of the commands, with their payloads. *)
Valid(r) == /\ r \in Record /\ add_moverecord_sanity_check(r) = "no"
            /\ r.mt = "normal" => r.v \in 0..3
            /\ r.mt = "resign" => r.v \in 1..3

(* What Allowed and Opener say of a record by itself. *)
LEMMA AllowedValid ==
    ASSUME NEW m, NEW r
    PROVE  /\ m.fTurn \in Player /\ Allowed(m, r) => Valid(r)
           /\ \A p \in Player : Opener(r, p) => Valid(r)
<1>1. ASSUME NEW mt \in {"normal", "setdice", "double", "take", "drop", "resign"},
             NEW p \in Player, NEW v \in Int, mt = "normal" => v \in 0..3,
             mt = "resign" => v \in 1..3
      PROVE  Valid(Rec(mt, p, v))
  BY <1>1 DEF Valid, Rec, Record, MoveType, add_moverecord_sanity_check
<1>2. m.fTurn \in Player /\ Allowed(m, r) => Valid(r)
  <2> SUFFICES ASSUME m.fTurn \in Player, Allowed(m, r) PROVE Valid(r)
    OBVIOUS
  <2>1. CASE /\ r.mt \in {"normal", "setdice"}
             /\ r = Rec(r.mt, m.fTurn, r.v) /\ r.v \in 0..3
    BY <1>1, <2>1
  <2>2. CASE r = Rec("double", m.fTurn, 0)
    BY <1>1, <2>2
  <2>3. CASE r \in {Rec("take", m.fTurn, 0), Rec("drop", m.fTurn, 0)}
    BY <1>1, <2>3
  <2>4. CASE r = Rec("resign", r.fPlayer, r.v) /\ r.fPlayer \in Player /\ r.v \in 1..3
    BY <1>1, <2>4
  <2>5. QED
    BY <2>1, <2>2, <2>3, <2>4 DEF Allowed
<1>3. ASSUME NEW p \in Player, Opener(r, p) PROVE Valid(r)
  BY <1>1, <1>3 DEF Opener
<1>4. QED
  BY <1>2, <1>3

(* The record list tells who has the turn while no resignation is offered. *)
LEMMA SameTurn ==
    ASSUME NEW m, NEW t, Sound(m), Sound(t), m.gs = "playing", Same(m, t),
           m.fResigned = 0, t.fResigned = 0
    PROVE  t.fTurn = m.fTurn /\ InPlayState(m) /\ InPlayState(t)
BY DEF Sound, InGame, Same, Decider, InPlayState

(* Same is an equivalence. *)
LEMMA SameOn ==
    ASSUME NEW m, NEW n, NEW t, Same(m, n)
    PROVE  Same(n, m) /\ (Same(n, t) => Same(m, t))
BY DEF Same

(* States that agree go on to agree, and find the same winner. *)
LEMMA AgreeApplied ==
    ASSUME NEW m, NEW t, Sound(m), Sound(t), m.gs = "playing", Same(m, t),
           t.fResigned = 0, NEW r, Allowed(m, r), NEW g,
           m.fResigned = 0 \/ r.mt = "resign"
    PROVE  /\ Allowed(t, r)
           /\ Same(Applied(m, g, r).ms, Applied(t, g, r).ms)
           /\ Applied(t, g, r).info = Applied(m, g, r).info
<1> DEFINE u == Applied(m, g, r)
           w == Applied(t, g, r)
<1>0. /\ t.gs = "playing" /\ t.anScore = m.anScore /\ t.cGames = m.cGames
      /\ t.nMatchTo = m.nMatchTo /\ t.nCube = m.nCube /\ t.side = m.side
      /\ t.st = m.st /\ t.fMove = m.fMove /\ t.fDoubled = m.fDoubled
      /\ t.fCubeOwner = m.fCubeOwner /\ t.cBeavers = m.cBeavers
      /\ t.fCrawford = m.fCrawford /\ m \in MatchStates /\ t \in MatchStates
  BY DEF Same, Sound
<1>1. ASSUME NEW gs, NEW p, NEW n, gs # "playing",
             Finished(m, g, u, gs, p, n), Finished(t, g, w, gs, p, n)
      PROVE  Same(u.ms, w.ms) /\ w.info = u.info
  BY <1>0, <1>1 DEF Finished, Same
<1>2. ASSUME NEW a, NEW b, NEW c, NEW d, NEW e, NEW f,
             Shown(u, m, g, a, b, c, d, e, f), Shown(w, t, g, a, b, c, d, e, f)
      PROVE  Same(u.ms, w.ms) /\ w.info = u.info
  BY <1>0, <1>2 DEF Shown, GoesOn, Same
<1>3. m.fResigned = 0 => /\ t.fTurn = m.fTurn /\ InPlayState(m) /\ InPlayState(t)
                         /\ m.fMove \in Player /\ m.fTurn \in Player
                         /\ m.nCube \in Nat
  BY SameTurn, PlayTypes
<1> HIDE DEF u, w
<1>4. CASE r = Rec("resign", r.fPlayer, r.v) /\ r.fPlayer \in Player /\ r.v \in 1..3
  <2>1. Allowed(t, r)
    BY <1>4 DEF Allowed
  <2>2. /\ Finished(m, g, u, "resigned", Other(r.fPlayer), m.nCube * r.v)
        /\ Finished(t, g, w, "resigned", Other(r.fPlayer), m.nCube * r.v)
    BY <1>0, <1>4, ResignEffect DEF u, w
  <2>3. QED
    BY <1>1, <2>1, <2>2 DEF u, w
<1>5. CASE m.fResigned = 0 /\ r.mt = "setdice" /\ ~m.fDoubled /\ r = Rec("setdice", m.fTurn, 0)
  <2>1. Allowed(t, r)
    BY <1>0, <1>3, <1>5 DEF Allowed, Rec
  <2>2. /\ Shown(u, m, g, m.side, m.fMove, FALSE, m.fCubeOwner, m.cBeavers, m.nCube)
        /\ Shown(w, t, g, m.side, m.fMove, FALSE, m.fCubeOwner, m.cBeavers, m.nCube)
    BY <1>0, <1>3, <1>5, RollEffect DEF u, w
  <2>3. QED
    BY <1>2, <2>1, <2>2 DEF u, w
<1>6. CASE m.fResigned = 0 /\ ~m.fDoubled /\ r = Rec("normal", m.fTurn, r.v) /\ r.v \in 0..3
  <2>1. Allowed(t, r)
    BY <1>0, <1>3, <1>6 DEF Allowed, Rec
  <2>2. CASE r.v = 0
    <3>1. /\ Shown(u, m, g, Other(m.fTurn), Other(m.fTurn), FALSE, m.fCubeOwner,
                m.cBeavers, m.nCube)
          /\ Shown(w, t, g, Other(m.fTurn), Other(m.fTurn), FALSE, m.fCubeOwner,
                m.cBeavers, m.nCube)
      BY <1>0, <1>3, <1>6, <2>2, PlayEffect DEF u, w
    <3>2. QED
      BY <1>2, <2>1, <3>1 DEF u, w
  <2>3. CASE r.v # 0
    <3>1. GameValue(t, r.v) = GameValue(m, r.v)
      BY <1>0 DEF GameValue
    <3>2. /\ Finished(m, g, u, "over", m.fTurn, m.nCube * GameValue(m, r.v))
          /\ Finished(t, g, w, "over", t.fTurn, t.nCube * GameValue(t, r.v))
      BY <1>0, <1>3, <1>6, <2>3, PlayEffect DEF u, w
    <3>3. QED
      BY <1>0, <1>1, <1>3, <1>6, <2>1, <3>1, <3>2 DEF u, w
  <2>4. QED
    BY <2>2, <2>3
<1>7. CASE /\ m.fResigned = 0 /\ r = Rec("double", m.fTurn, 0) /\ ~m.fDoubled /\ ~m.fCrawford
           /\ m.fCubeOwner \in {NoOne, m.fMove} /\ m.nCube < MAX_CUBE
  <2>1. Allowed(t, r)
    BY <1>0, <1>3, <1>7 DEF Allowed
  <2>2. /\ Shown(u, m, g, m.side, m.fMove, TRUE, m.fCubeOwner, m.cBeavers, m.nCube)
        /\ Shown(w, t, g, m.side, m.fMove, TRUE, m.fCubeOwner, m.cBeavers, m.nCube)
    BY <1>0, <1>3, <1>7, DoubleEffect DEF u, w
  <2>3. QED
    BY <1>2, <2>1, <2>2 DEF u, w
<1>8. CASE /\ m.fResigned = 0 /\ r = Rec("double", m.fTurn, 0) /\ m.fDoubled /\ m.nMatchTo = 0
           /\ m.cBeavers < nBeavers /\ m.nCube < MAX_CUBE \div 2
  <2>1. Allowed(t, r)
    BY <1>0, <1>3, <1>8 DEF Allowed
  <2>2. m.nCube < MAX_CUBE
    BY <1>0, <1>8, Fields, Doubling
  <2>3. /\ Shown(u, m, g, m.side, m.fMove, TRUE, Other(m.fMove), m.cBeavers + 1,
              2 * m.nCube)
        /\ Shown(w, t, g, m.side, m.fMove, TRUE, Other(m.fMove), m.cBeavers + 1,
              2 * m.nCube)
    BY <1>0, <1>3, <1>8, <2>2, BeaverEffect DEF u, w
  <2>4. QED
    BY <1>2, <2>1, <2>3 DEF u, w
<1>9. CASE m.fResigned = 0 /\ r = Rec("take", m.fTurn, 0) /\ m.fDoubled
  <2>1. Allowed(t, r)
    BY <1>0, <1>3, <1>9 DEF Allowed
  <2>2. /\ Shown(u, m, g, m.side, m.fMove, FALSE, Other(m.fMove), 0,
              2 * m.nCube)
        /\ Shown(w, t, g, m.side, m.fMove, FALSE, Other(m.fMove), 0,
              2 * m.nCube)
    BY <1>0, <1>3, <1>9, TakeEffect DEF u, w
  <2>3. QED
    BY <1>2, <2>1, <2>2 DEF u, w
<1>10. CASE m.fResigned = 0 /\ r = Rec("drop", m.fTurn, 0) /\ m.fDoubled
  <2>1. Allowed(t, r)
    BY <1>0, <1>3, <1>10 DEF Allowed
  <2>2. /\ Finished(m, g, u, "drop", Other(m.fTurn), m.nCube)
        /\ Finished(t, g, w, "drop", Other(m.fTurn), m.nCube)
    BY <1>0, <1>10, DropEffect DEF u, w
  <2>3. QED
    BY <1>1, <2>1, <2>2 DEF u, w
<1>11. r.mt \in {"normal", "setdice"} /\ r = Rec(r.mt, m.fTurn, r.v) /\ ~m.fDoubled
         /\ r.v \in 0..3 /\ (r.mt = "setdice" => r.v = 0) /\ m.fResigned = 0
       => \/ r.mt = "setdice" /\ ~m.fDoubled /\ r = Rec("setdice", m.fTurn, 0)
          \/ r = Rec("normal", m.fTurn, r.v)
  OBVIOUS
<1>12. r.mt = "resign" => r = Rec("resign", r.fPlayer, r.v) /\ r.fPlayer \in Player /\ r.v \in 1..3
  BY DEF Allowed, Rec
<1>13. QED
  BY <1>4, <1>5, <1>6, <1>7, <1>8, <1>9, <1>10, <1>11, <1>12 DEF Allowed

(* CommandRedouble sets the owner of the cube, as the record does anyway. *)
LEMMA BeaverOwner ==
    ASSUME NEW m \in MatchStates, NEW g, NEW p, m.fDoubled, m.nCube < MAX_CUBE,
           m.fMove \in Player, NEW q \in Player \cup {NoOne}, p = m.fTurn
    PROVE  Applied([m EXCEPT !.fCubeOwner = q], g, Rec("double", p, 0))
             = Applied(m, g, Rec("double", p, 0))
<1> DEFINE r == Rec("double", p, 0)
           o == [m EXCEPT !.fCubeOwner = q]
           x == Fresh(o)
           y == Fresh(m)
<1>1. r.mt = "double" /\ r.fPlayer = p
  BY DEF Rec
<1>2. o \in MatchStates /\ o.fTurn = p /\ m.fTurn = p
  BY DEF MatchStates
<1>3. /\ Applied(o, g, r) = [ms |-> ApplyDouble(x, r), info |-> g]
      /\ Applied(m, g, r) = [ms |-> ApplyDouble(y, r), info |-> g]
  BY <1>1, <1>2 DEF Applied, FixMatchState, ApplyMoveRecord, Fresh
<1>4. x = [y EXCEPT !.fCubeOwner = q]
  BY DEF MatchStates, Fresh
<1>5. y \in MatchStates /\ y.fMove = m.fMove /\ y.nCube = m.nCube /\ y.fDoubled
  BY FreshFields
<1>6. ~(m.nCube >= MAX_CUBE) /\ m.fMove # NoOne
  <2>1. m.nCube \in Nat
    BY Fields, Doubling
  <2>2. QED
    BY <2>1, CubeAssumption, Players
<1> HIDE DEF x, y
<1>7. /\ x.fMove = m.fMove /\ x.nCube = m.nCube /\ x.fDoubled
      /\ x.cBeavers = y.cBeavers
  BY <1>4, <1>5 DEF MatchStates
<1>8. [y EXCEPT !.fMove = m.fMove] = y /\ [x EXCEPT !.fMove = m.fMove] = x
  BY <1>4, <1>5 DEF MatchStates
<1> DEFINE b == y.cBeavers + 1
           c == 2 * m.nCube
           w == Other(m.fMove)
<1>9. /\ ApplyDouble(y, r) = [y EXCEPT !.cBeavers = b, !.nCube = c,
                                       !.fCubeOwner = w, !.fTurn = Other(p)]
      /\ ApplyDouble(x, r) = [x EXCEPT !.cBeavers = b, !.nCube = c,
                                       !.fCubeOwner = w, !.fTurn = Other(p)]
  BY <1>1, <1>5, <1>6, <1>7, <1>8 DEF ApplyDouble
<1> HIDE DEF b, c, w
<1>10. ApplyDouble(x, r) = ApplyDouble(y, r)
  BY <1>4, <1>5, <1>9 DEF MatchStates
<1>11. QED
  BY <1>3, <1>10

(* A resignation ends any game, whoever resigns. *)
LEMMA ResignEnds ==
    ASSUME NEW m \in MatchStates, NEW g, m.cGames <= m.anScore[0] + m.anScore[1],
           m.fCrawford => AutoCrawford /\ m.nMatchTo > 1,
           Fits(Fresh(m), g), NEW p \in Player, NEW v \in 1..3
    PROVE  Applies(m, g, Rec("resign", p, v))
<1> DEFINE r == Rec("resign", p, v)
           f == Fresh(m)
           d == [f EXCEPT !.fResigned = v]
           t == ApplyGameOver(d, g, "resigned", Other(p), m.nCube * v)
<1>1. r.mt = "resign" /\ r.fPlayer = p /\ r.v = v
  BY DEF Rec
<1>2. f \in MatchStates /\ f.nCube = m.nCube
  BY FreshFields
<1>3. Applied(m, g, r) = t
  BY <1>1, <1>2 DEF Applied, FixMatchState, ApplyMoveRecord, ApplyResign, Fresh
<1>4. /\ f.gs = "playing" /\ f.cGames = m.cGames /\ f.anScore = m.anScore
      /\ f.fCrawford = m.fCrawford /\ f.nMatchTo = m.nMatchTo
      /\ f.fPostCrawford = m.fPostCrawford
  BY FreshFields
<1> HIDE DEF f
<1>5. /\ d \in MatchStates
      /\ d.gs = "playing" /\ d.cGames = m.cGames /\ d.anScore = m.anScore
      /\ d.fCrawford = m.fCrawford /\ d.nMatchTo = m.nMatchTo
      /\ d.fPostCrawford = m.fPostCrawford
  <2>1. v \in -1..3
    OBVIOUS
  <2>2. QED
    BY <1>2, <1>4, <2>1 DEF MatchStates
<1> HIDE DEF d
<1>6. Fits(d, g)
  BY <1>4, <1>5 DEF Fits, Ended, f
<1>7. m.nCube * v \in Nat /\ m.nCube * v >= 1 /\ Other(p) \in Player
  <2>1. m.nCube \in Nat /\ m.nCube >= 1 /\ v \in Nat /\ v >= 1
    BY Fields, Doubling
  <2>2. QED
    BY <2>1, Product, Players
<1>8. /\ Sound(t.ms) /\ Fits(t.ms, t.info) /\ SameStart(g, t.info)
      /\ SameFlags(d, t.ms) /\ t.ms.gs # "none"
  BY <1>5, <1>6, <1>7, GameOver
<1> HIDE DEF t
<1>9. QED
  BY <1>3, <1>5, <1>8 DEF Applies, SameFlags

(* Every record that may follow can be applied. *)
LEMMA AllowedApplies ==
    ASSUME NEW m, NEW g, Sound(m), Fits(m, g), m.gs = "playing",
           NEW r, Allowed(m, r), m.fResigned = 0 \/ r.mt = "resign"
    PROVE  LET u == Applied(m, g, r)
           IN  /\ Applies(m, g, r) /\ Valid(r)
               /\ u.ms.gs = "playing" => u.ms.fResigned = 0
<1> DEFINE u == Applied(m, g, r)
<1>0. m \in MatchStates /\ InGame(m) /\ m.fTurn \in Player /\ m.fMove \in Player
  BY Players DEF Sound, InGame, Decider
<1>1. Valid(r)
  BY <1>0, AllowedValid
<1>2. m.fResigned = 0 => InPlayState(m)
  BY <1>0 DEF InPlayState
<1>3. \A sd, mv, db, ow, bv, cu : Shown(u, m, g, sd, mv, db, ow, bv, cu)
                                  => u.ms.fResigned = 0
  BY DEF Shown, GoesOn
<1>4. \A gs, w, n : gs # "playing" /\ Finished(m, g, u, gs, w, n)
                    => u.ms.gs # "playing"
  BY DEF Finished
<1> HIDE DEF u
<1>5. CASE r = Rec("resign", r.fPlayer, r.v) /\ r.fPlayer \in Player /\ r.v \in 1..3
  <2>1. Fits(Fresh(m), g)
    BY <1>0, FreshFields DEF Fits, Ended
  <2>2. Applies(m, g, r)
    BY <1>0, <1>5, <2>1, ResignEnds DEF Sound
  <2>3. Finished(m, g, u, "resigned", Other(r.fPlayer), m.nCube * r.v)
    BY <1>0, <1>5, ResignEffect DEF u
  <2>4. QED
    BY <1>1, <1>4, <2>2, <2>3 DEF u
<1>6. CASE m.fResigned = 0 /\ ~m.fDoubled /\ r = Rec("setdice", m.fTurn, 0)
  <2>1. Applies(m, g, r)
    BY <1>6, RollApplies
  <2>2. Shown(u, m, g, m.side, m.fMove, FALSE, m.fCubeOwner, m.cBeavers, m.nCube)
    BY <1>2, <1>6, RollEffect DEF u
  <2>3. QED
    BY <1>1, <1>3, <2>1, <2>2 DEF u
<1>7. CASE m.fResigned = 0 /\ ~m.fDoubled /\ r = Rec("normal", m.fTurn, r.v) /\ r.v \in 0..3
  <2>1. Applies(m, g, r)
    BY <1>7, NormalApplies
  <2>2. /\ r.v = 0 => Shown(u, m, g, Other(m.fTurn), Other(m.fTurn), FALSE,
                            m.fCubeOwner, m.cBeavers, m.nCube)
        /\ r.v # 0 => Finished(m, g, u, "over", m.fTurn, m.nCube * GameValue(m, r.v))
    BY <1>2, <1>7, PlayEffect DEF u
  <2>3. QED
    BY <1>1, <1>3, <1>4, <2>1, <2>2 DEF u
<1>8. CASE /\ m.fResigned = 0 /\ r = Rec("double", m.fTurn, 0) /\ ~m.fDoubled /\ ~m.fCrawford
           /\ m.fCubeOwner \in {NoOne, m.fMove} /\ m.nCube < MAX_CUBE
  <2>1. m.fTurn = m.fMove
    BY <1>2, <1>8, PlayTypes
  <2>2. Applies(m, g, r)
    BY <1>8, <2>1, OfferApplies
  <2>3. Shown(u, m, g, m.side, m.fMove, TRUE, m.fCubeOwner, m.cBeavers, m.nCube)
    BY <1>2, <1>8, DoubleEffect DEF u
  <2>4. QED
    BY <1>1, <1>3, <2>2, <2>3 DEF u
<1>9. CASE /\ m.fResigned = 0 /\ r = Rec("double", m.fTurn, 0) /\ m.fDoubled /\ m.nMatchTo = 0
           /\ m.cBeavers < nBeavers /\ m.nCube < MAX_CUBE \div 2
  <2> DEFINE o == [m EXCEPT !.fCubeOwner = Other(m.fMove)]
  <2>1. m.nCube < MAX_CUBE
    BY <1>0, <1>9, Fields, Doubling
  <2>2. Applies(o, g, r) /\ SameFlags(m, o)
    BY <1>9, BeaverApplies
  <2>3. Applied(o, g, r) = u
    <3>1. Other(m.fMove) \in Player \cup {NoOne}
      BY <1>0, Players
    <3>2. QED
      BY <1>0, <1>9, <2>1, <3>1, BeaverOwner DEF u
  <2> HIDE DEF o
  <2>4. Applies(m, g, r)
    BY <2>2, <2>3 DEF Applies, SameFlags, u
  <2>5. Shown(u, m, g, m.side, m.fMove, TRUE, Other(m.fMove), m.cBeavers + 1,
              2 * m.nCube)
    BY <1>0, <1>9, <2>1, BeaverEffect DEF u
  <2>6. QED
    BY <1>1, <1>3, <2>4, <2>5 DEF u
<1>10. CASE m.fResigned = 0 /\ r = Rec("take", m.fTurn, 0) /\ m.fDoubled
  <2>1. Applies(m, g, r)
    BY <1>10, TakeApplies
  <2>2. Shown(u, m, g, m.side, m.fMove, FALSE, Other(m.fMove), 0, 2 * m.nCube)
    BY <1>2, <1>10, TakeEffect DEF u
  <2>3. QED
    BY <1>1, <1>3, <2>1, <2>2 DEF u
<1>11. CASE m.fResigned = 0 /\ r = Rec("drop", m.fTurn, 0) /\ m.fDoubled
  <2>1. Applies(m, g, r)
    BY <1>11, DropApplies
  <2>2. Finished(m, g, u, "drop", Other(m.fTurn), m.nCube)
    BY <1>0, <1>11, DropEffect DEF u
  <2>3. QED
    BY <1>1, <1>4, <2>1, <2>2 DEF u
<1>12. r.mt \in {"normal", "setdice"} /\ r = Rec(r.mt, m.fTurn, r.v)
          /\ (r.mt = "setdice" => r.v = 0)
       => r = Rec("setdice", m.fTurn, 0) \/ r = Rec("normal", m.fTurn, r.v)
  OBVIOUS
<1>13. r.mt = "resign" => r = Rec("resign", r.fPlayer, r.v) /\ r.fPlayer \in Player /\ r.v \in 1..3
  BY DEF Allowed, Rec
<1>14. QED
  BY <1>5, <1>6, <1>7, <1>8, <1>9, <1>10, <1>11, <1>12, <1>13 DEF Allowed

-----------------------------------------------------------------------------
(* The first record of a game. *)

(* Player p has the turn, before and after play has started. *)
Turned(g, p) == [ApplyGameInfo(g) EXCEPT !.fTurn = p, !.fMove = p]
Opening(g, p) == Fresh(Turned(g, p))

(* What the GAMEINFO record sets. *)
LEMMA StartFields ==
    ASSUME NEW g, Start(g)
    PROVE  LET b == ApplyGameInfo(g)
           IN  /\ b \in MatchStates
               /\ b.side = NoOne /\ b.st = 0 /\ b.dice = FALSE /\ b.fDoubled = FALSE
               /\ b.fTurn = NoOne /\ b.fMove = NoOne /\ b.fResigned = 0
               /\ b.cGames = g.i /\ b.fCubeOwner = NoOne /\ b.gs = "none"
               /\ b.fCrawford = g.fCrawfordGame /\ b.nMatchTo = g.nMatch
               /\ b.anScore = g.anScore /\ b.cBeavers = 0
               /\ b.nCube = 2 ^ g.nAutoDoubles
               /\ g \in GameInfo /\ g.fCrawfordGame \in BOOLEAN
               /\ g.fCrawfordGame => 2 ^ g.nAutoDoubles = 1
<1> DEFINE b == ApplyGameInfo(g)
           pc == ~g.fCrawfordGame /\ \E p \in Player : g.anScore[p] = g.nMatch - 1
           c == 2 ^ g.nAutoDoubles
<1>1. /\ g \in GameInfo /\ g.nMatch \in Nat /\ g.anScore \in [Player -> Nat]
      /\ g.i \in Nat /\ g.fCrawfordGame \in BOOLEAN /\ c \in CubeValues
  BY DEF Start, GameInfo
<1>2. g.fCrawfordGame => c = 1
  <2>1. 2 ^ 0 = 1
    OBVIOUS
  <2>2. g.fCrawfordGame => g.nAutoDoubles = 0
    BY DEF Start
  <2>3. QED
    BY <2>1, <2>2
<1>3. pc \in BOOLEAN /\ 1 \in CubeValues
  BY CubeAssumption
<1>4. b = [InitialMatchState EXCEPT !.nMatchTo = g.nMatch, !.anScore = g.anScore,
                !.cGames = g.i, !.nCube = c, !.fCrawford = g.fCrawfordGame,
                !.fPostCrawford = pc]
  BY DEF ApplyGameInfo
<1> HIDE DEF b, pc, c
<1>5. InitialMatchState \in MatchStates
  <2>1. [p \in Player |-> 0] \in [Player -> Nat] /\ "none" \in GameState
    BY DEF GameState
  <2>2. 0 \in 0..3 /\ 0 \in -1..3
    OBVIOUS
  <2>3. QED
    BY <1>3, <2>1, <2>2, Players DEF InitialMatchState, MatchStates
<1>6. b \in MatchStates
  BY <1>1, <1>3, <1>4, <1>5 DEF MatchStates
<1>7. /\ b.side = NoOne /\ b.st = 0 /\ b.dice = FALSE /\ b.fDoubled = FALSE
      /\ b.fTurn = NoOne /\ b.fMove = NoOne /\ b.fResigned = 0
      /\ b.cGames = g.i /\ b.fCubeOwner = NoOne /\ b.gs = "none"
      /\ b.fCrawford = g.fCrawfordGame /\ b.nMatchTo = g.nMatch
      /\ b.anScore = g.anScore /\ b.cBeavers = 0 /\ b.nCube = c
  BY <1>4 DEF InitialMatchState
<1>8. QED
  BY <1>1, <1>2, <1>6, <1>7 DEF b, c

(* Before and at the start of play the state is sound. *)
LEMMA OpeningSound ==
    ASSUME NEW g, Start(g), NEW p \in Player
    PROVE  LET b == ApplyGameInfo(g)
               o == Opening(g, p)
           IN  /\ Sound(b) /\ Sound(Turned(g, p)) /\ Sound(o)
               /\ Turned(g, p).gs = "none" /\ Turned(g, p).fTurn = p
               /\ Turned(g, p).anScore = g.anScore /\ Turned(g, p).cGames = g.i
               /\ Turned(g, p).nMatchTo = g.nMatch
               /\ Fits(Fresh(b), g) /\ Fits(o, g) /\ InPlayState(o)
               /\ o.gs = "playing" /\ o.fResigned = 0 /\ o.fTurn = p /\ o.fMove = p
               /\ o.fDoubled = FALSE /\ o.side = NoOne
<1> DEFINE b == ApplyGameInfo(g)
           t == Turned(g, p)
           o == Opening(g, p)
<1>1. /\ b \in MatchStates
      /\ b.side = NoOne /\ b.st = 0 /\ b.dice = FALSE /\ b.fDoubled = FALSE
      /\ b.fTurn = NoOne /\ b.fMove = NoOne /\ b.fResigned = 0
      /\ b.cGames = g.i /\ b.fCubeOwner = NoOne /\ b.gs = "none"
      /\ b.fCrawford = g.fCrawfordGame /\ b.nMatchTo = g.nMatch
      /\ b.anScore = g.anScore /\ b.cBeavers = 0
      /\ b.nCube = 2 ^ g.nAutoDoubles
      /\ g \in GameInfo /\ g.fCrawfordGame \in BOOLEAN
      /\ g.fCrawfordGame => 2 ^ g.nAutoDoubles = 1
  BY StartFields
<1>2. /\ g.i <= g.anScore[0] + g.anScore[1]
      /\ g.fCrawfordGame => AutoCrawford /\ g.nMatch > 1
      /\ g.nMatch > 0 => \A q \in Player : g.anScore[q] < g.nMatch
  BY DEF Start
<1>3. p \in Player \cup {NoOne}
  OBVIOUS
<1>4. t = [b EXCEPT !.fTurn = p, !.fMove = p]
  BY DEF Turned
<1> HIDE DEF b
<1>5. t \in MatchStates
  BY <1>1, <1>3, <1>4 DEF MatchStates
<1>6. /\ t.side = NoOne /\ t.st = 0 /\ t.dice = FALSE /\ t.fDoubled = FALSE
      /\ t.fTurn = p /\ t.fMove = p /\ t.fResigned = 0
      /\ t.cGames = g.i /\ t.fCubeOwner = NoOne /\ t.gs = "none"
      /\ t.fCrawford = g.fCrawfordGame /\ t.nMatchTo = g.nMatch
      /\ t.anScore = g.anScore /\ t.cBeavers = 0
      /\ t.nCube = 2 ^ g.nAutoDoubles
  BY <1>1, <1>4 DEF MatchStates
<1>7. o = Fresh(t)
  BY DEF Opening
<1> HIDE DEF t, o
<1>9. /\ o \in MatchStates
      /\ o.side = NoOne /\ o.st = 0 /\ o.fDoubled = FALSE
      /\ o.fTurn = p /\ o.fMove = p /\ o.fResigned = 0
      /\ o.cGames = g.i /\ o.fCubeOwner = NoOne /\ o.gs = "playing"
      /\ o.fCrawford = g.fCrawfordGame /\ o.nMatchTo = g.nMatch
      /\ o.anScore = g.anScore /\ o.cBeavers = 0
      /\ o.nCube = 2 ^ g.nAutoDoubles
  BY <1>5, <1>6, <1>7, FreshFields
<1>10. Sound(b) /\ Sound(t)
  BY <1>1, <1>2, <1>5, <1>6 DEF Sound
<1>11. InGame(o)
  BY <1>1, <1>9, SettingsAssumption DEF InGame, Decider
<1>12. Sound(o) /\ InPlayState(o)
  BY <1>2, <1>9, <1>11 DEF Sound, InPlayState
<1>13. Fits(o, g)
  BY <1>1, <1>2, <1>9 DEF Fits, Ended
<1>14. Fits(Fresh(b), g)
  BY <1>1, <1>2, FreshFields DEF Fits, Ended
<1>15. QED
  BY <1>6, <1>9, <1>10, <1>12, <1>13, <1>14 DEF b, t, o

(* The start of play changes the same fields either way. *)
LEMMA OpeningIs ==
    ASSUME NEW g, Start(g), NEW p
    PROVE  Opening(g, p) = [Fresh(ApplyGameInfo(g)) EXCEPT !.fTurn = p, !.fMove = p]
<1> DEFINE b == ApplyGameInfo(g)
<1>1. b \in MatchStates
  BY StartFields
<1>2. Opening(g, p) = Fresh([b EXCEPT !.fTurn = p, !.fMove = p])
  BY DEF Opening, Turned
<1> HIDE DEF b
<1>3. Fresh([b EXCEPT !.fTurn = p, !.fMove = p]) = [Fresh(b) EXCEPT !.fTurn = p, !.fMove = p]
  BY <1>1 DEF Fresh, MatchStates
<1>4. QED
  BY <1>2, <1>3 DEF b

(* And leaves the cube alone. *)
LEMMA OpeningCube ==
    ASSUME NEW g, Start(g), NEW p
    PROVE  Opening(g, p).nCube = 2 ^ g.nAutoDoubles
<1> DEFINE a == ApplyGameInfo(g)
<1> DEFINE b == Fresh(a)
<1>1. a \in MatchStates /\ a.nCube = 2 ^ g.nAutoDoubles
  BY StartFields
<1>2. Opening(g, p) = [b EXCEPT !.fTurn = p, !.fMove = p]
  BY OpeningIs
<1> HIDE DEF a
<1>3. b \in MatchStates /\ b.nCube = a.nCube
  BY <1>1, FreshFields
<1> HIDE DEF b
<1>4. QED
  BY <1>1, <1>2, <1>3 DEF MatchStates

(* ApplyMoveRecord resets these fields first. *)
LEMMA FreshEnough ==
    ASSUME NEW m, NEW n, Fresh(m) = Fresh(n), NEW g, NEW r
    PROVE  ApplyMoveRecord(m, g, r) = ApplyMoveRecord(n, g, r)
BY DEF ApplyMoveRecord, Fresh

(* The first record does to the GAMEINFO state what it does to the state in
   which its player has the turn. *)
LEMMA OpenerAgrees ==
    ASSUME NEW g, Start(g), NEW r,
           NEW p \in Player, Opener(r, p)
    PROVE  LET o == Opening(g, p)
               u == Applied(ApplyGameInfo(g), g, r)
               v == Applied(o, g, r)
           IN  /\ Allowed(o, r) /\ Valid(r)
               /\ Sound(u.ms) /\ Fits(u.ms, u.info) /\ SameStart(g, u.info)
               /\ u.ms.gs # "none" /\ (u.ms.gs = "playing" => u.ms.fResigned = 0)
               /\ Same(v.ms, u.ms) /\ u.info = v.info
               /\ r.mt = "setdice" => Same(o, u.ms)
<1> DEFINE b == ApplyGameInfo(g)
           o == Opening(g, p)
           u == Applied(b, g, r)
           v == Applied(o, g, r)
<1>0. /\ Sound(o) /\ Fits(o, g) /\ InPlayState(o) /\ o.gs = "playing"
      /\ o.fResigned = 0 /\ o.fTurn = p /\ o.fMove = p /\ o.fDoubled = FALSE /\ o.side = NoOne
      /\ Sound(b) /\ Fits(Fresh(b), g)
  BY OpeningSound
<1>10. o = [Fresh(b) EXCEPT !.fTurn = p, !.fMove = p]
  BY OpeningIs
<1>1. /\ Sound(o) /\ Fits(o, g) /\ InPlayState(o) /\ o.gs = "playing"
      /\ o.fResigned = 0 /\ o.fTurn = p /\ o.fMove = p /\ o.fDoubled = FALSE /\ o.side = NoOne
      /\ o = [Fresh(b) EXCEPT !.fTurn = p, !.fMove = p]
      /\ Sound(b) /\ Fits(Fresh(b), g)
  BY <1>0, <1>10
<1>2. /\ b \in MatchStates /\ b.side = NoOne /\ b.fTurn = NoOne /\ b.fMove = NoOne
      /\ b.fDoubled = FALSE
  BY StartFields
<1>3. Allowed(o, r)
  <2> HIDE DEF o
  <2>1. CASE r = Rec("setdice", p, 0)
    BY <1>1, <2>1 DEF Allowed, Rec
  <2>2. CASE r = Rec("normal", p, r.v) /\ r.v \in 0..3
    BY <1>1, <2>2 DEF Allowed, Rec
  <2>3. CASE r = Rec("resign", p, r.v) /\ r.v \in 1..3
    BY <2>3 DEF Allowed, Rec
  <2>4. QED
    BY <2>1, <2>2, <2>3 DEF Opener
<1>4. Applies(o, g, r) /\ Valid(r) /\ (v.ms.gs = "playing" => v.ms.fResigned = 0)
  <2> HIDE DEF o
  <2>1. QED
    BY <1>0, <1>3, AllowedApplies
<1>11. r.fPlayer = p
  BY DEF Opener, Rec
<1>5. ASSUME r.mt \in {"normal", "setdice"}
      PROVE  u = v
  <2>1. CASE r.mt = "normal"
    <3>1. FixMatchState(b, r) = [b EXCEPT !.side = NoOne, !.fMove = p, !.fTurn = p]
      BY <1>2, <1>11, <2>1, Players DEF FixMatchState, SwapSides
    <3>2. FixMatchState(o, r) = o
      BY <1>1, <1>11 DEF FixMatchState
    <3>3. Fresh(FixMatchState(b, r)) = Fresh(o)
      <4> HIDE DEF b, o
      <4>1. Fresh([b EXCEPT !.side = NoOne, !.fMove = p, !.fTurn = p]) = Fresh(o)
        BY <1>1, <1>2 DEF Fresh, MatchStates
      <4>2. QED
        BY <3>1, <4>1
    <3>4. QED
      BY <3>2, <3>3, FreshEnough DEF Applied
  <2>2. CASE r.mt = "setdice"
    <3>1. FixMatchState(b, r) = b /\ FixMatchState(o, r) = o
      BY <2>2 DEF FixMatchState
    <3> DEFINE fb == Fresh(b)
               fo == Fresh(o)
    <3>2. u = [ms |-> ApplySetDice(fb, r), info |-> g]
      BY <2>2, <3>1 DEF Applied, ApplyMoveRecord, Fresh
    <3>3. v = [ms |-> ApplySetDice(fo, r), info |-> g]
      BY <2>2, <3>1 DEF Applied, ApplyMoveRecord, Fresh
    <3>4. fo = [fb EXCEPT !.fTurn = p, !.fMove = p]
      BY <1>1, <1>2 DEF Fresh, MatchStates
    <3>5. fb \in MatchStates /\ fb.side = NoOne /\ fb.fMove = NoOne
      BY <1>2, FreshFields
    <3> HIDE DEF fb, fo
    <3>6. fo.side = NoOne
      BY <3>4, <3>5 DEF MatchStates
    <3>7. /\ ApplySetDice(fb, r) = [fb EXCEPT !.dice = TRUE, !.fDoubled = FALSE,
                                      !.side = NoOne, !.fTurn = p, !.fMove = p]
          /\ ApplySetDice(fo, r) = [fo EXCEPT !.dice = TRUE, !.fDoubled = FALSE,
                                      !.side = NoOne, !.fTurn = p, !.fMove = p]
      BY <1>11, <3>5, <3>6 DEF ApplySetDice, SwapSides
    <3>8. ApplySetDice(fb, r) = ApplySetDice(fo, r)
      BY <3>4, <3>5, <3>7 DEF MatchStates
    <3>9. QED
      BY <3>2, <3>3, <3>8
  <2>3. QED
    BY <1>5, <2>1, <2>2
<1>6. CASE r.mt \in {"normal", "setdice"}
  <2>1. r.mt = "setdice" => r = Rec("setdice", o.fTurn, 0)
    BY <1>1 DEF Opener, Rec
  <2>2. r.mt = "setdice" => Shown(v, o, g, o.side, o.fMove, FALSE, o.fCubeOwner,
                                  o.cBeavers, o.nCube)
    BY <1>1, <2>1, RollEffect
  <2> HIDE DEF o, b, u, v
  <2>3. r.mt = "setdice" => Same(o, v.ms)
    BY <1>1, <2>2 DEF Same, Shown, GoesOn
  <2>4. Same(v.ms, v.ms)
    BY DEF Same
  <2>5. u = v
    BY <1>5, <1>6
  <2>6. /\ Sound(u.ms) /\ Fits(u.ms, u.info) /\ SameStart(g, u.info) /\ u.ms.gs # "none"
    BY <1>4, <2>5 DEF Applies, v
  <2>7. QED
    BY <1>3, <1>4, <2>3, <2>4, <2>5, <2>6 DEF o, b, u, v
<1>7. CASE r = Rec("resign", p, r.v) /\ r.v \in 1..3
  <2>1. /\ b.cGames <= b.anScore[0] + b.anScore[1]
        /\ b.fCrawford => AutoCrawford /\ b.nMatchTo > 1
    BY <1>1 DEF Sound
  <2>2. Applies(b, g, r)
    BY <1>1, <1>2, <1>7, <2>1, ResignEnds
  <2>3. o \in MatchStates
    BY <1>1 DEF Sound
  <2>4. /\ Finished(b, g, u, "resigned", Other(p), b.nCube * r.v)
        /\ Finished(o, g, v, "resigned", Other(p), o.nCube * r.v)
    BY <1>2, <1>7, <2>3, ResignEffect
  <2>5. /\ o.nCube = b.nCube /\ o.cGames = b.cGames /\ o.anScore = b.anScore
        /\ o.nMatchTo = b.nMatchTo
    <3>1. Fresh(b) \in MatchStates /\ Fresh(b).nCube = b.nCube
          /\ Fresh(b).cGames = b.cGames /\ Fresh(b).anScore = b.anScore
          /\ Fresh(b).nMatchTo = b.nMatchTo
      BY <1>2, FreshFields
    <3> DEFINE f == Fresh(b)
    <3> HIDE DEF f
    <3>2. o = [f EXCEPT !.fTurn = p, !.fMove = p]
      BY <1>1 DEF f
    <3> HIDE DEF o
    <3>3. QED
      BY <3>1, <3>2 DEF f, MatchStates
  <2>6. r.mt = "resign"
    BY <1>7 DEF Rec
  <2> HIDE DEF o, b, u, v
  <2>7. Same(v.ms, u.ms) /\ u.info = v.info /\ u.ms.gs = "resigned"
    BY <2>4, <2>5 DEF Finished, Same
  <2>8. /\ Sound(u.ms) /\ Fits(u.ms, u.info) /\ SameStart(g, u.info)
    BY <2>2 DEF Applies, u
  <2>9. QED
    BY <1>3, <1>4, <2>6, <2>7, <2>8 DEF o, b, u, v
<1>8. r.mt \in {"normal", "setdice"} \/ (r = Rec("resign", p, r.v) /\ r.v \in 1..3)
  BY DEF Opener, Rec
<1>9. QED
  BY <1>6, <1>7, <1>8

-----------------------------------------------------------------------------
(* Adding a record to a part of a game. *)

(* InfoKept, for a record that is added. *)
LEMMA AppliedInfo ==
    ASSUME NEW m \in MatchStates, NEW r, Valid(r),
           NEW g \in GameInfo, NEW h \in GameInfo
    PROVE  LET u == Applied(m, g, r)
           IN  /\ Applied(m, h, r).ms = u.ms
               /\ Applied(m, u.info, r) = u
               /\ ApplyGameInfo(u.info) = ApplyGameInfo(g)
               /\ u.info.nAutoDoubles = g.nAutoDoubles
               /\ u.ms.gs = "playing" => u.info = g
               /\ u = [ms |-> u.ms, info |-> u.info]
<1> DEFINE f == FixMatchState(m, r)
<1>1. r \in Record /\ (r.mt = "normal" => r.v \in 0..3) /\ (r.mt = "resign" => r.v \in 1..3)
  BY DEF Valid
<1>2. f \in MatchStates
  <2>1. r.fPlayer \in Player \cup {NoOne}
    BY <1>1 DEF Record
  <2>2. m.side \in Player \cup {NoOne}
    BY Fields
  <2>3. SwapSides(m.side) \in Player \cup {NoOne}
    BY <2>2, Players DEF SwapSides
  <2>4. QED
    BY <2>1, <2>3 DEF FixMatchState, MatchStates
<1> HIDE DEF f
<1>3. \A e : Applied(m, e, r) = ApplyMoveRecord(f, e, r)
  BY DEF Applied, f
<1>4. QED
  BY <1>1, <1>2, <1>3, InfoKept, Shape

(* What Plays says of the part of a game up to record n. *)
LEMMA Part ==
    ASSUME NEW gm, Plays(gm), NEW n \in 0..Len(gm.recs)
    PROVE  LET t == After(gm, n)
           IN  /\ gm \in Game /\ gm.info \in GameInfo /\ Start(gm.info)
               /\ gm.recs \in Seq(Record) /\ Len(gm.recs) \in Nat /\ n \in Nat
               /\ t.info = gm.info /\ Sound(t.ms) /\ t.ms \in MatchStates
               /\ n = 0 => t.ms = ApplyGameInfo(gm.info)
               /\ n > 0 => /\ Fits(t.ms, gm.info) /\ t.ms.gs # "none"
                           /\ t.ms.gs = "playing" => t.ms.fResigned = 0
                           /\ n < Len(gm.recs) => t.ms.gs = "playing"
                                                  /\ Allowed(t.ms, gm.recs[n + 1])
<1>1. gm \in Game /\ Start(gm.info)
  BY DEF Plays
<1>2. gm.info \in GameInfo /\ gm.recs \in Seq(Record) /\ Len(gm.recs) \in Nat
  BY <1>1 DEF Game
<1>3. CASE n = 0
  <2>1. After(gm, 0) = [ms |-> ApplyGameInfo(gm.info), info |-> gm.info]
    BY <1>1, AfterDef
  <2>2. 0 \in Player
    BY DEF Player
  <2>3. Sound(ApplyGameInfo(gm.info))
    BY <1>1, <2>2, OpeningSound
  <2>4. QED
    BY <1>1, <1>2, <1>3, <2>1, <2>3 DEF Sound
<1>4. CASE n # 0
  <2>1. n \in 1..Len(gm.recs)
    BY <1>2, <1>4
  <2>2. /\ Sound(After(gm, n).ms) /\ Fits(After(gm, n).ms, gm.info)
        /\ After(gm, n).info = gm.info /\ After(gm, n).ms.gs # "none"
        /\ After(gm, n).ms.gs = "playing" => After(gm, n).ms.fResigned = 0
        /\ n < Len(gm.recs) => After(gm, n).ms.gs = "playing"
                               /\ Allowed(After(gm, n).ms, gm.recs[n + 1])
    BY <2>1 DEF Plays
  <2>3. QED
    BY <1>1, <1>2, <1>4, <2>2 DEF Sound
<1>5. QED
  BY <1>3, <1>4

(* A record that may follow the first n records of a game makes, with them,
   a game on record again, and a replay of it gives the state it led to. *)
LEMMA Extend ==
    ASSUME NEW gm, Plays(gm), NEW n \in 0..Len(gm.recs), NEW r,
           IF n = 0 THEN \E p \in Player : Opener(r, p)
           ELSE After(gm, n).ms.gs = "playing" /\ Allowed(After(gm, n).ms, r)
    PROVE  LET u   == Applied(After(gm, n).ms, gm.info, r)
               new == [info |-> u.info, recs |-> Append(SubSeq(gm.recs, 1, n), r)]
           IN  /\ Plays(new) /\ After(new, n + 1) = u
               /\ Len(new.recs) = n + 1 /\ SameStart(gm.info, u.info)
<1> DEFINE x == After(gm, n).ms
           u == Applied(x, gm.info, r)
           kept == SubSeq(gm.recs, 1, n)
           new == [info |-> u.info, recs |-> Append(kept, r)]
<1>1. /\ gm \in Game /\ gm.info \in GameInfo /\ Start(gm.info)
      /\ gm.recs \in Seq(Record) /\ Len(gm.recs) \in Nat /\ n \in Nat
      /\ Sound(x) /\ x \in MatchStates /\ n <= Len(gm.recs)
  BY Part
<1>2. /\ Valid(r) /\ Sound(u.ms) /\ Fits(u.ms, u.info) /\ SameStart(gm.info, u.info)
      /\ u.ms.gs # "none" /\ (u.ms.gs = "playing" => u.ms.fResigned = 0)
  <2>1. CASE n = 0
    <3>1. x = ApplyGameInfo(gm.info)
      BY <2>1, Part
    <3>2. PICK p \in Player : Opener(r, p)
      BY <2>1
    <3>3. QED
      BY <1>1, <3>1, <3>2, OpenerAgrees
  <2>2. CASE n # 0
    <3>1. Fits(x, gm.info) /\ x.gs = "playing" /\ x.fResigned = 0 /\ Allowed(x, r)
      BY <1>1, <2>2, Part
    <3> HIDE DEF x
    <3>2. Applies(x, gm.info, r) /\ Valid(r) /\ (u.ms.gs = "playing" => u.ms.fResigned = 0)
      BY <1>1, <3>1, AllowedApplies
    <3>3. QED
      BY <3>2 DEF Applies
  <2>3. QED
    BY <2>1, <2>2
<1> HIDE DEF x
<1>3. /\ Applied(x, u.info, r) = u /\ u.info \in GameInfo
      /\ ApplyGameInfo(u.info) = ApplyGameInfo(gm.info)
      /\ u.info.nAutoDoubles = gm.info.nAutoDoubles
  <2>1. u.info \in GameInfo
    BY <1>2 DEF Fits
  <2>2. QED
    BY <1>1, <1>2, <2>1, AppliedInfo
<1>4. /\ kept \in Seq(Record) /\ Len(kept) = n
      /\ \A k \in 1..n : kept[k] = gm.recs[k]
  BY <1>1
<1>5. r \in Record
  BY <1>2 DEF Valid
<1> HIDE DEF kept, u
<1>6. /\ new.recs \in Seq(Record) /\ Len(new.recs) = n + 1 /\ new.recs[n + 1] = r
      /\ \A k \in 1..n : new.recs[k] = gm.recs[k]
      /\ new.info = u.info
  BY <1>1, <1>4, <1>5
<1>7. new \in Game
  BY <1>3, <1>6 DEF Game
<1>8. Start(u.info)
  BY <1>1, <1>2, <1>3 DEF Start, SameStart
<1> HIDE DEF new
<1> DEFINE S == {k \in Nat : k <= n =>
                    After(new, k) = [ms |-> After(gm, k).ms, info |-> u.info]}
<1>9. 0 \in S
  <2>1. After(new, 0) = [ms |-> ApplyGameInfo(u.info), info |-> u.info]
    BY <1>6, <1>7, AfterDef
  <2>2. After(gm, 0).ms = ApplyGameInfo(gm.info)
    BY <1>1, AfterDef
  <2>3. QED
    BY <1>3, <2>1, <2>2
<1>10. ASSUME NEW k \in Nat, k \in S PROVE k + 1 \in S
  <2> SUFFICES ASSUME k + 1 <= n
      PROVE  After(new, k + 1) = [ms |-> After(gm, k + 1).ms, info |-> u.info]
    OBVIOUS
  <2> DEFINE m == After(gm, k).ms
             q == gm.recs[k + 1]
             a == Applied(m, gm.info, q)
             c == Applied(m, u.info, q)
  <2>1. /\ k <= n /\ k < Len(gm.recs) /\ k < Len(new.recs)
        /\ k \in 0..Len(gm.recs) /\ k + 1 \in 1..n /\ k + 1 \in 0..Len(gm.recs)
        /\ k + 1 > 0
    BY <1>1, <1>6
  <2>2. After(new, k).ms = m /\ After(new, k).info = u.info
    BY <1>10, <2>1
  <2>3. new.recs[k + 1] = q
    BY <1>6, <2>1
  <2>4. After(new, k + 1) = c
    BY <1>7, <2>1, <2>2, <2>3, AfterDef
  <2>5. m \in MatchStates /\ After(gm, k).info = gm.info
    BY <2>1, Part
  <2>6. After(gm, k + 1) = a
    BY <1>1, <2>1, <2>5, AfterDef
  <2>7. After(gm, k + 1).ms.gs = "playing"
    <3>1. CASE k + 1 < n
      <4>1. k + 1 < Len(gm.recs)
        BY <1>1, <3>1
      <4>2. QED
        BY <2>1, <4>1, Part
    <3>2. CASE k + 1 = n
      BY <3>2 DEF x
    <3>3. QED
      BY <2>1, <3>1, <3>2
  <2>8. Valid(q)
    <3>1. CASE k = 0
      <4>1. gm.recs # <<>> /\ q = gm.recs[1] /\ q \in Record
        BY <1>1, <2>1, <3>1
      <4>2. Opener(q, q.fPlayer) /\ q.fPlayer \in Player
        BY <4>1 DEF Plays, Record
      <4>3. QED
        BY <4>2, AllowedValid
    <3>2. CASE k # 0
      <4>1. k > 0
        BY <3>2
      <4>2. Sound(m) /\ Allowed(m, q) /\ m.gs = "playing"
        BY <2>1, <4>1, Part
      <4>3. m.fTurn \in Player
        BY <4>2, Players DEF Sound, InGame, Decider
      <4>4. QED
        BY <4>2, <4>3, AllowedValid
    <3>3. QED
      BY <3>1, <3>2
  <2> HIDE DEF m, q
  <2>9. c.ms = a.ms
    BY <1>1, <1>3, <2>5, <2>8, AppliedInfo
  <2>10. (c.ms.gs = "playing" => c.info = u.info) /\ c = [ms |-> c.ms, info |-> c.info]
    BY <1>3, <2>5, <2>8, AppliedInfo
  <2> HIDE DEF a, c
  <2>11. QED
    BY <2>4, <2>6, <2>7, <2>9, <2>10
<1> HIDE DEF S
<1>11. \A k \in Nat : k \in S
  BY <1>9, <1>10, Induct
<1>12. \A k \in 0..n : After(new, k).ms = After(gm, k).ms /\ After(new, k).info = u.info
  BY <1>1, <1>11 DEF S
<1>13. After(new, n + 1) = u
  <2>1. n < Len(new.recs) /\ n \in 0..n
    BY <1>1, <1>6
  <2>2. After(new, n + 1) = Applied(x, u.info, r)
    BY <1>1, <1>6, <1>7, <1>12, <2>1, AfterDef DEF x
  <2>3. QED
    BY <1>3, <2>2
<1>14. \E p \in Player : Opener(new.recs[1], p)
  <2>1. CASE n = 0
    BY <1>6, <2>1
  <2>2. CASE n # 0
    <3>1. 1 \in 1..n /\ gm.recs # <<>> /\ gm.recs[1] \in Record
      BY <1>1, <2>2
    <3>2. Opener(gm.recs[1], gm.recs[1].fPlayer) /\ gm.recs[1].fPlayer \in Player
      BY <3>1 DEF Plays, Record
    <3>3. QED
      BY <1>6, <3>1, <3>2
  <2>3. QED
    BY <2>1, <2>2
<1>15. Opener(new.recs[1], new.recs[1].fPlayer)
  BY <1>14 DEF Opener, Rec
<1>16. ASSUME NEW k \in 1..Len(new.recs)
       PROVE LET t == After(new, k)
             IN  /\ Sound(t.ms) /\ Fits(t.ms, new.info) /\ t.info = new.info
                 /\ t.ms.gs # "none" /\ (t.ms.gs = "playing" => t.ms.fResigned = 0)
                 /\ k < Len(new.recs) =>
                       t.ms.gs = "playing" /\ Allowed(t.ms, new.recs[k + 1])
  <2>1. CASE k = n + 1
    BY <1>1, <1>2, <1>6, <1>13, <2>1
  <2>2. CASE k # n + 1
    <3> DEFINE m == After(gm, k).ms
    <3>1. k \in 1..n /\ k \in 0..n /\ k > 0 /\ k \in 0..Len(gm.recs)
      BY <1>1, <1>6, <2>2
    <3>2. After(new, k).ms = m /\ After(new, k).info = u.info
      BY <1>12, <3>1
    <3>3. /\ Sound(m) /\ Fits(m, gm.info) /\ m.gs # "none"
          /\ (m.gs = "playing" => m.fResigned = 0)
      BY <3>1, Part
    <3>4. m.gs = "playing" /\ Allowed(m, new.recs[k + 1])
      <4>1. CASE k = n
        <5>1. After(gm, n).ms.gs = "playing" /\ Allowed(After(gm, n).ms, r)
          BY <1>1, <3>1, <4>1
        <5>2. QED
          BY <1>6, <4>1, <5>1
      <4>2. CASE k # n
        <5>1. k < Len(gm.recs) /\ k + 1 \in 1..n
          BY <1>1, <3>1, <4>2
        <5>2. m.gs = "playing" /\ Allowed(m, gm.recs[k + 1])
          BY <3>1, <5>1, Part
        <5>3. QED
          BY <1>6, <5>1, <5>2
      <4>3. QED
        BY <4>1, <4>2
    <3> HIDE DEF m
    <3>5. Fits(m, u.info)
      BY <1>2, <1>3, <3>3, <3>4 DEF Fits, SameStart, Ended
    <3>6. QED
      BY <1>6, <3>2, <3>3, <3>4, <3>5
  <2>3. QED
    BY <2>1, <2>2
<1>17. Plays(new)
  BY <1>6, <1>7, <1>8, <1>15, <1>16 DEF Plays
<1>18. QED
  BY <1>2, <1>6, <1>13, <1>17 DEF new, u, kept, x

(* What CalculateBoard gives for a game on record: the state that was led
   to, and at the GAMEINFO record the turn of the first play. *)
LEMMA Recalculated ==
    ASSUME NEW gm, Plays(gm), NEW n \in 0..Len(gm.recs)
    PROVE  LET t == CalculateBoard(gm, n)
               m == After(gm, n).ms
           IN  /\ t.info = gm.info
               /\ n > 0 => t.ms = m /\ FixForNext(m, gm.recs, n) = m
               /\ n = 0 => \/ t.ms = ApplyGameInfo(gm.info)
                           \/ /\ gm.recs # <<>>
                              /\ t.ms = Turned(gm.info, gm.recs[1].fPlayer)
<1> DEFINE m == After(gm, n).ms
<1>1. /\ gm \in Game /\ Start(gm.info) /\ Len(gm.recs) \in Nat /\ n \in Nat
      /\ gm.recs \in Seq(Record)
      /\ After(gm, n).info = gm.info
  BY Part
<1>2. CalculateBoard(gm, n) = [ms |-> FixForNext(m, gm.recs, n), info |-> gm.info]
  BY <1>1, AfterDef
<1>3. CASE n > 0
  <2>1. FixForNext(m, gm.recs, n) = m
    <3>1. CASE ~(n < Len(gm.recs))
      BY <3>1 DEF FixForNext
    <3>2. CASE n < Len(gm.recs)
      <4> DEFINE r == gm.recs[n + 1]
      <4>1. Allowed(m, r)
        BY <1>3, <3>2, Part
      <4> HIDE DEF m
      <4>2. r.mt \in {"normal", "double"} => m.fTurn = r.fPlayer
        BY <4>1 DEF Allowed, Rec
      <4>3. FixMatchState(m, r) = m
        BY <4>2 DEF FixMatchState
      <4>4. QED
        BY <3>2, <4>3 DEF FixForNext
    <3>3. QED
      BY <3>1, <3>2
  <2>2. QED
    BY <1>2, <1>3, <2>1
<1>4. CASE n = 0
  <2> DEFINE b == ApplyGameInfo(gm.info)
  <2>1. m = b
    BY <1>4, Part
  <2>2. CASE ~(0 < Len(gm.recs))
    BY <1>2, <1>4, <2>1, <2>2 DEF FixForNext
  <2>3. CASE 0 < Len(gm.recs)
    <3> DEFINE r == gm.recs[1]
    <3>1. gm.recs # <<>> /\ r \in Record
      BY <1>1, <2>3
    <3>2. Opener(r, r.fPlayer) /\ r.fPlayer \in Player
      BY <3>1 DEF Plays, Record
    <3>3. /\ b \in MatchStates /\ b.side = NoOne /\ b.fTurn = NoOne
      BY <1>1, StartFields
    <3>4. FixForNext(m, gm.recs, n) = FixMatchState(b, r)
      BY <1>4, <2>1, <2>3 DEF FixForNext
    <3>5. Turned(gm.info, r.fPlayer) = [b EXCEPT !.fTurn = r.fPlayer, !.fMove = r.fPlayer]
      BY DEF Turned
    <3> HIDE DEF b, r
    <3>6. FixMatchState(b, r) = b \/ FixMatchState(b, r) = Turned(gm.info, r.fPlayer)
      <4>1. CASE ~(r.mt \in {"normal", "double"} /\ b.fTurn # r.fPlayer)
        BY <4>1 DEF FixMatchState
      <4>2. CASE r.mt \in {"normal", "double"} /\ b.fTurn # r.fPlayer
        <5>1. FixMatchState(b, r) = [b EXCEPT !.side = NoOne, !.fMove = r.fPlayer,
                                              !.fTurn = r.fPlayer]
          BY <3>3, <4>2 DEF FixMatchState, SwapSides
        <5>2. [b EXCEPT !.side = NoOne, !.fMove = r.fPlayer, !.fTurn = r.fPlayer]
               = [b EXCEPT !.fTurn = r.fPlayer, !.fMove = r.fPlayer]
          BY <3>3 DEF MatchStates
        <5>3. QED
          BY <3>5, <5>1, <5>2
      <4>3. QED
        BY <4>1, <4>2
    <3>7. QED
      BY <1>2, <1>4, <3>1, <3>4, <3>6 DEF b, r
  <2>4. QED
    BY <2>2, <2>3
<1>5. QED
  BY <1>1, <1>3, <1>4

(* Match state m is what the first n records of game gm lead to, in a game
   in progress. *)
Point(m, gm, n) ==
    IF n = 0 THEN \E p \in Player : Same(m, Opening(gm.info, p))
             ELSE Same(m, After(gm, n).ms)

(* The record of a command makes a game on record again. *)
LEMMA AddAfter ==
    ASSUME NEW gm, Plays(gm), NEW n \in 0..Len(gm.recs), NEW m, Sound(m),
           m.gs = "playing", Point(m, gm, n), NEW r, Allowed(m, r),
           m.fResigned = 0 \/ r.mt = "resign",
           n = 0 => r.mt \in {"normal", "setdice", "resign"}
    PROVE  LET u   == Applied(m, gm.info, r)
               new == [info |-> u.info, recs |-> Append(SubSeq(gm.recs, 1, n), r)]
           IN  /\ Plays(new) /\ Len(new.recs) = n + 1
               /\ SameStart(gm.info, u.info) /\ Same(u.ms, After(new, n + 1).ms)
               /\ Fits(m, gm.info)
<1> DEFINE g == gm.info
           x == After(gm, n).ms
           u == Applied(m, g, r)
           w == Applied(x, g, r)
<1>1. /\ Start(g) /\ Sound(x) /\ n \in Nat /\ g \in GameInfo
  BY Part
<1>2. SUFFICES /\ IF n = 0 THEN \E p \in Player : Opener(r, p)
                  ELSE x.gs = "playing" /\ Allowed(x, r)
               /\ Same(u.ms, w.ms) /\ w.info = u.info /\ Fits(m, g)
  <2>1. LET new == [info |-> w.info, recs |-> Append(SubSeq(gm.recs, 1, n), r)]
        IN  /\ Plays(new) /\ After(new, n + 1) = w
            /\ Len(new.recs) = n + 1 /\ SameStart(g, w.info)
    BY <1>2, Extend
  <2> HIDE DEF u, w
  <2>2. QED
    BY <1>2, <2>1 DEF u
<1>3. CASE n # 0
  <2>1. Same(m, x)
    BY <1>3 DEF Point
  <2>2. Fits(x, g) /\ (x.gs = "playing" => x.fResigned = 0)
    BY <1>1, <1>3, Part
  <2> HIDE DEF x
  <2>3. x.gs = "playing" /\ Fits(m, g)
    BY <2>1, <2>2 DEF Same, Fits, Ended
  <2>4. Allowed(x, r) /\ Same(u.ms, w.ms) /\ w.info = u.info
    BY <1>1, <2>1, <2>2, <2>3, AgreeApplied
  <2>5. QED
    BY <1>3, <2>3, <2>4 DEF x
<1>4. CASE n = 0
  <2>1. PICK p \in Player : Same(m, Opening(g, p))
    BY <1>4 DEF Point
  <2> DEFINE o == Opening(g, p)
             b == ApplyGameInfo(g)
  <2>2. /\ Sound(o) /\ Fits(o, g) /\ o.gs = "playing" /\ o.fResigned = 0
        /\ o.fTurn = p /\ o.fMove = p /\ o.fDoubled = FALSE
    BY <1>1, OpeningSound
  <2>3. x = b
    BY <1>4, Part
  <2>4. Same(m, o)
    BY <2>1
  <2> HIDE DEF o, x, b
  <2>5. Fits(m, g)
    BY <2>2, <2>4 DEF Same, Fits, Ended
  <2>6. /\ Allowed(o, r) /\ Same(u.ms, Applied(o, g, r).ms)
        /\ Applied(o, g, r).info = u.info
    BY <2>2, <2>4, AgreeApplied
  <2>7. CASE r.mt = "resign"
    <3>1. r = Rec("resign", r.fPlayer, r.v) /\ r.fPlayer \in Player /\ r.v \in 1..3
      BY <2>7 DEF Allowed, Rec
    <3>2. Opener(r, r.fPlayer)
      BY <3>1 DEF Opener
    <3>3. b \in MatchStates /\ m \in MatchStates
      BY <1>1, StartFields DEF Sound, b
    <3>4. /\ Finished(m, g, u, "resigned", Other(r.fPlayer), m.nCube * r.v)
          /\ Finished(b, g, w, "resigned", Other(r.fPlayer), b.nCube * r.v)
      BY <2>3, <3>1, <3>3, ResignEffect
    <3>5. /\ m.nCube = b.nCube /\ m.anScore = b.anScore /\ m.cGames = b.cGames
          /\ m.nMatchTo = b.nMatchTo
      <4>1. /\ b.nCube = 2 ^ g.nAutoDoubles /\ b.anScore = g.anScore
            /\ b.cGames = g.i /\ b.nMatchTo = g.nMatch
        BY <1>1, StartFields DEF b
      <4>2. o.nCube = 2 ^ g.nAutoDoubles
        BY <1>1, OpeningCube DEF o
      <4>3. QED
        BY <2>2, <2>4, <4>1, <4>2 DEF Same, Fits
    <3> HIDE DEF u, w
    <3>6. Same(u.ms, w.ms) /\ w.info = u.info
      BY <3>4, <3>5 DEF Finished, Same
    <3>7. QED
      BY <1>4, <2>5, <3>1, <3>2, <3>6 DEF u, w
  <2>8. CASE r.mt \in {"normal", "setdice"}
    <3>1. Opener(r, p)
      <4>1. r = Rec(r.mt, p, r.v) /\ r.v \in 0..3 /\ (r.mt = "setdice" => r.v = 0)
        BY <2>2, <2>6, <2>8 DEF Allowed, Rec
      <4>2. QED
        BY <2>8, <4>1 DEF Opener
    <3>2. Same(Applied(o, g, r).ms, Applied(b, g, r).ms)
          /\ Applied(b, g, r).info = Applied(o, g, r).info
      BY <1>1, <3>1, OpenerAgrees DEF o, b
    <3> DEFINE y == Applied(o, g, r)
    <3> HIDE DEF u, w, y
    <3>3. Same(u.ms, y.ms) /\ y.info = u.info /\ Same(y.ms, w.ms) /\ w.info = y.info
      BY <2>3, <2>6, <3>2 DEF y, w
    <3>4. Same(u.ms, w.ms) /\ w.info = u.info
      BY <3>3, SameOn
    <3>5. QED
      BY <1>4, <2>5, <3>1, <3>4 DEF u, w
  <2>9. QED
    BY <1>4, <2>7, <2>8
<1>5. QED
  BY <1>3, <1>4

(* The same, with the elisions of AddMoveRecord: a roll at the end of a part
   of a game changes nothing that a replay gives back. *)
LEMMA AddToGame ==
    ASSUME NEW gm, Plays(gm), NEW n \in 0..Len(gm.recs), NEW m, Sound(m),
           m.gs = "playing", Point(m, gm, n), NEW r, Allowed(m, r),
           m.fResigned = 0 \/ r.mt = "resign",
           n = 0 => r.mt \in {"normal", "setdice", "resign"}
    PROVE  LET kept == SubSeq(gm.recs, 1, n)
               base == IF kept # <<>> /\ Elides(r, Last(kept))
                       THEN Front(kept) ELSE kept
               u    == Applied(m, gm.info, r)
               new  == [info |-> u.info, recs |-> Append(base, r)]
           IN  /\ Plays(new) /\ Len(new.recs) > 0
               /\ SameStart(gm.info, u.info)
               /\ Same(u.ms, After(new, Len(new.recs)).ms)
               /\ Fits(m, gm.info)
<1> DEFINE kept == SubSeq(gm.recs, 1, n)
           base == IF kept # <<>> /\ Elides(r, Last(kept))
                   THEN Front(kept) ELSE kept
           u == Applied(m, gm.info, r)
           g == gm.info
<1>1. /\ gm \in Game /\ Start(g) /\ n \in Nat /\ gm.recs \in Seq(Record)
      /\ Len(gm.recs) \in Nat /\ n <= Len(gm.recs)
  BY Part
<1>2. SUFFICES \E k \in 0..Len(gm.recs) :
                   /\ base = SubSeq(gm.recs, 1, k) /\ Point(m, gm, k)
                   /\ k = 0 => r.mt \in {"normal", "setdice", "resign"}
  <2>1. PICK k \in 0..Len(gm.recs) :
                   /\ base = SubSeq(gm.recs, 1, k) /\ Point(m, gm, k)
                   /\ k = 0 => r.mt \in {"normal", "setdice", "resign"}
    BY <1>2
  <2> DEFINE new == [info |-> u.info, recs |-> Append(base, r)]
  <2>2. /\ Plays(new) /\ Len(new.recs) = k + 1
        /\ SameStart(g, u.info) /\ Same(u.ms, After(new, k + 1).ms)
        /\ Fits(m, g)
    <3> HIDE DEF base, u
    <3>1. LET nw == [info |-> u.info, recs |-> Append(SubSeq(gm.recs, 1, k), r)]
          IN  /\ Plays(nw) /\ Len(nw.recs) = k + 1
              /\ SameStart(g, u.info) /\ Same(u.ms, After(nw, k + 1).ms)
              /\ Fits(m, g)
      BY <2>1, AddAfter DEF u
    <3>2. QED
      BY <2>1, <3>1
  <2> HIDE DEF base, u
  <2>3. Len(new.recs) > 0
    BY <2>2
  <2>4. QED
    BY <2>2, <2>3 DEF base, u
<1>3. CASE base = kept
  BY <1>3
<1>4. CASE kept # <<>> /\ Elides(r, Last(kept))
  <2> DEFINE q == gm.recs[n]
             x == After(gm, n).ms
             y == After(gm, n - 1).ms
  <2>1. n # 0
    BY <1>1, <1>4
  <2>2. /\ n - 1 \in 0..Len(gm.recs) /\ n - 1 \in Nat /\ n - 1 < Len(gm.recs)
        /\ (n - 1) + 1 = n /\ n > 0 /\ gm.recs # <<>>
    BY <1>1, <2>1
  <2>3. kept \in Seq(Record) /\ Len(kept) = n /\ Last(kept) = q
    BY <1>1, <2>1 DEF Last
  <2>4. Front(kept) = SubSeq(gm.recs, 1, n - 1)
    <3>1. Front(kept) = SubSeq(kept, 1, n - 1)
      BY <2>3 DEF Front
    <3>2. \A k \in 1..n : kept[k] = gm.recs[k]
      BY <1>1
    <3> HIDE DEF kept
    <3>3. QED
      BY <1>1, <2>2, <2>3, <3>1, <3>2
  <2>5. /\ r.mt \in {"normal", "setdice"} /\ q.mt = "setdice"
        /\ r.fPlayer = q.fPlayer
    BY <1>4, <2>3 DEF Elides, Allowed, Rec
  <2>6. Same(m, x)
    BY <2>1 DEF Point
  <2>7. After(gm, n) = Applied(y, g, q)
    <3>1. After(gm, n - 1).info = g
      BY <2>2, Part
    <3>2. QED
      BY <1>1, <2>2, <3>1, AfterDef
  <2>8. CASE n = 1
    <3>1. q = gm.recs[1] /\ q \in Record /\ y = ApplyGameInfo(g)
      <4>1. n - 1 = 0
        BY <2>8
      <4>2. QED
        BY <1>1, <2>2, <2>8, <4>1, Part
    <3>2. Opener(q, q.fPlayer) /\ q.fPlayer \in Player
      BY <2>2, <3>1 DEF Plays, Record
    <3>3. Same(Opening(g, q.fPlayer), x)
      BY <1>1, <2>5, <2>7, <3>1, <3>2, OpenerAgrees
    <3>4. Same(m, Opening(g, q.fPlayer))
      BY <2>6, <3>3, SameOn
    <3>5. Point(m, gm, 0)
      BY <3>2, <3>4 DEF Point
    <3>6. QED
      BY <1>4, <2>2, <2>4, <2>5, <2>8, <3>5
  <2>9. CASE n # 1
    <3>1. n - 1 > 0
      BY <2>2, <2>9
    <3>2. /\ Sound(y) /\ y.gs = "playing" /\ y.fResigned = 0 /\ Allowed(y, q)
      BY <2>2, <3>1, Part
    <3>3. q = Rec("setdice", y.fTurn, 0) /\ y.fDoubled = FALSE
      <4>1. q = Rec("setdice", y.fTurn, 0) /\ ~y.fDoubled
        BY <2>5, <3>2 DEF Allowed, Rec
      <4>2. y.fDoubled \in BOOLEAN
        BY <3>2, Fields DEF Sound
      <4>3. QED
        BY <4>1, <4>2
    <3>4. InPlayState(y)
      BY <3>2 DEF Sound, InPlayState
    <3>5. Shown(Applied(y, g, q), y, g, y.side, y.fMove, FALSE, y.fCubeOwner,
                y.cBeavers, y.nCube)
      BY <3>3, <3>4, RollEffect
    <3>6. Same(y, x)
      <4> DEFINE a == Applied(y, g, q)
      <4>1. x = a.ms
        BY <2>7
      <4> HIDE DEF x, y, a
      <4>2. Same(y, a.ms)
        BY <3>2, <3>3, <3>5 DEF Same, Shown, GoesOn, a
      <4>3. QED
        BY <4>1, <4>2
    <3>7. Same(m, y)
      BY <2>6, <3>6, SameOn
    <3>8. Point(m, gm, n - 1)
      BY <3>1, <3>7 DEF Point
    <3>9. QED
      BY <1>4, <2>2, <2>4, <3>1, <3>8
  <2>10. QED
    BY <2>8, <2>9
<1>5. QED
  BY <1>3, <1>4
=============================================================================
