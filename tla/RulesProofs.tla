----------------------------- MODULE RulesProofs -----------------------------
(***************************************************************************)
(* The Crawford rule and the rules of MatchRules, for every match length,  *)
(* cube limit, setting and kind of players.  NextTurn derives the Crawford *)
(* game from two flags and the winner's score; the invariant below says    *)
(* what the flags know of the games that have been played.                 *)
(***************************************************************************)
EXTENDS MatchProofs

(* The flags are up to date only once NextTurn has settled the game: with
   `automatic crawford' on, no command comes in between. *)
Timely == AutoCrawford => ~CommandsWhilePending

-----------------------------------------------------------------------------
(* The invariant. *)

(* Exactly the Crawford game is marked as one. *)
Marked(l) ==
    \A k \in 1..Len(l) : l[k].info.nMatch > 0 =>
        (l[k].info.fCrawfordGame <=>
            /\ k > 1 /\ OneAway(l[k].info)
            /\ \A j \in 1..(k - 1) : ~OneAway(l[j].info))

(* A player who is a point short of the match stays so until it is over. *)
Rising(l) ==
    \A i, j \in 1..Len(l) : i <= j /\ OneAway(l[i].info) => OneAway(l[j].info)

(* During a game the flags are those of its GAMEINFO record. *)
Flagged(m, g) ==
    /\ m.fCrawford = g.fCrawfordGame
    /\ g.nMatch > 0 => (m.fPostCrawford <=> ~g.fCrawfordGame /\ OneAway(g))

(* Between games fCrawford is set iff the next game is the Crawford game. *)
Due(l, m) ==
    m.nMatchTo > 0 =>
        (m.fCrawford <=>
            /\ Len(l) > 0 /\ \E p \in Player : m.anScore[p] = m.nMatchTo - 1
            /\ \A j \in 1..Len(l) : ~OneAway(l[j].info))

(* A game is in progress, or it has ended and NextTurn is still to run. *)
Active(s) == s.plGame # 0 /\ (Playing(s) \/ s.fNextTurn)

CrawfordInv(s) ==
    /\ Marked(s.lMatch) /\ Rising(s.lMatch)
    /\ Active(s) => Flagged(s.ms, s.lMatch[s.plGame].info)
    /\ ~Active(s) /\ ~MatchOver(s.ms) => Due(s.lMatch, s.ms)

-----------------------------------------------------------------------------
(* The list of games. *)

(* Whether a game is the Crawford game depends on its start only. *)
LEMMA SameAway ==
    ASSUME NEW g, NEW h, SameStart(g, h)
    PROVE  OneAway(h) <=> OneAway(g)
BY DEF SameStart, OneAway

(* Records that keep the starts and the Crawford marks of the games before
   game k keep what Marked and Rising say of them. *)
LEMMA KeptMarks ==
    ASSUME NEW l, NEW k \in Nat, k <= Len(l), Len(l) \in Nat, NEW e, Len(e) \in Nat,
           k <= Len(e),
           \A j \in 1..k : SameStart(l[j].info, e[j].info),
           Marked(l), Rising(l)
    PROVE  /\ \A j \in 1..k : OneAway(e[j].info) <=> OneAway(l[j].info)
           /\ \A j \in 1..k : e[j].info.nMatch > 0 =>
                 (e[j].info.fCrawfordGame <=>
                    /\ j > 1 /\ OneAway(e[j].info)
                    /\ \A i \in 1..(j - 1) : ~OneAway(e[i].info))
           /\ \A i, j \in 1..k :
                 i <= j /\ OneAway(e[i].info) => OneAway(e[j].info)
<1>1. \A j \in 1..k : OneAway(e[j].info) <=> OneAway(l[j].info)
  BY SameAway
<1>2. \A j \in 1..k : j \in 1..Len(l)
  OBVIOUS
<1>3. ASSUME NEW j \in 1..k, e[j].info.nMatch > 0
      PROVE  e[j].info.fCrawfordGame <=>
                    /\ j > 1 /\ OneAway(e[j].info)
                    /\ \A i \in 1..(j - 1) : ~OneAway(e[i].info)
  <2>1. /\ l[j].info.nMatch > 0 /\ j \in 1..Len(l)
        /\ e[j].info.fCrawfordGame = l[j].info.fCrawfordGame
    BY <1>2, <1>3 DEF SameStart
  <2>2. l[j].info.fCrawfordGame <=>
           /\ j > 1 /\ OneAway(l[j].info)
           /\ \A i \in 1..(j - 1) : ~OneAway(l[i].info)
    BY <2>1 DEF Marked
  <2>3. \A i \in 1..(j - 1) : OneAway(e[i].info) <=> OneAway(l[i].info)
    BY <1>1
  <2>4. QED
    BY <1>1, <2>1, <2>2, <2>3
<1>4. \A i, j \in 1..k :
         i <= j /\ OneAway(e[i].info) => OneAway(e[j].info)
  BY <1>1, <1>2 DEF Rising
<1>5. QED
  BY <1>1, <1>3, <1>4

(* The score of the game after g, while the match is not won. *)
LEMMA NextAway ==
    ASSUME NEW g \in GameInfo, NEW sc, sc = ScoreAfter(g), g.fWinner # NoOne,
           g.nMatch > 0, \A p \in Player : sc[p] < g.nMatch
    PROVE  LET w == g.fWinner
           IN  /\ w \in Player /\ Other(w) \in Player
               /\ sc[Other(w)] = g.anScore[Other(w)]
               /\ sc[w] = g.anScore[w] + g.nPoints
               /\ sc \in [Player -> Nat]
               /\ OneAway(g) => \E p \in Player : sc[p] = g.nMatch - 1
<1> DEFINE w == g.fWinner
<1>1. /\ w \in Player /\ g.anScore \in [Player -> Nat] /\ g.nPoints \in Nat
      /\ g.nMatch \in Nat
  BY DEF GameInfo
<1>2. Other(w) \in Player /\ Other(w) # w
  BY <1>1, Players
<1>3. sc = [g.anScore EXCEPT ![w] = @ + g.nPoints]
  BY DEF ScoreAfter
<1>4. /\ sc[Other(w)] = g.anScore[Other(w)]
      /\ sc[w] = g.anScore[w] + g.nPoints
      /\ sc \in [Player -> Nat]
  BY <1>1, <1>2, <1>3
<1>5. ASSUME OneAway(g)
      PROVE  \E p \in Player : sc[p] = g.nMatch - 1
  <2>1. PICK p \in Player : g.anScore[p] = g.nMatch - 1
    BY <1>5 DEF OneAway
  <2>2. CASE p = w
    <3>1. sc[w] < g.nMatch /\ g.anScore[w] = g.nMatch - 1
      BY <1>1, <2>1, <2>2
    <3>2. sc[w] = g.nMatch - 1
      BY <1>1, <1>4, <3>1
    <3>3. QED
      BY <1>1, <3>2
  <2>3. CASE p # w
    <3>1. p = Other(w)
      BY <1>1, <2>1, <2>3 DEF Player, Other
    <3>2. QED
      BY <1>2, <1>4, <2>1, <3>1
  <2>4. QED
    BY <2>2, <2>3
<1>6. QED
  BY <1>1, <1>2, <1>4, <1>5

-----------------------------------------------------------------------------
(* The start of a game. *)

(* The game that starts is marked, and a Crawford game is one to the players
   too: if the game before was not one point short, its loser is not. *)
LEMMA CrawfordStart ==
    ASSUME NEW l, Len(l) \in Nat, NEW m, NEW t, Begins(l, m, t), Unwon(m),
           Marked(l), Rising(l), Due(l, m)
    PROVE  CrawfordInv(t) /\ CrawfordDue(m)
<1> DEFINE k == Len(l) + 1
           e == t.lMatch
           h == e[k].info
<1>1. /\ Good(t) /\ Playing(t) /\ t.plGame = k /\ Len(e) = k
      /\ \A j \in 1..(k - 1) : SameStart(l[j].info, e[j].info)
      /\ h.anScore = m.anScore /\ h.nMatch = m.nMatchTo
      /\ h.fCrawfordGame = m.fCrawford /\ t.ms.fCrawford = m.fCrawford
      /\ t.ms.fPostCrawford = (~m.fCrawford /\
             \E p \in Player : m.anScore[p] = m.nMatchTo - 1)
  BY DEF Begins, Opens
<1>2. /\ t.ms \in MatchStates /\ Fits(t.ms, h) /\ Chained(e)
      /\ Sound(t.ms) /\ e \in Seq(Game)
  BY <1>1, InProgress DEF States, Good
<1>3. /\ h \in GameInfo /\ h.nMatch \in Nat /\ h.anScore \in [Player -> Nat]
      /\ t.ms.nMatchTo = h.nMatch /\ m.fCrawford \in BOOLEAN
  BY <1>1, <1>2, Fields DEF Fits, GameInfo
<1>4. OneAway(h) <=> \E p \in Player : m.anScore[p] = m.nMatchTo - 1
  BY <1>1 DEF OneAway
<1>5. /\ \A j \in 1..(k - 1) : OneAway(e[j].info) <=> OneAway(l[j].info)
      /\ \A j \in 1..(k - 1) : e[j].info.nMatch > 0 =>
                 (e[j].info.fCrawfordGame <=>
                    /\ j > 1 /\ OneAway(e[j].info)
                    /\ \A i \in 1..(j - 1) : ~OneAway(e[i].info))
      /\ \A i, j \in 1..(k - 1) :
                 i <= j /\ OneAway(e[i].info) => OneAway(e[j].info)
  <2>1. k - 1 \in Nat /\ k - 1 <= Len(l) /\ Len(e) \in Nat /\ k - 1 <= Len(e)
    BY <1>1
  <2>2. \A j \in 1..(k - 1) : SameStart(l[j].info, e[j].info)
    BY <1>1
  <2> DEFINE n == k - 1
  <2> HIDE DEF e, k, n, h
  <2>3. /\ n \in Nat /\ n <= Len(l) /\ Len(e) \in Nat /\ n <= Len(e)
        /\ \A j \in 1..n : SameStart(l[j].info, e[j].info)
    BY <2>1, <2>2 DEF n
  <2>4. /\ \A j \in 1..n : OneAway(e[j].info) <=> OneAway(l[j].info)
        /\ \A j \in 1..n : e[j].info.nMatch > 0 =>
                 (e[j].info.fCrawfordGame <=>
                    /\ j > 1 /\ OneAway(e[j].info)
                    /\ \A i \in 1..(j - 1) : ~OneAway(e[i].info))
        /\ \A i, j \in 1..n :
                 i <= j /\ OneAway(e[i].info) => OneAway(e[j].info)
    BY <2>3, KeptMarks, Zenon
  <2>5. QED
    BY <2>4 DEF n
<1>6. h.nMatch > 0 =>
         (h.fCrawfordGame <=>
            k > 1 /\ OneAway(h) /\ \A j \in 1..(k - 1) : ~OneAway(e[j].info))
  <2>1. \A j \in 1..Len(l) : OneAway(e[j].info) <=> OneAway(l[j].info)
    BY <1>5
  <2>2. k > 1 <=> Len(l) > 0
    OBVIOUS
  <2> HIDE DEF e, h
  <2>3. QED
    BY <1>1, <1>4, <2>1, <2>2 DEF Due
<1>7. ASSUME Len(l) > 0, h.nMatch > 0
      PROVE  LET g == e[k - 1].info
             IN  /\ g \in GameInfo /\ h.anScore = ScoreAfter(g)
                 /\ g.fWinner # NoOne /\ g.nMatch = h.nMatch
                 /\ \A p \in Player : h.anScore[p] < g.nMatch
  <2> DEFINE g == e[k - 1].info
  <2>1. k - 1 \in 1..(Len(e) - 1) /\ (k - 1) + 1 = k
    BY <1>1, <1>7
  <2>2. Follows(g, h)
    BY <1>2, <2>1 DEF Chained
  <2>3. e[k - 1] \in Game
    BY <1>1, <1>2, <2>1
  <2>4. g \in GameInfo
    BY <2>3 DEF Game
  <2>5. QED
    BY <1>1, <1>7, <2>2, <2>4 DEF Follows, Unwon
<1>8. Rising(e)
  <2>1. SUFFICES ASSUME NEW i \in 1..k, NEW j \in 1..k, i <= j,
                        OneAway(e[i].info)
                 PROVE  OneAway(e[j].info)
    BY <1>1 DEF Rising
  <2>2. CASE j < k
    BY <1>5, <2>1, <2>2
  <2>3. CASE j = k /\ i = k
    BY <2>1, <2>3
  <2>4. CASE j = k /\ i < k
    <3>1. Len(l) > 0 /\ i \in 1..(k - 1) /\ k - 1 \in 1..(k - 1)
          /\ i <= k - 1
      BY <2>4
    <3>2. OneAway(e[k - 1].info)
      BY <1>5, <2>1, <3>1
    <3>3. CASE h.nMatch > 0
      <4> DEFINE g == e[k - 1].info
      <4>1. /\ g \in GameInfo /\ h.anScore = ScoreAfter(g)
            /\ g.fWinner # NoOne /\ g.nMatch = h.nMatch
            /\ \A p \in Player : h.anScore[p] < g.nMatch
        BY <1>7, <3>1, <3>3
      <4> HIDE DEF g
      <4>2. \E p \in Player : h.anScore[p] = g.nMatch - 1
        BY <3>2, <3>3, <4>1, NextAway DEF g
      <4>3. QED
        BY <2>4, <4>1, <4>2 DEF OneAway
    <3>4. CASE h.nMatch = 0
      <4>1. k - 1 \in 1..(Len(e) - 1) /\ (k - 1) + 1 = k
        BY <1>1, <3>1
      <4>2. e[k - 1].info.nMatch = 0
        BY <1>2, <3>4, <4>1 DEF Chained, Follows
      <4>3. e[k - 1] \in Game
        BY <1>1, <1>2, <4>1
      <4>4. e[k - 1].info.anScore \in [Player -> Nat]
        BY <4>3 DEF Game, GameInfo
      <4>5. QED
        BY <3>2, <4>2, <4>4 DEF OneAway
    <3>5. QED
      BY <1>3, <3>3, <3>4
  <2>5. QED
    BY <2>2, <2>3, <2>4
<1>9. Marked(e)
  <2>1. SUFFICES ASSUME NEW j \in 1..k, e[j].info.nMatch > 0
                 PROVE  e[j].info.fCrawfordGame <=>
                          /\ j > 1 /\ OneAway(e[j].info)
                          /\ \A i \in 1..(j - 1) : ~OneAway(e[i].info)
    BY <1>1 DEF Marked
  <2>2. CASE j = k
    BY <1>6, <2>1, <2>2
  <2>3. CASE j # k
    <3>1. j \in 1..(k - 1)
      BY <2>3
    <3> HIDE DEF e
    <3>2. QED
      BY <1>5, <2>1, <3>1
  <2>4. QED
    BY <2>2, <2>3
<1>10. Flagged(t.ms, h)
  BY <1>1, <1>4 DEF Flagged
<1>11. Active(t) /\ t.lMatch[t.plGame].info = h
  BY <1>1 DEF Active
<1>12. CrawfordDue(m)
  <2>1. SUFFICES ASSUME m.fCrawford
                 PROVE  OneShort(m.nMatchTo, m.anScore)
    BY DEF CrawfordDue
  <2>2. m.nMatchTo > 1
    BY <1>1, <1>2, <1>3, <2>1 DEF Sound
  <2>3. /\ Len(l) > 0 /\ \E p \in Player : m.anScore[p] = m.nMatchTo - 1
        /\ \A j \in 1..Len(l) : ~OneAway(l[j].info)
    BY <1>1, <1>3, <2>1, <2>2 DEF Due
  <2> DEFINE g == e[k - 1].info
             w == g.fWinner
  <2>4. k - 1 \in 1..(k - 1) /\ k - 1 \in 1..Len(l)
    BY <2>3
  <2>5. ~OneAway(g)
    BY <1>5, <2>3, <2>4
  <2>6. h.nMatch > 0
    BY <1>1, <1>3, <2>2
  <2>7. /\ g \in GameInfo /\ h.anScore = ScoreAfter(g)
        /\ g.fWinner # NoOne /\ g.nMatch = h.nMatch
        /\ \A p \in Player : h.anScore[p] < g.nMatch
    BY <1>7, <2>3, <2>6
  <2> HIDE DEF g
  <2>8. /\ w \in Player /\ Other(w) \in Player
        /\ h.anScore[Other(w)] = g.anScore[Other(w)]
    BY <2>6, <2>7, NextAway
  <2>9. m.anScore[Other(w)] # m.nMatchTo - 1
    BY <1>1, <2>5, <2>7, <2>8 DEF OneAway
  <2>10. m.anScore[w] = m.nMatchTo - 1
    <3>1. \A p \in Player : p = w \/ p = Other(w)
      BY <2>8 DEF Player, Other
    <3>2. QED
      BY <2>3, <2>9, <3>1
  <2>11. m.anScore[Other(w)] < m.nMatchTo - 1
    <3>1. m.anScore[Other(w)] \in Nat /\ m.nMatchTo \in Nat
      BY <1>1, <1>3, <2>8
    <3>2. m.anScore[Other(w)] < m.nMatchTo
      BY <1>1, <2>7, <2>8
    <3>3. QED
      BY <2>9, <3>1, <3>2
  <2>12. QED
    BY <2>2, <2>8, <2>10, <2>11 DEF OneShort
<1>13. QED
  BY <1>8, <1>9, <1>10, <1>11, <1>12 DEF CrawfordInv
-----------------------------------------------------------------------------
(* The other steps. *)

(* A step of the game in progress leaves the marks and the flags alone. *)
LEMMA CrawfordKept ==
    ASSUME NEW s, Good(s), CrawfordInv(s), NEW t, Leads(s, t), Pends(s, t)
    PROVE  CrawfordInv(t)
<1>1. CASE ~Playing(s)
  BY <1>1 DEF Pends
<1>2. CASE Playing(s)
  <2> DEFINE l == s.lMatch
             e == t.lMatch
             k == s.plGame
             n == Len(l)
  <2>1. /\ l \in Seq(Game) /\ k \in 1..n /\ e \in Seq(Game)
    BY <1>2, InProgress DEF Leads, Good, States
  <2>2. /\ t.plGame = k /\ Len(e) = n /\ SameFlags(s.ms, t.ms)
        /\ \A j \in 1..n : SameStart(l[j].info, e[j].info)
    BY DEF Leads, Keeps
  <2>3. n \in Nat /\ n <= Len(l) /\ Len(l) \in Nat /\ Len(e) \in Nat
        /\ n <= Len(e)
    BY <2>1, <2>2
  <2>4. Active(s) /\ Active(t)
    BY <1>2, <2>1, <2>2 DEF Active, Pends
  <2>5. Marked(l) /\ Rising(l) /\ Flagged(s.ms, l[k].info)
    BY <2>4 DEF CrawfordInv
  <2> HIDE DEF l, e, k, n
  <2>6. /\ \A j \in 1..n : e[j].info.nMatch > 0 =>
                 (e[j].info.fCrawfordGame <=>
                    /\ j > 1 /\ OneAway(e[j].info)
                    /\ \A i \in 1..(j - 1) : ~OneAway(e[i].info))
        /\ \A i, j \in 1..n :
                 i <= j /\ OneAway(e[i].info) => OneAway(e[j].info)
    <3>1. \A j \in 1..n : SameStart(l[j].info, e[j].info)
      BY <2>2
    <3>2. Marked(l) /\ Rising(l)
      BY <2>5
    <3>3. QED
      BY <2>3, <3>1, <3>2, KeptMarks, ZenonT(30)
  <2>7. Marked(e) /\ Rising(e)
    BY <2>2, <2>6 DEF Marked, Rising
  <2>8. SameStart(l[k].info, e[k].info)
    BY <2>1, <2>2
  <2>9. OneAway(e[k].info) <=> OneAway(l[k].info)
    BY <2>8, SameAway
  <2>10. Flagged(t.ms, e[k].info)
    BY <2>2, <2>5, <2>8, <2>9 DEF Flagged, SameFlags, SameStart
  <2>11. QED
    BY <2>2, <2>4, <2>7, <2>10 DEF CrawfordInv, e, k
<1>3. QED
  BY <1>1, <1>2

(* A game in progress that is abandoned is the Crawford game, or not, as the
   one that takes its place. *)
LEMMA CrawfordPop ==
    ASSUME NEW s, Good(s), Playing(s), CrawfordInv(s)
    PROVE  LET l == SubSeq(s.lMatch, 1, s.plGame - 1)
           IN  Len(l) \in Nat /\ Marked(l) /\ Rising(l) /\ Due(l, s.ms)
<1> DEFINE l == s.lMatch
           k == s.plGame
           e == SubSeq(l, 1, k - 1)
           g == l[k].info
<1>1. /\ l \in Seq(Game) /\ k \in 1..Len(l) /\ Fits(s.ms, g)
  BY InProgress DEF States
<1>2. /\ Len(e) = k - 1 /\ \A j \in 1..(k - 1) : e[j] = l[j]
  BY <1>1
<1>3. Marked(l) /\ Rising(l) /\ Flagged(s.ms, g)
  BY <1>1 DEF CrawfordInv, Active
<1>4. /\ s.ms.anScore = g.anScore /\ s.ms.nMatchTo = g.nMatch
  BY <1>1 DEF Fits, Playing
<1> HIDE DEF e, l, g
<1>5. Marked(e)
  <2>1. SUFFICES ASSUME NEW j \in 1..(k - 1), e[j].info.nMatch > 0
                 PROVE  e[j].info.fCrawfordGame <=>
                          /\ j > 1 /\ OneAway(e[j].info)
                          /\ \A i \in 1..(j - 1) : ~OneAway(e[i].info)
    BY <1>2 DEF Marked
  <2>2. /\ e[j] = l[j] /\ j \in 1..Len(l)
        /\ \A i \in 1..(j - 1) : e[i] = l[i]
    <3>1. k \in Int /\ Len(l) \in Int /\ k <= Len(l)
      BY <1>1
    <3>2. j \in 1..Len(l) /\ \A i \in 1..(j - 1) : i \in 1..(k - 1)
      BY <3>1
    <3>3. QED
      BY <1>2, <3>2
  <2>3. QED
    BY <1>3, <2>1, <2>2 DEF Marked
<1>6. Rising(e)
  <2>1. \A j \in 1..(k - 1) : e[j] = l[j] /\ j \in 1..Len(l)
    BY <1>1, <1>2
  <2>2. QED
    BY <1>2, <1>3, <2>1 DEF Rising
<1>7. Due(e, s.ms)
  <2>1. SUFFICES ASSUME g.nMatch > 0
                 PROVE  s.ms.fCrawford <=>
                          /\ Len(e) > 0
                          /\ \E p \in Player : g.anScore[p] = g.nMatch - 1
                          /\ \A j \in 1..Len(e) : ~OneAway(e[j].info)
    BY <1>4 DEF Due
  <2>2. s.ms.fCrawford = g.fCrawfordGame
    BY <1>3 DEF Flagged
  <2>3. g.fCrawfordGame <=>
          k > 1 /\ OneAway(g) /\ \A j \in 1..(k - 1) : ~OneAway(l[j].info)
    BY <1>1, <1>3, <2>1 DEF Marked, g
  <2>4. Len(e) > 0 <=> k > 1
    BY <1>1, <1>2
  <2>5. (\A j \in 1..Len(e) : ~OneAway(e[j].info)) <=>
           \A j \in 1..(k - 1) : ~OneAway(l[j].info)
    BY <1>2
  <2>6. QED
    BY <2>2, <2>3, <2>4, <2>5 DEF OneAway
<1>8. Len(e) \in Nat
  BY <1>1, <1>2
<1>9. QED
  BY <1>5, <1>6, <1>7, <1>8 DEF e, l

(* NextTurn sets the flags for the next game: the two flags together say
   whether the game that has ended was played at a point short of the match,
   and so whether an earlier one was. *)
LEMMA CrawfordSettled ==
    ASSUME AutoCrawford, NEW s, Good(s), s.plGame # 0, s.fNextTurn,
           Ended(s.ms), CrawfordInv(s), ~MatchOver(s.ms)
    PROVE  Due(s.lMatch, Settled(s))
<1> DEFINE l == s.lMatch
           k == s.plGame
           g == l[k].info
           w == g.fWinner
           m == s.ms
           d == Settled(s)
<1>1. /\ l \in Seq(Game) /\ k = Len(l) /\ k \in 1..Len(l) /\ Fits(m, g)
      /\ m \in MatchStates /\ Sound(m)
  <2>1. l \in Seq(Game) /\ k \in Nat /\ k = Len(l)
    BY DEF Good, States, Placed
  <2>2. QED
    BY <2>1 DEF Good, Placed, Sound
<1>2. Marked(l) /\ Rising(l) /\ Flagged(m, g)
  BY DEF CrawfordInv, Active
<1>3. /\ m.anScore = ScoreAfter(g) /\ m.nMatchTo = g.nMatch /\ w \in Player
      /\ g \in GameInfo /\ w # NoOne
  BY <1>1, Players DEF Fits
<1>4. /\ m.anScore \in [Player -> Nat] /\ m.nMatchTo \in Nat
      /\ m.fCrawford \in BOOLEAN /\ m.fPostCrawford \in BOOLEAN
  BY <1>1, Fields
<1>5. d = SetCrawfordFlags(m, w)
  BY DEF Settled
<1> DEFINE post == \/ m.fPostCrawford
                   \/ (m.fCrawford /\ m.anScore[w] < m.nMatchTo)
           craw == /\ ~post /\ ~m.fCrawford
                   /\ m.anScore[w] = m.nMatchTo - 1
                   /\ m.anScore[Other(w)] # m.nMatchTo - 1
<1>6. /\ d.nMatchTo = m.nMatchTo /\ d.anScore = m.anScore
      /\ m.nMatchTo > 0 => d.fCrawford = craw
  <2>1. CASE m.nMatchTo > 0
    <3>1. d = [m EXCEPT !.fPostCrawford = post, !.fCrawford = craw]
      BY <1>5, <2>1 DEF SetCrawfordFlags
    <3> HIDE DEF d, post, craw
    <3>2. QED
      BY <1>1, <3>1 DEF MatchStates
  <2>2. CASE ~(m.nMatchTo > 0)
    BY <1>5, <2>2 DEF SetCrawfordFlags
  <2>3. QED
    BY <2>1, <2>2
<1> HIDE DEF d, l, g, m
<1>7. SUFFICES ASSUME m.nMatchTo > 0
               PROVE  craw <=>
                        /\ Len(l) > 0
                        /\ \E p \in Player : m.anScore[p] = m.nMatchTo - 1
                        /\ \A j \in 1..Len(l) : ~OneAway(l[j].info)
  BY <1>6 DEF Due, l, d
<1>8. \A p \in Player : m.anScore[p] < m.nMatchTo
  <2>1. ~MatchOver(m)
    BY DEF m
  <2>2. QED
    BY <1>4, <1>7, <2>1 DEF MatchOver
<1>9. post <=> m.fPostCrawford \/ m.fCrawford
  BY <1>3, <1>8
<1>10. g.fCrawfordGame => OneAway(g)
  <2>1. l[k].info.nMatch > 0
    BY <1>3, <1>7 DEF g
  <2>2. QED
    BY <1>1, <1>2, <2>1 DEF Marked, g
<1>11. post <=> OneAway(g)
  BY <1>2, <1>3, <1>7, <1>9, <1>10 DEF Flagged
<1>12. OneAway(g) <=> ~(\A j \in 1..Len(l) : ~OneAway(l[j].info))
  <2>1. k \in 1..Len(l) /\ g = l[k].info /\ \A j \in 1..Len(l) : j <= k
    BY <1>1 DEF g
  <2>2. QED
    BY <1>2, <2>1 DEF Rising
<1>13. ASSUME ~OneAway(g)
       PROVE  (\E p \in Player : m.anScore[p] = m.nMatchTo - 1) <=>
                 /\ m.anScore[w] = m.nMatchTo - 1
                 /\ m.anScore[Other(w)] # m.nMatchTo - 1
  <2>1. /\ Other(w) \in Player /\ m.anScore[Other(w)] = g.anScore[Other(w)]
    <3>1. \A p \in Player : m.anScore[p] < g.nMatch
      BY <1>3, <1>8
    <3>2. QED
      BY <1>3, <1>7, <3>1, NextAway
  <2>2. m.anScore[Other(w)] # m.nMatchTo - 1
    BY <1>3, <1>13, <2>1 DEF OneAway
  <2>3. \A p \in Player : p = w \/ p = Other(w)
    BY <1>3 DEF Player, Other
  <2>4. QED
    BY <1>3, <2>2, <2>3
<1>14. Len(l) > 0
  BY <1>1
<1>15. m.fCrawford => post
  BY <1>9
<1> HIDE DEF post
<1>16. QED
  BY <1>11, <1>12, <1>13, <1>14, <1>15

(* CrawfordInv depends on these components only. *)
LEMMA CrawfordSame ==
    ASSUME NEW s, NEW t, CrawfordInv(s), t.ms = s.ms, t.lMatch = s.lMatch,
           t.plGame = s.plGame, t.fNextTurn = s.fNextTurn
    PROVE  CrawfordInv(t)
BY DEF CrawfordInv, Active, Playing

(* Without `automatic crawford' no game is a Crawford game. *)
LEMMA NoCrawford ==
    ASSUME ~AutoCrawford, NEW l, NEW m, NEW t, Begins(l, m, t)
    PROVE  CrawfordDue(m)
BY DEF Begins, Opens, Good, Sound, CrawfordDue

(* The start of a game is a rule. *)
LEMMA StartSeen ==
    ASSUME NEW l, NEW m, NEW t, Begins(l, m, t), CrawfordDue(m),
           NEW n, n.nMatchTo = m.nMatchTo, n.anScore = m.anScore
    PROVE  Sees(n, t.ms)
<1>1. VStart(m.nMatchTo, m.anScore, View(t.ms))
  BY DEF Begins, SeesStart
<1>2. View(n).length = m.nMatchTo /\ View(n).score = m.anScore
  BY DEF View
<1>3. QED
  BY <1>1, <1>2 DEF Sees, Rule

-----------------------------------------------------------------------------
(* Every step. *)

(* Every step keeps the Crawford invariant and is a rule to the players. *)
LEMMA RuleStep ==
    ASSUME Timely, NEW s, Good(s), AutoCrawford => CrawfordInv(s),
           NEW t, Step(s, t)
    PROVE  (AutoCrawford => CrawfordInv(t)) /\ Sees(s.ms, t.ms)
<1>1. CASE Leads(s, t) /\ Pends(s, t)
  BY <1>1, CrawfordKept DEF Leads
<1>2. CASE /\ s.fNextTurn => CommandsWhilePending
           /\ Unwon(s.ms) /\ Begins(Before(s), s.ms, t)
  <2>1. CASE ~AutoCrawford
    BY <1>2, <2>1, NoCrawford, StartSeen
  <2>2. CASE AutoCrawford
    <3>1. /\ Len(Before(s)) \in Nat /\ Marked(Before(s))
          /\ Rising(Before(s)) /\ Due(Before(s), s.ms)
      <4>1. CASE Playing(s)
        BY <2>2, <4>1, CrawfordPop DEF Before
      <4>2. CASE ~Playing(s)
        <5>1. ~s.fNextTurn
          BY <1>2, <2>2 DEF Timely
        <5>2. ~Active(s)
          BY <4>2, <5>1 DEF Active
        <5>3. ~MatchOver(s.ms)
          <6>1. s.ms.anScore \in [Player -> Nat] /\ s.ms.nMatchTo \in Nat
            BY Fields DEF Good, Sound
          <6>2. QED
            BY <1>2, <6>1 DEF Unwon, MatchOver
        <5>4. Len(s.lMatch) \in Nat
          BY DEF Good, States
        <5>5. QED
          BY <2>2, <4>2, <5>2, <5>3, <5>4 DEF CrawfordInv, Before
      <4>3. QED
        BY <4>1, <4>2
    <3>2. CrawfordInv(t) /\ CrawfordDue(s.ms)
      BY <1>2, <3>1, CrawfordStart
    <3>3. QED
      BY <1>2, <3>2, StartSeen
  <2>3. QED
    BY <2>1, <2>2
<1>3. CASE StartsMatch(t)
  <2>1. PICK m : /\ m.nMatchTo \in Nat /\ m.anScore = [p \in Player |-> 0]
                 /\ m.fCrawford = FALSE /\ Begins(<<>>, m, t)
    BY <1>3 DEF StartsMatch
  <2>2. \A p \in Player : m.anScore[p] = 0
    BY <2>1
  <2>3. Unwon(m)
    BY <2>1, <2>2 DEF Unwon
  <2>4. Len(<<>>) = 0
    OBVIOUS
  <2>5. Marked(<<>>) /\ Rising(<<>>) /\ Due(<<>>, m) /\ Len(<<>>) \in Nat
    BY <2>1, <2>4 DEF Marked, Rising, Due
  <2>6. CrawfordInv(t) /\ CrawfordDue(m)
    BY <2>1, <2>3, <2>5, CrawfordStart
  <2>7. VStart(m.nMatchTo, m.anScore, View(t.ms))
    BY <2>1, <2>6 DEF Begins, SeesStart
  <2>8. View(t.ms).length = m.nMatchTo
    BY <2>7 DEF VStart
  <2>9. VNewMatch(View(t.ms))
    BY <2>1, <2>7, <2>8 DEF VNewMatch
  <2>10. QED
    BY <2>6, <2>9 DEF Sees, Rule
<1>4. CASE s.plGame = 0 /\ Rests(s, t) /\ t.ms = s.ms
  <2>1. Sees(s.ms, t.ms)
    BY <1>4 DEF Sees, Rule
  <2>2. CrawfordInv(s) => CrawfordInv(t)
    BY <1>4 DEF CrawfordInv, Active, Rests
  <2>3. QED
    BY <2>1, <2>2
<1>5. CASE Settles(s, t)
  <2> DEFINE d == Settled(s)
             g == s.lMatch[s.plGame].info
  <2>1. /\ s.fNextTurn /\ s.plGame # 0 /\ Ended(s.ms)
        /\ \/ Rests(s, t) /\ t.ms = d
           \/ Unwon(d) /\ Begins(s.lMatch, d, t)
    BY <1>5 DEF Settles
  <2>2. Sound(s.ms) /\ Fits(s.ms, g)
    BY <2>1 DEF Good, Placed
  <2>3. /\ d.gs = s.ms.gs /\ d.anScore = s.ms.anScore
        /\ d.nMatchTo = s.ms.nMatchTo
    BY <2>1, <2>2, SoundCrawford DEF Settled
  <2>4. MatchOver(d) <=> MatchOver(s.ms)
    BY <2>3 DEF MatchOver
  <2>5. s.ms.gs # "playing" /\ d.gs # "playing"
    BY <2>1, <2>3 DEF Ended
  <2>6. AutoCrawford /\ ~MatchOver(s.ms) => Due(s.lMatch, d)
    BY <2>1, CrawfordSettled
  <2>7. AutoCrawford => Marked(s.lMatch) /\ Rising(s.lMatch)
    BY DEF CrawfordInv
  <2> HIDE DEF d
  <2>8. CASE Rests(s, t) /\ t.ms = d
    <3>1. View(t.ms) = View(s.ms)
      BY <2>3, <2>5, <2>8 DEF View
    <3>2. ~Active(t)
      BY <2>5, <2>8 DEF Active, Rests, Playing
    <3>3. AutoCrawford => CrawfordInv(t)
      BY <2>4, <2>6, <2>7, <2>8, <3>2 DEF CrawfordInv, Rests
    <3>4. QED
      BY <3>1, <3>3 DEF Sees, Rule
  <2>9. CASE Unwon(d) /\ Begins(s.lMatch, d, t)
    <3>1. ~MatchOver(s.ms)
      <4>1. s.ms.anScore \in [Player -> Nat] /\ s.ms.nMatchTo \in Nat
        BY Fields DEF Good, Sound
      <4>2. QED
        BY <2>3, <2>9, <4>1 DEF Unwon, MatchOver
    <3>2. Len(s.lMatch) \in Nat
      BY DEF Good, States
    <3>3. AutoCrawford => CrawfordInv(t) /\ CrawfordDue(d)
      BY <2>6, <2>7, <2>9, <3>1, <3>2, CrawfordStart
    <3>4. CrawfordDue(d)
      BY <2>9, <3>3, NoCrawford
    <3>5. QED
      BY <2>3, <2>9, <3>3, <3>4, StartSeen
  <2>10. QED
    BY <2>1, <2>8, <2>9
<1>6. QED
  BY <1>1, <1>2, <1>3, <1>4, <1>5 DEF Step

(* The invariant of the program. *)
RulesInv == MatchInv /\ (AutoCrawford => CrawfordInv(cur))

(* An empty list of games satisfies the invariant. *)
LEMMA RulesInit == Init => RulesInv
<1> SUFFICES ASSUME Init PROVE RulesInv
  OBVIOUS
<1>1. MatchInv
  BY InitInv
<1>2. /\ cur.lMatch = <<>> /\ cur.plGame = 0 /\ cur.ms.nMatchTo = 0
      /\ Len(<<>>) = 0
  BY DEF Init, cur, InitialMatchState
<1>3. CrawfordInv(cur)
  BY <1>2 DEF CrawfordInv, Marked, Rising, Active, Due
<1>4. QED
  BY <1>1, <1>3 DEF RulesInv

(* Every step of the program keeps the invariant and is a rule, as the players
   see it. *)
LEMMA RulesStep ==
    ASSUME CarefulUser, Timely, RulesInv, [Next]_vars
    PROVE  RulesInv' /\ Rule(View(ms), View(ms'))
<1>1. CASE UNCHANGED vars
  <2>1. /\ ms' = ms /\ lMatch' = lMatch /\ plGame' = plGame
        /\ fNextTurn' = fNextTurn
    BY <1>1 DEF vars
  <2>2. MatchInv'
    BY StepInv DEF RulesInv
  <2>3. AutoCrawford => CrawfordInv(cur)'
    BY <2>1 DEF RulesInv, CrawfordInv, Active, Playing, cur
  <2>4. QED
    BY <2>1, <2>2, <2>3 DEF RulesInv, Rule
<1>2. CASE Next
  <2>1. PICK t : Install(t) /\ Step(cur, t)
    BY <1>2, StepCases DEF RulesInv
  <2>2. /\ MatchInv' /\ ms' = t.ms /\ lMatch' = t.lMatch
        /\ plGame' = t.plGame /\ fNextTurn' = t.fNextTurn
    BY <2>1, StepGood, Installed
  <2>3. (AutoCrawford => CrawfordInv(t)) /\ Sees(cur.ms, t.ms)
    BY <2>1, RuleStep DEF RulesInv, MatchInv
  <2>4. cur.ms = ms
    BY DEF cur
  <2>5. AutoCrawford => CrawfordInv(cur)'
    BY <2>2, <2>3 DEF CrawfordInv, Active, Playing, cur
  <2>6. QED
    BY <2>2, <2>3, <2>4, <2>5 DEF RulesInv, Sees
<1>3. QED
  BY <1>1, <1>2

(* The invariant of the program under the two hypotheses on its user. *)
LEMMA RulesInvariant ==
    ASSUME CarefulUser, Timely
    PROVE  Spec => []RulesInv
<1>1. RulesInv /\ [Next]_vars => RulesInv'
  BY RulesStep
<1>2. QED
  BY <1>1, RulesInit, PTL DEF Spec

(* With `automatic crawford' on, exactly the Crawford game of a match of any
   length is marked as one, although NextTurn looks only at two flags and the
   winner's score. *)
THEOREM CrawfordGameMarked ==
    ASSUME CarefulUser, Timely
    PROVE  Spec => []CrawfordRule
<1>1. ASSUME RulesInv PROVE CrawfordRule
  <2>1. lMatch \in Seq(Game)
    BY <1>1, Unfolded DEF RulesInv
  <2>2. DOMAIN lMatch = 1..Len(lMatch)
    BY <2>1
  <2>3. AutoCrawford => Marked(lMatch)
    BY <1>1 DEF RulesInv, CrawfordInv, cur
  <2>4. QED
    BY <2>2, <2>3 DEF CrawfordRule, IsCrawfordGame, Marked
<1>2. QED
  BY <1>1, RulesInvariant, PTL

-----------------------------------------------------------------------------
(* The refinement of MatchRules. *)

(* The view of ms is the refinement mapping of Rules. *)
LEMMA Seen ==
    /\ View(ms).length = ms.nMatchTo /\ View(ms).score = ms.anScore
    /\ View(ms).playing = (ms.gs = "playing")
    /\ View(ms).crawford = (ms.gs = "playing" /\ ms.fCrawford)
    /\ View(ms).cube = (IF ms.gs = "playing" THEN ms.nCube ELSE 1)
    /\ View(ms).owner = OnCube(ms.fCubeOwner)
    /\ View(ms).doubler = (IF Offered THEN ms.fMove ELSE NoOne)
    /\ View(ms).answerer = (IF Offered THEN Decider(ms) ELSE NoOne)
    /\ View(ms).resigner = (IF Resigning THEN Other(ms.fTurn) ELSE NoOne)
    /\ View(ms).stake = (IF Resigning THEN ms.fResigned ELSE 0)
BY DEF View, OnCube, Offered, Resigning

(* The same in the next state. *)
LEMMA SeenNext ==
    /\ View(ms').length = ms'.nMatchTo /\ View(ms').score = ms'.anScore
    /\ View(ms').playing = (ms.gs = "playing")'
    /\ View(ms').crawford = (ms.gs = "playing" /\ ms.fCrawford)'
    /\ View(ms').cube = (IF ms.gs = "playing" THEN ms.nCube ELSE 1)'
    /\ View(ms').owner = OnCube(ms.fCubeOwner)'
    /\ View(ms').doubler = (IF Offered THEN ms.fMove ELSE NoOne)'
    /\ View(ms').answerer = (IF Offered THEN Decider(ms) ELSE NoOne)'
    /\ View(ms').resigner = (IF Resigning THEN Other(ms.fTurn) ELSE NoOne)'
    /\ View(ms').stake = (IF Resigning THEN ms.fResigned ELSE 0)'
BY DEF View, OnCube, Offered, Resigning, Decider

(* The names MatchRules gives to the players, to nobody and to the stakes. *)
LEMMA Constant ==
    /\ Rules!Side = Player /\ Rules!Nobody = NoOne /\ Rules!Undecided = -1
    /\ Rules!Stakes = {-1, 1, 2, 3}
BY DEF Rules!Side, Rules!Nobody, Rules!Undecided, Rules!Stakes, Player, NoOne,
       Other

(* CommandDouble is the rule Double. *)
LEMMA RefineDouble ==
    ASSUME VDouble(View(ms), View(ms'))
    PROVE  Rules!Double
BY Seen, SeenNext, Constant
   DEF Other, Player, VDouble, VQuiet, SameGame, SameCube, SameOffer,
       Rules!Double, Rules!Quiet, Rules!offer

(* CommandRedouble is the rule Beaver. *)
LEMMA RefineBeaver ==
    ASSUME VBeaver(View(ms), View(ms'))
    PROVE  Rules!Beaver
<1> DEFINE v == View(ms)
           w == View(ms')
<1>1. /\ v.playing /\ v.resigner = NoOne /\ v.doubler # NoOne
      /\ v.length = 0 /\ 4 * v.cube <= MAX_CUBE
  BY Players DEF VBeaver, VQuiet
<1>2. /\ w.cube = 2 * v.cube /\ w.owner = 1 - v.doubler
      /\ w.answerer = 1 - v.answerer
  BY DEF VBeaver, Other
<1>3. /\ w.length = v.length /\ w.score = v.score /\ w.playing = v.playing
      /\ w.crawford = v.crawford /\ w.doubler = v.doubler
      /\ w.resigner = v.resigner /\ w.stake = v.stake
  BY DEF VBeaver, SameGame, SameOffer
<1> HIDE DEF v, w
<1>4. QED
  BY <1>1, <1>2, <1>3, Seen, SeenNext, Constant
     DEF v, w, Rules!Beaver, Rules!Quiet, Rules!offer

(* CommandTake is the rule Take. *)
LEMMA RefineTake ==
    ASSUME VTake(View(ms), View(ms'))
    PROVE  Rules!Take
<1> DEFINE v == View(ms)
           w == View(ms')
<1>1. /\ v.playing /\ v.resigner = NoOne /\ v.doubler # NoOne
      /\ 2 * v.cube <= MAX_CUBE
  BY Players DEF VTake, VQuiet
<1>2. /\ w.cube = 2 * v.cube /\ w.owner = 1 - v.doubler
      /\ w.doubler = NoOne /\ w.answerer = NoOne
  BY DEF VTake, Other
<1>3. /\ w.length = v.length /\ w.score = v.score /\ w.playing = v.playing
      /\ w.crawford = v.crawford
      /\ w.resigner = v.resigner /\ w.stake = v.stake
  BY DEF VTake, SameGame, SameOffer
<1> HIDE DEF v, w
<1>4. QED
  BY <1>1, <1>2, <1>3, Seen, SeenNext, Constant
     DEF v, w, Rules!Take, Rules!Quiet, Rules!offer

(* The points a game is worth are added to the score of its winner. *)
LEMMA RefineGain ==
    ASSUME NEW p, NEW n, VGain(View(ms), View(ms'), p, n)
    PROVE  Rules!Gain(p, n)
BY Seen, SeenNext, Constant DEF VGain, Rules!Gain, Rules!PutAway

(* CommandDrop is the rule Drop. *)
LEMMA RefineDrop ==
    ASSUME VDrop(View(ms), View(ms'))
    PROVE  Rules!Drop
<1>1. Rules!Gain(Other(View(ms).answerer), View(ms).cube)
  BY RefineGain DEF VDrop
<1>2. QED
  BY <1>1, Seen, Constant, Players
     DEF Other, Player, NoOne, VDrop, VQuiet, Rules!Drop, Rules!Quiet

(* The end of a game on the board is the rule Win. *)
LEMMA RefineWin ==
    ASSUME VWin(View(ms), View(ms')), View(ms).cube \in Nat
    PROVE  Rules!Win
<1>1. PICK p \in Player, n \in 1..3 :
          /\ Jacoby /\ View(ms).length = 0 /\ View(ms).owner = NoOne => n = 1
          /\ VGain(View(ms), View(ms'), p, View(ms).cube * n)
  BY DEF VWin
<1>2. View(ms).cube * n = n * View(ms).cube
  OBVIOUS
<1>3. Rules!Gain(p, n * View(ms).cube)
  BY <1>1, <1>2, RefineGain
<1>4. n \in Rules!Worth(View(ms).length, View(ms).owner)
  BY <1>1, Constant DEF Rules!Worth
<1>5. Rules!Quiet /\ View(ms).doubler = NoOne
  BY Seen, Constant DEF VWin, VQuiet, Rules!Quiet
<1>6. QED
  BY <1>1, <1>3, <1>4, <1>5, Seen, Constant DEF Rules!Win

(* CommandResign is the rule OfferToResign. *)
LEMMA RefineOffer ==
    ASSUME VOffer(View(ms), View(ms'))
    PROVE  Rules!OfferToResign
<1> DEFINE v == View(ms)
           w == View(ms')
<1>1. /\ v.playing /\ v.resigner = NoOne
      /\ \/ v.doubler = NoOne /\ w.resigner \in Player
         \/ v.doubler # NoOne /\ w.resigner = v.answerer
      /\ w.stake \in {-1, 1, 2, 3}
  BY Players DEF VOffer, VQuiet
<1>2. /\ w.length = v.length /\ w.score = v.score /\ w.playing = v.playing
      /\ w.crawford = v.crawford /\ w.cube = v.cube /\ w.owner = v.owner
      /\ w.doubler = v.doubler /\ w.answerer = v.answerer
  BY DEF VOffer, SameGame, SameCube, SameDoubler
<1>3. Rules!Quiet
  BY <1>1, Seen, Constant DEF Rules!Quiet
<1> HIDE DEF v, w
<1>4. QED
  BY <1>1, <1>2, <1>3, Seen, SeenNext, Constant
     DEF v, w, Rules!OfferToResign, Rules!cubeVars

(* CommandDecline is the rule Decline. *)
LEMMA RefineDecline ==
    ASSUME VDecline(View(ms), View(ms'))
    PROVE  Rules!Decline
BY Seen, SeenNext, Constant, Players
   DEF VDecline, SameGame, SameCube, SameDoubler, Rules!Decline,
       Rules!cubeVars

(* CommandAgree is the rule Accept. *)
LEMMA RefineAccept ==
    ASSUME VAccept(View(ms), View(ms')), View(ms).cube \in Nat
    PROVE  Rules!Accept
<1>1. PICK n \in 1..3 :
          /\ View(ms).stake \in {-1, n}
          /\ VGain(View(ms), View(ms'), Other(View(ms).resigner),
                   View(ms).cube * n)
  BY DEF VAccept
<1>2. View(ms).cube * n = n * View(ms).cube
  OBVIOUS
<1>3. Rules!Gain(Other(View(ms).resigner), n * View(ms).cube)
  BY <1>1, <1>2, RefineGain
<1>4. QED
  BY <1>1, <1>3, Seen, Constant, Players
     DEF Other, Player, NoOne, VAccept, Rules!Accept

(* NewGame is the rule Start. *)
LEMMA RefineStart ==
    ASSUME NEW len \in Nat, NEW sc, VStart(len, sc, View(ms'))
    PROVE  Rules!Start(len, sc)
<1>1. ~Rules!Over(len, sc)
  BY Constant DEF VStart, Rules!Over
<1>2. \E a \in IF len = 0 THEN 0..cAutoDoubles ELSE {0} :
          View(ms').cube = 2 ^ a
  BY DEF VStart
<1>3. View(ms').crawford => len > 1 /\ Rules!OneAwayFirst(len, sc)
  BY Constant DEF VStart, OneShort, Rules!OneAwayFirst, Other
<1>4. QED
  BY <1>1, <1>2, <1>3, SeenNext, Constant DEF VStart, Rules!Start

(* Equal views are a stuttering step of MatchRules. *)
LEMMA RefineSame ==
    ASSUME View(ms) = View(ms')
    PROVE  UNCHANGED Rules!rvars
BY Seen, SeenNext DEF Rules!rvars, Rules!cubeVars, Rules!offer

(* A rule between views is a step of MatchRules. *)
LEMMA RefineRule ==
    ASSUME ms \in MatchStates, Rule(View(ms), View(ms'))
    PROVE  [Rules!RNext]_Rules!rvars
<1>1. View(ms).cube \in Nat /\ View(ms).length \in Nat
  BY Seen, Fields, Doubling
<1>2. CASE VStart(View(ms).length, View(ms).score, View(ms'))
  BY <1>1, <1>2, RefineStart, Seen DEF Rules!RNext, Rules!NewGame
<1>3. CASE VNewMatch(View(ms'))
  <2>1. Rules!Start(View(ms').length, [p \in Player |-> 0])
    BY <1>3, RefineStart DEF VNewMatch
  <2>2. Rules!NewMatch
    BY <1>3, <2>1, SeenNext, Constant DEF VNewMatch, Rules!NewMatch
  <2>3. QED
    BY <2>2 DEF Rules!RNext
<1>4. CASE View(ms) = View(ms')
  BY <1>4, RefineSame
<1>5. CASE VWin(View(ms), View(ms')) \/ VAccept(View(ms), View(ms'))
  BY <1>1, <1>5, RefineWin, RefineAccept DEF Rules!RNext
<1>6. QED
  BY <1>2, <1>3, <1>4, <1>5, RefineDouble, RefineBeaver, RefineTake,
     RefineDrop, RefineOffer, RefineDecline DEF Rule, Rules!RNext

(* The program starts where MatchRules starts. *)
LEMMA RefineInit == Init => Rules!RInit
<1> SUFFICES ASSUME Init PROVE Rules!RInit
  OBVIOUS
<1>1. /\ ms.nMatchTo = 0 /\ ms.anScore = [p \in Player |-> 0]
      /\ ms.gs = "none"
  BY DEF Init, InitialMatchState
<1>2. QED
  BY <1>1, Constant DEF Rules!RInit, OnCube, Offered, Resigning

(* The commands implement the rules of a match, whatever is typed by a careful
   user, whoever plays, and for every length, cube limit and setting: what
   CommandDouble, CommandTake, NextTurn and the others do to ms is a rule of
   MatchRules, or nothing that a player would notice. *)
THEOREM RulesImplemented ==
    ASSUME CarefulUser, Timely
    PROVE  Spec => ImplementsRules
<1>1. Init => Rules!RInit
  BY RefineInit
<1>2. RulesInv /\ [Next]_vars => [Rules!RNext]_Rules!rvars
  <2>1. SUFFICES ASSUME RulesInv, [Next]_vars
                 PROVE  [Rules!RNext]_Rules!rvars
    OBVIOUS
  <2>2. ms \in MatchStates
    BY <2>1, Unfolded DEF RulesInv
  <2>3. Rule(View(ms), View(ms'))
    BY <2>1, RulesStep
  <2>4. QED
    BY <2>2, <2>3, RefineRule
<1>3. Spec => []RulesInv
  BY RulesInvariant
<1>4. QED
  BY <1>1, <1>2, <1>3, PTL DEF Spec, ImplementsRules, Rules!RSpec
=============================================================================
