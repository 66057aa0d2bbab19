------------------------------ MODULE WebProofs ------------------------------
(***************************************************************************)
(* The timers of the page: for every bound, setting and match, a NextTurn  *)
(* that is left to be done has a timer.  A NextTurn that leaves another one *)
(* to be done prints a board, and the board sets the timer.                *)
(*                                                                         *)
(* And the page itself: what a sequence of lines makes of it, what each    *)
(* command leaves for it to show, and that whenever it waits it serves the *)
(* user's decision.                                                        *)
(***************************************************************************)
EXTENDS Web, MatchProofs, Induction

(* Every action of the page is one of the program's, or changes nothing. *)
LEMMA PageSteps == [WNext]_wvars => [Next]_vars
BY DEF WNext, wvars, WebQuiet, WebResign, WebRoll, WebPlay, WebNew,
       WebShowBoard, doNextTurn, Next, PlayCommand

(* The page adds no behaviour to the program, so what holds of every match
   holds of the ones that are played at the page. *)
THEOREM PageImplements == WSpec => Spec
<1>1. WInit => Init
  BY DEF WInit
<1>2. QED
  BY <1>1, PageSteps, PTL DEF WSpec, Spec

(* The program's assertions hold at the page, where commands arrive between
   two NextTurns. *)
THEOREM PageAssertionsHold ==
    ASSUME CarefulUser
    PROVE  WSpec => []NoAssertionFails
BY PageImplements, AssertionsHold, PTL

-----------------------------------------------------------------------------
(* The lines NextTurn prints. *)

(* A finite sequence of lines. *)
Printed(x) == \E S : x \in Seq(S)

(* Lines printed one after the other. *)
LEMMA Concatenated ==
    ASSUME NEW a, NEW b, Printed(a), Printed(b)
    PROVE  /\ Printed(a \o b) /\ Len(a) \in Nat /\ Len(b) \in Nat
           /\ Len(a \o b) = Len(a) + Len(b)
<1>1. PICK S : a \in Seq(S)
  BY DEF Printed
<1>2. PICK T : b \in Seq(T)
  BY DEF Printed
<1>3. a \in Seq(S \cup T) /\ b \in Seq(S \cup T)
  BY <1>1, <1>2
<1>4. /\ a \o b \in Seq(S \cup T) /\ Len(a) \in Nat /\ Len(b) \in Nat
      /\ Len(a \o b) = Len(a) + Len(b)
  BY <1>3
<1>5. QED
  BY <1>4 DEF Printed

(* A board is shown of every match that has started. *)
LEMMA Showing ==
    ASSUME NEW c, NEW m
    PROVE  /\ Printed(ShowBoard(c, m))
           /\ c /\ m.gs # "none" => Len(ShowBoard(c, m)) = 1
<1>1. /\ <<Shown(m)>> \in Seq({Shown(m)}) /\ Len(<<Shown(m)>>) = 1
      /\ <<>> \in Seq({Shown(m)})
  OBVIOUS
<1>2. QED
  BY <1>1 DEF ShowBoard, Printed

(* What is printed of an offer. *)
LEMMA Offering ==
    ASSUME NEW m, NEW n
    PROVE  Printed(OfferLines(m, n))
<1>1. <<Offer>> \in Seq({Offer}) /\ <<>> \in Seq({Offer})
  OBVIOUS
<1>2. QED
  BY <1>1 DEF OfferLines, Printed

(* What ComputerTurn, DiceRolled and NewGame print. *)
LEMMA PrintedLines ==
    ASSUME NEW m, NEW n
    PROVE  /\ Printed(ComputerLines(m, n)) /\ Printed(RollLines(m))
           /\ Printed(NewGameLines(m)) /\ Printed(<<>>)
           /\ m.gs # "none" => Len(NewGameLines(m)) > 0
<1>1. Printed(ComputerLines(m, n))
  BY Offering, Showing, Concatenated DEF ComputerLines
<1>2. Printed(RollLines(m))
  BY Showing DEF RollLines
<1> DEFINE b == ShowBoard(TRUE, m)
           c == ShowBoard(PlayerType[m.fTurn] = "human", m)
<1>3. Printed(b) /\ Printed(c) /\ (m.gs # "none" => Len(b) = 1)
  BY Showing
<1>4. NewGameLines(m) = RollLines(m) \o b \o c
  BY DEF NewGameLines
<1> HIDE DEF b, c
<1>5. /\ Printed(RollLines(m) \o b) /\ Len(RollLines(m)) \in Nat
      /\ Len(RollLines(m) \o b) = Len(RollLines(m)) + Len(b)
  BY <1>2, <1>3, Concatenated
<1>6. /\ Printed(NewGameLines(m)) /\ Len(c) \in Nat /\ Len(b) \in Nat
      /\ Len(NewGameLines(m)) = Len(RollLines(m)) + Len(b) + Len(c)
  BY <1>2, <1>3, <1>4, <1>5, Concatenated
<1>7. m.gs # "none" => Len(NewGameLines(m)) > 0
  BY <1>3, <1>5, <1>6
<1>8. Printed(<<>>)
  <2>1. <<>> \in Seq({0})
    OBVIOUS
  <2>2. QED
    BY <2>1 DEF Printed
<1>9. QED
  BY <1>1, <1>2, <1>6, <1>7, <1>8

(* A game that NewGame has started is in progress. *)
LEMMA OpeningPlaying ==
    ASSUME NEW l
    PROVE  Opening(l).gs = "playing"
<1> DEFINE g == Last(l).info
           r == Rec("setdice", Last(l).recs[1].fPlayer, 0)
           D == DOMAIN InitialMatchState
<1>1. "gs" \in D
  BY DEF InitialMatchState
<1>2. DOMAIN ApplyGameInfo(g) = D
  BY DEF ApplyGameInfo
<1> HIDE DEF g, r
<1>3. DOMAIN ApplySetDice(ApplyGameInfo(g), r) = D
  BY <1>2 DEF ApplySetDice
<1>4. Opening(l) = [ApplySetDice(ApplyGameInfo(g), r) EXCEPT !.gs = "playing"]
  BY DEF Opening, g, r
<1>5. QED
  BY <1>1, <1>3, <1>4

(* NextTurn prints a board whenever a game goes on or starts, since fDisplay
   is set. *)
LEMMA NextTurnPrints ==
    ASSUME Display, NEW m, NEW m2, NEW started \in BOOLEAN, NEW l,
           m.gs # "none"
    PROVE  LET x == NextTurnLines(m, m2, started, l)
           IN  /\ Printed(x)
               /\ started \/ ~GameEnded(m) => Len(x) > 0
<1> DEFINE x == NextTurnLines(m, m2, started, l)
           base == IF started THEN Opening(l) ELSE m
           human == PlayerType[base.fTurn] = "human"
           a == IF started THEN NewGameLines(base) ELSE <<>>
           b == ShowBoard(Display \/ human, base)
           c == IF ~human THEN ComputerLines(base, m2)
                ELSE IF MustRoll(base) THEN RollLines(base) ELSE <<>>
<1>1. CASE GameEnded(m) /\ ~started
  BY <1>1, Showing DEF NextTurnLines
<1>2. CASE ~(GameEnded(m) /\ ~started)
  <2>1. x = a \o b \o c
    BY <1>2 DEF NextTurnLines
  <2>2. base.gs # "none"
    BY OpeningPlaying
  <2> HIDE DEF x, base, human
  <2>3. Printed(a) /\ Printed(c)
    BY PrintedLines
  <2>4. Printed(b) /\ Len(b) = 1
    BY <2>2, Showing
  <2> HIDE DEF a, b, c
  <2>5. /\ Printed(a \o b) /\ Len(a) \in Nat
        /\ Len(a \o b) = Len(a) + Len(b)
    BY <2>3, <2>4, Concatenated
  <2>6. /\ Printed(a \o b \o c) /\ Len(c) \in Nat
        /\ Len(a \o b \o c) = Len(a \o b) + Len(c)
    BY <2>3, <2>5, Concatenated
  <2>7. QED
    BY <2>1, <2>4, <2>5, <2>6 DEF x
<1>3. QED
  BY <1>1, <1>2

-----------------------------------------------------------------------------
(* The timers. *)

TimerInv == MatchInv /\ timers \in Nat /\ TimerPending

(* A command sets a timer of its own. *)
LEMMA CommandTimed ==
    ASSUME NEW x, Printed(x), timers \in Nat, gnubgCommand(x)
    PROVE  timers' \in Nat /\ timers' > 0
<1>1. Len(x) \in Nat
  BY DEF Printed
<1>2. MaxTimers \in Nat /\ MaxTimers > 0
  BY WebAssumption
<1>3. timers' = Least(timers + 1 + Len(x), MaxTimers)
  BY DEF gnubgCommand, writeLog
<1>4. QED
  BY <1>1, <1>2, <1>3 DEF Least

(* A timer that fires may leave none. *)
LEMMA FiredTimers ==
    ASSUME timers \in Nat, timers > 0, NEW n \in Fired
    PROVE  n \in Nat
BY DEF Fired

(* NextTurn leaves itself to be run again only in a game that goes on or has
   just started. *)
LEMMA NextTurnAgain ==
    ASSUME MatchInv, DoNextTurn
    PROVE  /\ plGame = 0 => ~fNextTurn'
           /\ plGame # 0 /\ fNextTurn' =>
                 \/ Len(lMatch') > Len(lMatch)
                 \/ ~GameEnded(ms)
<1>1. PICK ans \in BOOLEAN : \E t \in NextTurn(cur, ans) : Install(t)
  BY DEF DoNextTurn
<1>2. PICK t \in NextTurn(cur, ans) : Install(t)
  BY <1>1
<1>3. /\ Good(cur) /\ cur.prompt # "no" /\ cur.ms = ms
      /\ cur.lMatch = lMatch /\ cur.plGame = plGame
  BY DEF MatchInv, cur
<1>4. fNextTurn' = t.fNextTurn /\ lMatch' = t.lMatch
  BY <1>2 DEF Install
<1>5. Len(lMatch) \in Nat
  BY Unfolded
<1>6. Playing(cur) => ~GameEnded(ms) /\ plGame # 0
  BY <1>3, InProgress DEF Playing, GameEnded, InGame, Good, Placed
<1>7. \A m : Begins(lMatch, m, t) => Len(t.lMatch) = Len(lMatch) + 1
  BY DEF Begins, Opens
<1>8. \/ plGame = 0 /\ ~t.fNextTurn
      \/ plGame # 0 /\ Playing(cur)
      \/ plGame # 0 /\ (~t.fNextTurn \/ \E m : Begins(lMatch, m, t))
  BY <1>3, GoodNextTurn DEF Rests
<1>9. QED
  BY <1>4, <1>5, <1>6, <1>7, <1>8

(* Every step of the page keeps a timer for a pending NextTurn. *)
LEMMA TimerStep ==
    ASSUME CarefulUser, Display, TimerInv, [WNext]_wvars
    PROVE  TimerInv'
<1>1. MatchInv /\ timers \in Nat /\ (fNextTurn => timers > 0)
  BY DEF TimerInv, TimerPending
<1>2. MatchInv'
  BY <1>1, PageSteps, StepInv
<1>3. ASSUME NEW x, Printed(x), gnubgCommand(x)
      PROVE  TimerInv'
  BY <1>1, <1>2, <1>3, CommandTimed DEF TimerInv, TimerPending
<1>4. CASE UNCHANGED wvars
  BY <1>1, <1>2, <1>4 DEF TimerInv, TimerPending, wvars, vars
<1>5. CASE WebQuiet
  BY <1>3, <1>5, PrintedLines DEF WebQuiet
<1>6. CASE WebResign
  BY <1>3, <1>6, Offering DEF WebResign
<1>7. CASE WebRoll
  BY <1>3, <1>7, PrintedLines DEF WebRoll
<1>8. CASE WebPlay
  BY <1>3, <1>8, PrintedLines DEF WebPlay
<1>9. CASE WebNew
  <2> DEFINE x == IF prompt' = "no" \/ aborted' # "no" THEN <<>>
                  ELSE StartLines(lMatch', ms')
  <2>1. gnubgCommand(x)
    BY <1>9 DEF WebNew
  <2>2. Printed(StartLines(lMatch', ms'))
    <3> DEFINE o == Opening(lMatch')
               c == IF PlayerType[o.fTurn] = "human" THEN <<>>
                    ELSE ComputerLines(o, ms')
    <3>1. Printed(NewGameLines(o)) /\ Printed(c)
      BY PrintedLines
    <3>2. StartLines(lMatch', ms') = NewGameLines(o) \o c
      BY DEF StartLines
    <3> HIDE DEF o, c
    <3>3. QED
      BY <3>1, <3>2, Concatenated
  <2>3. Printed(x)
    BY <2>2, PrintedLines
  <2> HIDE DEF x
  <2>4. QED
    BY <1>3, <2>1, <2>3
<1>10. CASE WebShowBoard
  BY <1>3, <1>10, Showing DEF WebShowBoard
<1>11. CASE doNextTurn
  <2>1. CASE ~fNextTurn /\ timers' \in Fired /\ UNCHANGED <<vars, page>>
    <3>1. timers > 0 /\ ~fNextTurn'
      BY <1>11, <2>1 DEF doNextTurn, vars
    <3>2. timers' \in Nat
      BY <1>1, <2>1, <3>1 DEF Fired
    <3>3. QED
      BY <1>2, <3>1, <3>2 DEF TimerInv, TimerPending
  <2>2. ASSUME DoNextTurn, NEW n \in Fired,
               writeLog(IF aborted' # "no" \/ plGame = 0 THEN <<>>
                        ELSE NextTurnLines(ms, ms',
                                   Len(lMatch') > Len(lMatch), lMatch'), n)
        PROVE  TimerInv'
    <3> DEFINE started == Len(lMatch') > Len(lMatch)
               y == NextTurnLines(ms, ms', started, lMatch')
               x == IF aborted' # "no" \/ plGame = 0 THEN <<>> ELSE y
    <3>1. n \in Nat
      BY <1>1, <1>11, FiredTimers DEF doNextTurn
    <3>2. timers' = Least(n + Len(x), MaxTimers)
      BY <2>2 DEF writeLog
    <3>3. MaxTimers \in Nat /\ MaxTimers > 0
      BY WebAssumption
    <3>4. aborted' = "no"
      BY <1>2 DEF MatchInv, Good, cur
    <3>5. plGame # 0 => ms.gs # "none"
      BY <1>1 DEF MatchInv, Good, Placed, cur
    <3>6. started \in BOOLEAN
      OBVIOUS
    <3>7. plGame # 0 => /\ Printed(y)
                        /\ started \/ ~GameEnded(ms) => Len(y) > 0
      BY <3>5, <3>6, NextTurnPrints
    <3>8. /\ plGame = 0 => ~fNextTurn'
          /\ plGame # 0 /\ fNextTurn' => started \/ ~GameEnded(ms)
      BY <1>1, <2>2, NextTurnAgain
    <3> HIDE DEF y, started
    <3>9. Len(x) \in Nat /\ (fNextTurn' => Len(x) > 0)
      <4>1. CASE plGame = 0
        <5>1. x = <<>> /\ Len(<<>>) = 0
          BY <4>1
        <5>2. QED
          BY <3>8, <4>1, <5>1
      <4>2. CASE plGame # 0
        <5>1. x = y
          BY <3>4, <4>2
        <5>2. Len(y) \in Nat
          BY <3>7, <4>2 DEF Printed
        <5>3. QED
          BY <3>7, <3>8, <4>2, <5>1, <5>2
      <4>3. QED
        BY <4>1, <4>2
    <3> HIDE DEF x
    <3>10. timers' \in Nat /\ (fNextTurn' => timers' > 0)
      BY <3>1, <3>2, <3>3, <3>9 DEF Least
    <3>11. QED
      BY <1>2, <3>10 DEF TimerInv, TimerPending
  <2>3. QED
    BY <1>11, <2>1, <2>2 DEF doNextTurn
<1>12. QED
  BY <1>4, <1>5, <1>6, <1>7, <1>8, <1>9, <1>10, <1>11 DEF WNext

(* Whatever is left to be done has a timer that will do it, in matches of any
   length and with any number of pending timers: a NextTurn that calls
   TurnDone has printed a board.  It needs fDisplay, which is
   on unless the user turns it off. *)
THEOREM TimersArePending ==
    ASSUME CarefulUser, Display
    PROVE  WSpec => []TimerPending
<1>1. WInit => TimerInv
  BY InitInv DEF WInit, Init, TimerInv, TimerPending
<1>2. TimerInv /\ [WNext]_wvars => TimerInv'
  BY TimerStep
<1>3. TimerInv => TimerPending
  BY DEF TimerInv
<1>4. QED
  BY <1>1, <1>2, <1>3, PTL DEF WSpec

-----------------------------------------------------------------------------
(* What the page makes of the lines. *)

(* A page has a board, a flag and a set of buttons. *)
IsPage(p) ==
    /\ p = [board |-> p.board, pending |-> p.pending, enabled |-> p.enabled]
    /\ p.pending \in BOOLEAN

(* The board of m was drawn last, with no resignation on offer. *)
Draws(p, m) == /\ IsPage(p) /\ p.board = Shown(m) /\ ~p.pending
               /\ p.enabled = Buttons(Shown(m), FALSE)

(* The page after each of the lines. *)
LEMMA UpdatedDef ==
    ASSUME NEW p, NEW x, Printed(x)
    PROVE  \E f : /\ f[0] = p /\ Updated(p, x) = f[Len(x)]
                  /\ \A k \in 1..Len(x) : f[k] = updateBoard(f[k - 1], x[k])
<1> DEFINE N == Len(x)
           Onward(q, k) == updateBoard(q, x[k])
           Is(f, n) == f = [k \in 0..n |-> IF k = 0 THEN p ELSE Onward(f[k - 1], k)]
           S == {n \in Nat : \E f : Is(f, n)}
           h == CHOOSE f : Is(f, N)
<1>1. N \in Nat
  BY DEF Printed
<1>2. Updated(p, x) = h[N]
  BY DEF Updated
<1> HIDE DEF Onward, N
<1>3. 0 \in S
  <2> DEFINE g == [k \in 0..0 |-> p]
  <2>1. Is(g, 0)
    OBVIOUS
  <2>2. QED
    BY <2>1
<1>4. ASSUME NEW n \in Nat, n \in S PROVE n + 1 \in S
  <2>1. PICK f : f = [k \in 0..n |-> IF k = 0 THEN p ELSE Onward(f[k - 1], k)]
    BY <1>4
  <2> DEFINE g == [k \in 0..(n + 1) |-> IF k <= n THEN f[k] ELSE Onward(f[n], n + 1)]
  <2>2. \A k \in 0..(n + 1) : g[k] = IF k = 0 THEN p ELSE Onward(g[k - 1], k)
    BY <2>1
  <2>3. g = [k \in 0..(n + 1) |-> IF k = 0 THEN p ELSE Onward(g[k - 1], k)]
    BY <2>2
  <2> HIDE DEF g
  <2>4. QED
    BY <2>3
<1> HIDE DEF S
<1>5. N \in S
  BY <1>1, <1>3, <1>4, Induct
<1>6. Is(h, N)
  BY <1>5 DEF S
<1> HIDE DEF h
<1>7. h[0] = p /\ \A k \in 1..N : h[k] = Onward(h[k - 1], k)
  BY <1>1, <1>6
<1>8. QED
  BY <1>2, <1>7 DEF N, Onward

(* Lines that are printed one after the other. *)
LEMMA UpdatedOn ==
    ASSUME NEW p, NEW a, NEW b, Printed(a), Printed(b)
    PROVE  Updated(p, a \o b) = Updated(Updated(p, a), b)
<1> DEFINE A == Len(a)
           B == Len(b)
           c == a \o b
           q == Updated(p, a)
<1>1. PICK S : a \in Seq(S)
  BY DEF Printed
<1>2. PICK T : b \in Seq(T)
  BY DEF Printed
<1>3. a \in Seq(S \cup T) /\ b \in Seq(S \cup T)
  BY <1>1, <1>2
<1>4. /\ A \in Nat /\ B \in Nat /\ Len(c) = A + B
      /\ \A k \in 1..A : c[k] = a[k]
      /\ \A k \in 1..B : c[A + k] = b[k]
  BY <1>3
<1>5. Printed(c)
  BY Concatenated
<1>6. PICK f : /\ f[0] = p /\ q = f[A]
               /\ \A k \in 1..A : f[k] = updateBoard(f[k - 1], a[k])
  BY UpdatedDef
<1> HIDE DEF q
<1>7. PICK g : /\ g[0] = q /\ Updated(q, b) = g[B]
               /\ \A k \in 1..B : g[k] = updateBoard(g[k - 1], b[k])
  BY UpdatedDef
<1> HIDE DEF c
<1>8. PICK h : /\ h[0] = p /\ Updated(p, c) = h[Len(c)]
               /\ \A k \in 1..Len(c) : h[k] = updateBoard(h[k - 1], c[k])
  BY <1>5, UpdatedDef
<1> HIDE DEF A, B
<1>9. h[A] = q
  <2> DEFINE X == {k \in Nat : k <= A => h[k] = f[k]}
  <2>1. 0 \in X
    BY <1>6, <1>8
  <2>2. ASSUME NEW k \in Nat, k \in X PROVE k + 1 \in X
    <3> SUFFICES ASSUME k + 1 <= A PROVE h[k + 1] = f[k + 1]
      OBVIOUS
    <3>1. k + 1 \in 1..A /\ k + 1 \in 1..(A + B) /\ (k + 1) - 1 = k /\ k <= A
      BY <1>4
    <3>2. h[k] = f[k] /\ c[k + 1] = a[k + 1]
      BY <1>4, <2>2, <3>1
    <3>3. h[k + 1] = updateBoard(h[k], c[k + 1])
      BY <1>4, <1>8, <3>1
    <3>4. f[k + 1] = updateBoard(f[k], a[k + 1])
      BY <1>6, <3>1
    <3>5. QED
      BY <3>2, <3>3, <3>4
  <2> HIDE DEF X
  <2>3. A \in X
    BY <1>4, <2>1, <2>2, Induct
  <2>4. QED
    BY <1>4, <1>6, <2>3 DEF X
<1>10. h[A + B] = g[B]
  <2> DEFINE X == {k \in Nat : k <= B => h[A + k] = g[k]}
  <2>1. 0 \in X
    BY <1>4, <1>7, <1>9
  <2>2. ASSUME NEW k \in Nat, k \in X PROVE k + 1 \in X
    <3> SUFFICES ASSUME k + 1 <= B PROVE h[A + (k + 1)] = g[k + 1]
      OBVIOUS
    <3>1. /\ k + 1 \in 1..B /\ A + (k + 1) \in 1..(A + B) /\ (k + 1) - 1 = k
          /\ (A + (k + 1)) - 1 = A + k /\ k <= B
      BY <1>4
    <3>2. h[A + k] = g[k] /\ c[A + (k + 1)] = b[k + 1]
      BY <1>4, <2>2, <3>1
    <3>3. h[A + (k + 1)] = updateBoard(h[A + k], c[A + (k + 1)])
      BY <1>4, <1>8, <3>1
    <3>4. g[k + 1] = updateBoard(g[k], b[k + 1])
      BY <1>7, <3>1
    <3>5. QED
      BY <3>2, <3>3, <3>4
  <2> HIDE DEF X
  <2>3. B \in X
    BY <1>4, <2>1, <2>2, Induct
  <2>4. QED
    BY <1>4, <2>3 DEF X
<1>11. QED
  BY <1>4, <1>7, <1>8, <1>10 DEF c, q

(* No line, and a single one. *)
LEMMA UpdatedOne ==
    ASSUME NEW p
    PROVE  /\ Updated(p, <<>>) = p
           /\ \A l : Updated(p, <<l>>) = updateBoard(p, l)
<1>1. Updated(p, <<>>) = p
  <2>1. Printed(<<>>) /\ Len(<<>>) = 0
    BY PrintedLines
  <2>2. QED
    BY <2>1, UpdatedDef
<1>2. ASSUME NEW l PROVE Updated(p, <<l>>) = updateBoard(p, l)
  <2> DEFINE x == <<l>>
  <2>1. x \in Seq({l}) /\ Len(x) = 1 /\ x[1] = l
    OBVIOUS
  <2>2. Printed(x)
    BY <2>1 DEF Printed
  <2> HIDE DEF x
  <2>3. PICK f : /\ f[0] = p /\ Updated(p, x) = f[Len(x)]
                 /\ \A k \in 1..Len(x) : f[k] = updateBoard(f[k - 1], x[k])
    BY <2>2, UpdatedDef
  <2>4. 1 \in 1..Len(x) /\ 1 - 1 = 0
    BY <2>1
  <2>5. f[1] = updateBoard(f[0], x[1])
    BY <2>3, <2>4
  <2>6. QED
    BY <2>1, <2>3, <2>5 DEF x
<1>3. QED
  BY <1>1, <1>2

(* A board is drawn, unless it comes after an offer; then it ends the wait
   for it. *)
LEMMA BoardUpdates ==
    ASSUME NEW p, IsPage(p), NEW m
    PROVE  LET q == Updated(p, <<Shown(m)>>)
           IN  /\ IsPage(q) /\ ~q.pending
               /\ ~p.pending => Draws(q, m)
               /\ p.pending => q.board = p.board /\ q.enabled = p.enabled
<1>1. Shown(m) # Offer
  <2>1. "fMove" \in DOMAIN Shown(m) /\ "fMove" \notin DOMAIN Offer
    BY DEF Shown, Offer
  <2>2. QED
    BY <2>1
<1>2. Updated(p, <<Shown(m)>>) = updateBoard(p, Shown(m))
  BY UpdatedOne
<1> DEFINE new == [board |-> Shown(m), pending |-> FALSE,
                   enabled |-> Buttons(Shown(m), FALSE)]
<1>3. CASE p.pending
  <2>1. Updated(p, <<Shown(m)>>) = [p EXCEPT !.pending = FALSE]
    BY <1>2, <1>3 DEF updateBoard
  <2>2. QED
    BY <1>3, <2>1 DEF IsPage
<1>4. CASE ~p.pending
  <2>1. Updated(p, <<Shown(m)>>) = new
    BY <1>1, <1>2, <1>4 DEF updateBoard
  <2>2. IsPage(new) /\ Draws(new, m) /\ ~new.pending
    BY DEF IsPage, Draws
  <2>3. QED
    BY <1>4, <2>1, <2>2
<1>5. QED
  BY <1>3, <1>4

(* An offer is drawn on the last board. *)
LEMMA OfferUpdates ==
    ASSUME NEW p, IsPage(p), ~p.pending
    PROVE  LET q == Updated(p, <<Offer>>)
           IN  /\ IsPage(q) /\ q.pending /\ q.board = p.board
               /\ q.enabled = Buttons(p.board, TRUE)
<1>1. Updated(p, <<Offer>>)
        = [p EXCEPT !.pending = TRUE, !.enabled = Buttons(p.board, TRUE)]
  BY UpdatedOne DEF updateBoard
<1>2. QED
  BY <1>1 DEF IsPage
-----------------------------------------------------------------------------
(* What the commands leave for the page to show. *)

Human(m) == PlayerType[m.fTurn] = "human"

(* No resignation is open, and a cube is offered before the roll. *)
Plain(m) == m.gs = "playing" => m.fResigned = 0 /\ (m.fDoubled => ~m.dice)

(* Every record clears the resignation or ends the game, and only a double
   leaves a cube on offer. *)
LEMMA AppliedPlain ==
    ASSUME NEW m \in MatchStates, NEW g, NEW r,
           r.mt \in {"normal", "double", "take", "drop", "resign", "setdice"},
           r.mt = "double" => ~m.dice
    PROVE  /\ Plain(Applied(m, g, r).ms)
           /\ r.mt = "resign" => Applied(m, g, r).ms.gs = "resigned"
<1> DEFINE x == FixMatchState(m, r)
           y == Fresh(x)
           a == ApplyMoveRecord(x, g, r).ms
           D == DOMAIN m
<1>1. /\ D = DOMAIN x /\ x.dice = m.dice
      /\ D = {"side", "st", "dice", "fTurn", "fMove", "fResigned",
              "fResignationDeclined", "fDoubled", "cGames", "fCubeOwner",
              "fCrawford", "fPostCrawford", "nMatchTo", "anScore", "nCube",
              "cBeavers", "gs"}
  BY DEF FixMatchState, MatchStates
<1> HIDE DEF x
<1>2. /\ DOMAIN y = D /\ y.fResigned = 0 /\ y.dice = m.dice
  BY <1>1 DEF Fresh
<1> HIDE DEF y
<1>3. CASE r.mt = "double"
  <2>1. a = ApplyDouble(y, r)
    BY <1>3 DEF ApplyMoveRecord, Fresh, y
  <2>2. ~y.dice
    BY <1>2, <1>3
  <2>3. a.fResigned = 0 /\ ~a.dice
    BY <1>1, <1>2, <2>1, <2>2 DEF ApplyDouble
  <2>4. QED
    BY <1>3, <2>3 DEF Plain, Applied, x
<1>4. CASE r.mt = "take"
  <2>1. a = IF y.fDoubled THEN ApplyTake(y) ELSE y
    BY <1>4 DEF ApplyMoveRecord, Fresh, y
  <2>2. a.fResigned = 0 /\ ~a.fDoubled
    BY <1>1, <1>2, <2>1 DEF ApplyTake
  <2>3. QED
    BY <1>4, <2>2 DEF Plain, Applied, x
<1>5. CASE r.mt = "drop"
  <2>1. a = IF y.fDoubled THEN ApplyDrop(y, g, r).ms ELSE y
    BY <1>5 DEF ApplyMoveRecord, Fresh, y
  <2>2. ApplyDrop(y, g, r).ms.gs = "drop"
    BY <1>1, <1>2 DEF ApplyDrop, ApplyGameOver
  <2>3. QED
    BY <1>2, <1>5, <2>1, <2>2 DEF Plain, Applied, x
<1>6. CASE r.mt = "resign"
  <2>1. a = ApplyResign(y, g, r).ms
    BY <1>6 DEF ApplyMoveRecord, Fresh, y
  <2>2. a.gs = "resigned"
    BY <1>1, <1>2, <2>1 DEF ApplyResign, ApplyGameOver
  <2>3. QED
    BY <2>2 DEF Plain, Applied, x
<1>7. CASE r.mt = "setdice"
  <2>1. a = ApplySetDice(y, r)
    BY <1>7 DEF ApplyMoveRecord, Fresh, y
  <2>2. a.fResigned = 0 /\ ~a.fDoubled
    BY <1>1, <1>2, <2>1 DEF ApplySetDice
  <2>3. QED
    BY <1>7, <2>2 DEF Plain, Applied, x
<1>8. CASE r.mt = "normal"
  <2> DEFINE z == [y EXCEPT !.fDoubled = FALSE]
             t == [PlayMove(z, r) EXCEPT !.dice = FALSE]
  <2>1. a = ApplyNormal(y, g, r).ms
    BY <1>8 DEF ApplyMoveRecord, Fresh, y
  <2>2. DOMAIN z = D /\ z.fResigned = 0 /\ ~z.fDoubled
    BY <1>1, <1>2
  <2>3. ApplyNormal(y, g, r).ms
          = IF t.st = 0 THEN t
            ELSE ApplyGameOver(t, g, "over", r.fPlayer,
                               t.nCube * GameValue(t, t.st)).ms
    BY DEF ApplyNormal
  <2> HIDE DEF z
  <2>4. DOMAIN t = D /\ t.fResigned = 0 /\ ~t.fDoubled
    BY <1>1, <2>2 DEF PlayMove
  <2> HIDE DEF t
  <2>5. ASSUME NEW n PROVE ApplyGameOver(t, g, "over", r.fPlayer, n).ms.gs = "over"
    BY <1>1, <2>4 DEF ApplyGameOver
  <2>6. QED
    BY <1>8, <2>1, <2>3, <2>4, <2>5 DEF Plain, Applied, x
<1>9. QED
  BY <1>3, <1>4, <1>5, <1>6, <1>7, <1>8

(* AddMoveRecord changes the match state and the list of games. *)
LEMMA Written ==
    ASSUME NEW s \in States, NEW r, add_moverecord_sanity_check(r) = "no"
    PROVE  LET t == AddMoveRecord(s, r)
           IN  /\ t.ms = Applied(s.ms, s.lMatch[s.plGame].info, r).ms
               /\ t.fNextTurn = s.fNextTurn /\ t.prompt = s.prompt
               /\ t.aborted = s.aborted
               /\ s.aborted = "no" => /\ TurnDone(t).ms = t.ms
                                      /\ TurnDone(t).fNextTurn
                                      /\ TurnDone(t).prompt = s.prompt
<1> DEFINE t == AddMoveRecord(s, r)
           a == Applied(s.ms, s.lMatch[s.plGame].info, r)
<1>1. PICK k, l : t = [s EXCEPT !.ms = a.ms, !.plLastMove = k, !.lMatch = l]
  BY DEF AddMoveRecord, Applied
<1> HIDE DEF t, a
<1>2. /\ t.ms = a.ms /\ t.fNextTurn = s.fNextTurn /\ t.prompt = s.prompt
      /\ t.aborted = s.aborted /\ DOMAIN t = DOMAIN s
  BY <1>1 DEF States
<1>3. s.aborted = "no" => TurnDone(t) = [t EXCEPT !.fNextTurn = TRUE]
  BY <1>2 DEF TurnDone
<1>4. s.aborted = "no" => /\ TurnDone(t).ms = t.ms /\ TurnDone(t).fNextTurn
                          /\ TurnDone(t).prompt = s.prompt
  BY <1>2, <1>3 DEF States
<1>5. QED
  BY <1>2, <1>4 DEF t, a
(* A command that does nothing, or that leaves a turn for NextTurn with no
   resignation open. *)
Passes(s, c, t) ==
    /\ t.prompt = s.prompt
    /\ \/ t = s
       \/ Playing(s) /\ MayAct(s, c) /\ t.fNextTurn /\ Plain(t.ms)

(* A cube is on offer only before the roll. *)
Calm(m) == m.gs = "playing" /\ m.fDoubled => ~m.dice

(* A record, and then NextTurn. *)
LEMMA PassesOn ==
    ASSUME NEW s, Good(s), Playing(s), NEW c, MayAct(s, c), NEW r,
           add_moverecord_sanity_check(r) = "no",
           r.mt \in {"normal", "double", "take", "drop", "resign", "setdice"},
           r.mt = "double" => ~s.ms.dice
    PROVE  LET t == TurnDone(AddMoveRecord(s, r))
           IN  /\ Passes(s, c, t)
               /\ r.mt = "resign" => t.ms.gs = "resigned"
<1>1. s \in States /\ s.aborted = "no" /\ s.ms \in MatchStates
  BY DEF Good, Sound
<1>2. QED
  BY <1>1, Written, AppliedPlain DEF Passes

(* The commands that answer or turn the cube, play a roll or accept a
   resignation. *)
LEMMA CubeOutcomes ==
    ASSUME NEW s, Good(s), Calm(s.ms), NEW c \in BOOLEAN, NEW ans
    PROVE  /\ Passes(s, c, CommandRedouble(s, c, ans))
           /\ Passes(s, c, CommandDouble(s, c, ans))
           /\ Passes(s, c, CommandTake(s, c, ans))
           /\ Passes(s, c, CommandDrop(s, c, ans))
           /\ \A n : Passes(s, FALSE, CommandMove(s, ans, n))
<1>1. move_not_last_in_match_ok(s, ans) = s
  BY NotAsked
<1>2. Passes(s, c, s) /\ Passes(s, FALSE, s)
  BY DEF Passes
<1> DEFINE R(mt, n) == Rec(mt, s.ms.fTurn, n)
           Done(r) == TurnDone(AddMoveRecord(s, r))
<1>3. ASSUME NEW mt \in {"normal", "double", "take", "drop"}, NEW n
      PROVE  /\ add_moverecord_sanity_check(R(mt, n)) = "no"
             /\ R(mt, n).mt = mt
  BY DEF Rec, add_moverecord_sanity_check
<1>4. ASSUME Playing(s), NEW d, MayAct(s, d), NEW n,
             NEW mt \in {"normal", "take", "drop"}
      PROVE  Passes(s, d, Done(R(mt, n)))
  BY <1>3, <1>4, PassesOn
<1>5. ASSUME Playing(s), MayAct(s, c), ~s.ms.dice
      PROVE  Passes(s, c, Done(R("double", 0)))
  BY <1>3, <1>5, PassesOn
<1>6. Passes(s, c, CommandTake(s, c, ans))
  BY <1>1, <1>2, <1>4 DEF CommandTake
<1>7. Passes(s, c, CommandDrop(s, c, ans))
  BY <1>1, <1>2, <1>4 DEF CommandDrop
<1>8. \A n : Passes(s, FALSE, CommandMove(s, ans, n))
  BY <1>1, <1>2, <1>4 DEF CommandMove
<1>9. Passes(s, c, CommandRedouble(s, c, ans))
  <2> DEFINE q == [s EXCEPT !.ms.fCubeOwner = Other(s.ms.fMove)]
             r == R("double", 0)
             t == TurnDone(AddMoveRecord(q, r))
  <2>1. CASE Playing(s) /\ s.ms.fDoubled /\ MayAct(s, c)
    <3>1. /\ s \in States /\ s.aborted = "no" /\ s.ms \in MatchStates
          /\ s.ms.fMove \in Player
      BY <2>1, InProgress
    <3>2. q.ms \in MatchStates /\ q \in States /\ q.ms.dice = s.ms.dice
      <4>1. Other(s.ms.fMove) \in Player
        BY <3>1, Players
      <4>2. QED
        BY <3>1, <4>1 DEF MatchStates, States
    <3>3. q.prompt = s.prompt /\ q.aborted = "no"
      BY <3>1 DEF States
    <3>4. ~s.ms.dice
      BY <2>1 DEF Calm, Playing
    <3> HIDE DEF q
    <3>5. /\ add_moverecord_sanity_check(r) = "no" /\ r.mt = "double"
      BY <1>3
    <3> HIDE DEF r
    <3>6. Passes(s, c, t)
      BY <2>1, <3>1, <3>2, <3>3, <3>4, <3>5, Written, AppliedPlain DEF Passes
    <3>7. CommandRedouble(s, c, ans) \in {s, t}
      BY <1>1 DEF CommandRedouble, q, r
    <3>8. QED
      BY <1>2, <3>6, <3>7
  <2>2. CASE ~(Playing(s) /\ s.ms.fDoubled /\ MayAct(s, c))
    BY <1>2, <2>2 DEF CommandRedouble
  <2>3. QED
    BY <2>1, <2>2
<1>10. Passes(s, c, CommandDouble(s, c, ans))
  BY <1>1, <1>2, <1>5, <1>9 DEF CommandDouble
<1>11. QED
  BY <1>6, <1>7, <1>8, <1>9, <1>10

(* Accepting a resignation, which has a value. *)
LEMMA AgreeOutcome ==
    ASSUME NEW s, Good(s), NEW c \in BOOLEAN, NEW ans,
           Playing(s) /\ c => s.ms.fResigned # -1
    PROVE  LET t == CommandAgree(s, c, ans)
           IN  Passes(s, c, t) /\ (t = s \/ t.ms.gs = "resigned")
<1>1. move_not_last_in_match_ok(s, ans) = s
  BY NotAsked
<1>2. Passes(s, c, s)
  BY DEF Passes
<1> DEFINE r == Rec("resign", Other(s.ms.fTurn), s.ms.fResigned)
           a == TurnDone(AddMoveRecord(s, r))
           G == Playing(s) /\ MayAct(s, c) /\ s.ms.fResigned # 0
<1>3. CommandAgree(s, c, ans) = s \/ (G /\ CommandAgree(s, c, ans) = a)
  BY <1>1 DEF CommandAgree
<1>4. G => s.ms.fResigned \in 1..3
  <2> SUFFICES ASSUME G PROVE s.ms.fResigned \in 1..3
    OBVIOUS
  <2>1. InGame(s.ms) /\ s.ms.fResigned \in -1..3
    BY InProgress, Fields
  <2>2. s.ms.fResigned # -1
    BY <2>1 DEF MayAct, InGame
  <2>3. QED
    BY <2>1, <2>2
<1>5. G => add_moverecord_sanity_check(r) = "no" /\ r.mt = "resign"
  BY <1>4 DEF Rec, add_moverecord_sanity_check
<1> HIDE DEF r
<1>6. G => Passes(s, c, a) /\ a.ms.gs = "resigned"
  BY <1>5, PassesOn
<1> HIDE DEF a
<1>7. QED
  BY <1>2, <1>3, <1>6

(* A resignation is offered or declined: the turn goes to the other player,
   and nothing changes that the board shows. *)
Turns(m, n) ==
    /\ n.gs = m.gs /\ n.fTurn = Other(m.fTurn) /\ Shown(n) = Shown(m)
    /\ n.dice = m.dice /\ n.fDoubled = m.fDoubled

(* Declining. *)
LEMMA DeclineOutcome ==
    ASSUME NEW s, Good(s), NEW c
    PROVE  LET t == CommandDecline(s, c)
           IN  /\ t.prompt = s.prompt
               /\ \/ t = s /\ ~(Playing(s) /\ MayAct(s, c) /\ s.ms.fResigned # 0)
                  \/ /\ Playing(s) /\ MayAct(s, c) /\ s.ms.fResigned # 0
                     /\ t.fNextTurn /\ Turns(s.ms, t.ms)
                     /\ t.ms.fResigned = 0
<1>1. s \in States /\ s.aborted = "no" /\ s.ms \in MatchStates
  BY DEF Good, Sound
<1> DEFINE n == [s.ms EXCEPT !.fResignationDeclined = s.ms.fResigned,
                             !.fResigned = 0, !.fTurn = Other(@)]
           t == [s EXCEPT !.ms = n, !.fNextTurn = TRUE]
<1>2. Playing(s) /\ MayAct(s, c) /\ s.ms.fResigned # 0
        => CommandDecline(s, c) = t
  BY <1>1 DEF CommandDecline, TurnDone, States
<1>3. t.prompt = s.prompt /\ t.ms = n /\ t.fNextTurn
  BY <1>1 DEF States
<1>4. Turns(s.ms, n) /\ n.fResigned = 0
  BY <1>1 DEF Turns, Shown, MatchStates
<1> HIDE DEF n, t
<1>5. QED
  BY <1>2, <1>3, <1>4 DEF CommandDecline

(* Offering. *)
LEMMA ResignOutcome ==
    ASSUME NEW s, Good(s), s.ms.fResigned = 0, NEW c \in BOOLEAN, NEW v
    PROVE  LET t == CommandResign(s, c, v)
           IN  /\ t.prompt = s.prompt /\ t.lMatch = s.lMatch
               /\ \/ t = s
                  \/ /\ Playing(s) /\ MayAct(s, c) /\ v # 0
                     /\ t.fNextTurn /\ Turns(s.ms, t.ms)
                     /\ t.ms.fResigned = v
<1> DEFINE m == s.ms
           n == [m EXCEPT !.fResigned = v, !.fTurn = Other(m.fTurn)]
           e == [s EXCEPT !.ms = n]
<1>1. s \in States /\ s.aborted = "no" /\ m \in MatchStates
  BY DEF Good, Sound
<1>2. CASE ~(Playing(s) /\ MayAct(s, c))
  BY <1>2 DEF CommandResign
<1>3. CASE /\ Playing(s) /\ MayAct(s, c)
           /\ \/ v \notin {-1, 1, 2, 3}
              \/ v >= 0 /\ v <= s.ms.fResignationDeclined
  <2>1. [m EXCEPT !.fResigned = 0] = m
    BY <1>1 DEF MatchStates
  <2>2. [s EXCEPT !.ms.fResigned = 0] = [s EXCEPT !.ms = [m EXCEPT !.fResigned = 0]]
    OBVIOUS
  <2>3. [s EXCEPT !.ms = m] = s
    BY <1>1 DEF States
  <2>4. QED
    BY <1>3, <2>1, <2>2, <2>3 DEF CommandResign
<1>4. CASE /\ Playing(s) /\ MayAct(s, c)
           /\ ~ \/ v \notin {-1, 1, 2, 3}
                \/ v >= 0 /\ v <= s.ms.fResignationDeclined
  <2>1. CommandResign(s, c, v) = TurnDone(e)
    BY <1>4 DEF CommandResign
  <2>2. Turns(m, n) /\ n.fResigned = v
    BY <1>1 DEF Turns, Shown, MatchStates
  <2> HIDE DEF n
  <2>3. /\ e.aborted = "no" /\ e.ms = n /\ e.prompt = s.prompt
        /\ e.lMatch = s.lMatch
        /\ {"fNextTurn", "ms", "prompt", "lMatch"} \subseteq DOMAIN e
    BY <1>1 DEF States
  <2> HIDE DEF e
  <2>4. TurnDone(e) = [e EXCEPT !.fNextTurn = TRUE]
    BY <2>3 DEF TurnDone
  <2>5. /\ TurnDone(e).ms = n /\ TurnDone(e).prompt = s.prompt
        /\ TurnDone(e).fNextTurn /\ TurnDone(e).lMatch = s.lMatch
    BY <2>3, <2>4
  <2>6. v # 0
    BY <1>4
  <2>7. QED
    BY <1>4, <2>1, <2>2, <2>5, <2>6
<1>5. QED
  BY <1>2, <1>3, <1>4
-----------------------------------------------------------------------------
(* What the page shows after the lines of a step. *)

(* The page is one whatever the lines. *)
LEMMA UpdatedPage ==
    ASSUME NEW p, IsPage(p), NEW x, Printed(x)
    PROVE  IsPage(Updated(p, x))
<1>1. PICK f : /\ f[0] = p /\ Updated(p, x) = f[Len(x)]
               /\ \A k \in 1..Len(x) : f[k] = updateBoard(f[k - 1], x[k])
  BY UpdatedDef
<1>2. Len(x) \in Nat
  BY DEF Printed
<1> DEFINE N == Len(x)
           X == {k \in Nat : k <= N => IsPage(f[k])}
<1> HIDE DEF N
<1>3. 0 \in X
  BY <1>1
<1>4. ASSUME NEW k \in Nat, k \in X PROVE k + 1 \in X
  <2> SUFFICES ASSUME k + 1 <= N PROVE IsPage(f[k + 1])
    OBVIOUS
  <2>1. k + 1 \in 1..N /\ (k + 1) - 1 = k /\ k <= N
    BY <1>2 DEF N
  <2>2. f[k + 1] = updateBoard(f[k], x[k + 1]) /\ IsPage(f[k])
    BY <1>1, <1>4, <2>1 DEF N
  <2>3. ASSUME NEW q, IsPage(q), NEW l PROVE IsPage(updateBoard(q, l))
    BY <2>3 DEF IsPage, updateBoard
  <2>4. QED
    BY <2>2, <2>3
<1> HIDE DEF X
<1>5. N \in X
  BY <1>2, <1>3, <1>4, Induct DEF N
<1>6. QED
  BY <1>1, <1>2, <1>5 DEF X, N

(* A board that has just been drawn is the one to decide on. *)
LEMMA DrawnServes ==
    ASSUME NEW p, NEW m, Draws(p, m), m.gs = "playing", m.fResigned = 0,
           Calm(m), m.dice \in BOOLEAN, m.fDoubled \in BOOLEAN
    PROVE  Serves(p, m)
<1>1. Shown(m).dice = m.dice /\ Shown(m).fDoubled = m.fDoubled
  BY DEF Shown
<1>2. /\ m.fDoubled => {"accept", "reject"} \subseteq Buttons(Shown(m), FALSE)
      /\ ~m.fDoubled => ("roll" \in Buttons(Shown(m), FALSE) <=> ~m.dice)
  BY <1>1 DEF Buttons, Calm
<1>3. QED
  BY <1>2 DEF Serves, Draws

(* A resignation that is offered before the roll can be accepted and
   rejected, whether or not a cube is on offer too. *)
LEMMA OfferedServes ==
    ASSUME NEW p, NEW m, p.board = Shown(m), p.enabled = Buttons(Shown(m), TRUE),
           m.fResigned # 0, ~m.dice
    PROVE  Serves(p, m)
<1>1. Shown(m).dice = m.dice
  BY DEF Shown
<1>2. {"accept", "reject"} \subseteq Buttons(Shown(m), TRUE)
  BY <1>1 DEF Buttons
<1>3. QED
  BY <1>2 DEF Serves

(* Showing a board, to a page that waits for no line after an offer. *)
LEMMA ShowsBoard ==
    ASSUME NEW p, IsPage(p), ~p.pending, NEW c, NEW m
    PROVE  LET q == Updated(p, ShowBoard(c, m))
           IN  /\ IsPage(q) /\ ~q.pending
               /\ c /\ m.gs # "none" => Draws(q, m)
BY BoardUpdates, UpdatedOne DEF ShowBoard

(* The page on its way to the decision described by m, with nt for a NextTurn
   that is to run:
     - when none is, the decision is a human's and the page serves it;
     - a resignation offered to a human is on the page at once, and the board
       that NextTurn will show is the line to be ignored;
     - an offer that was answered before that line came was the computer's,
       and the board has not changed since. *)
Tracks(p, m, nt) ==
    m.gs = "playing" =>
        /\ ~nt => Human(m) /\ Serves(p, m) /\ ~p.pending
        /\ Human(m) /\ m.fResigned # 0 => Serves(p, m) /\ (nt => p.pending)
        /\ p.pending /\ m.fResigned = 0 => ~Human(m) /\ p.board = Shown(m)

(* What the computer does in its turn: it resigns before it rolls, or leaves
   no resignation open. *)
Plays(m, n) ==
    \/ Plain(n)
    \/ /\ m.fResigned = 0 /\ n.fResigned # 0 /\ ~n.dice
       /\ Turns(m, n)

LEMMA ComputerShows ==
    ASSUME Display, NEW p, IsPage(p), ~p.pending, NEW m, NEW n,
           m.fResigned = 0 => p.board = Shown(m), Plays(m, n)
    PROVE  LET q == Updated(p, ComputerLines(m, n))
           IN  IsPage(q) /\ Calm(n) /\ Tracks(q, n, TRUE)
<1> DEFINE a == OfferLines(m, n)
           c == Display /\ ~m.dice /\ n.dice /\ n.gs = "playing"
           b == ShowBoard(c, n)
           p1 == Updated(p, a)
           q == Updated(p1, b)
<1>1. Printed(a) /\ Printed(b)
  BY Offering, Showing
<1>2. ComputerLines(m, n) = a \o b
  BY DEF ComputerLines
<1> HIDE DEF a, b
<1>3. Updated(p, ComputerLines(m, n)) = q
  BY <1>1, <1>2, UpdatedOn
<1>4. CASE Plain(n)
  <2>1. a = <<>>
    BY <1>4 DEF a, OfferLines, Plain
  <2>2. p1 = p
    BY <2>1, UpdatedOne
  <2>3. IsPage(q) /\ ~q.pending
    BY <2>2, ShowsBoard DEF b
  <2>4. QED
    BY <1>3, <1>4, <2>3 DEF Plain, Calm, Tracks
<1>5. CASE m.fResigned = 0 /\ n.fResigned # 0 /\ ~n.dice /\ Turns(m, n)
  <2>1. CASE n.gs = "playing"
    <3>1. a = <<Offer>>
      BY <1>5, <2>1 DEF a, OfferLines
    <3>2. /\ IsPage(p1) /\ p1.pending /\ p1.board = p.board
          /\ p1.enabled = Buttons(p.board, TRUE)
      BY <3>1, OfferUpdates
    <3> HIDE DEF p1
    <3>3. b = <<>>
      BY <1>5 DEF b, ShowBoard
    <3>4. q = p1
      BY <3>3, UpdatedOne
    <3>5. p.board = Shown(n)
      BY <1>5 DEF Turns
    <3>6. Serves(q, n)
      BY <1>5, <3>2, <3>4, <3>5, OfferedServes
    <3>7. QED
      BY <1>3, <1>5, <3>2, <3>4, <3>6 DEF Calm, Tracks
  <2>2. CASE n.gs # "playing"
    <3>1. IsPage(p1) /\ IsPage(q)
      BY <1>1, UpdatedPage
    <3>2. QED
      BY <1>3, <2>2, <3>1 DEF Calm, Tracks
  <2>3. QED
    BY <2>1, <2>2
<1>6. QED
  BY <1>4, <1>5 DEF Plays

(* A new game shows its board at least twice: the second time it is drawn,
   even if the line that was printed before it was an offer. *)
LEMMA StartShows ==
    ASSUME Display, NEW p, IsPage(p), NEW o, o.gs = "playing", o.dice,
           [o EXCEPT !.dice = TRUE] = o
    PROVE  Draws(Updated(p, NewGameLines(o)), o)
<1> DEFINE a == RollLines(o)
           b == ShowBoard(TRUE, o)
           c == ShowBoard(PlayerType[o.fTurn] = "human", o)
           p1 == Updated(p, a)
           p2 == Updated(p1, b)
           q == Updated(p2, c)
<1>1. a = <<Shown(o)>> /\ b = <<Shown(o)>> /\ c \in {<<>>, <<Shown(o)>>}
  BY DEF RollLines, ShowBoard
<1>2. Printed(a) /\ Printed(b) /\ Printed(c)
  BY Showing DEF RollLines
<1>3. NewGameLines(o) = a \o b \o c
  BY DEF NewGameLines
<1> HIDE DEF a, b, c
<1>4. Printed(a \o b)
  BY <1>2, Concatenated
<1>5. Updated(p, NewGameLines(o)) = q
  BY <1>2, <1>3, <1>4, UpdatedOn
<1>6. IsPage(p1) /\ ~p1.pending
  BY <1>1, BoardUpdates
<1> HIDE DEF p1
<1>7. Draws(p2, o)
  BY <1>1, <1>6, BoardUpdates
<1> HIDE DEF p2
<1>8. Draws(q, o)
  <2>1. IsPage(p2) /\ ~p2.pending
    BY <1>7 DEF Draws
  <2>2. CASE c = <<>>
    BY <1>7, <2>2, UpdatedOne
  <2>3. CASE c = <<Shown(o)>>
    BY <2>1, <2>3, BoardUpdates
  <2>4. QED
    BY <1>1, <2>2, <2>3
<1>9. QED
  BY <1>5, <1>8
-----------------------------------------------------------------------------
(* Rolls and the computer's turn. *)

(* The guard of CommandRoll. *)
MayRoll(s) == /\ Playing(s) /\ MayAct(s, FALSE) /\ ~s.ms.fDoubled
              /\ s.ms.fResigned = 0 /\ ~s.ms.dice

(* A roll leaves the player a choice, or is played for him. *)
LEMMA RollOutcome ==
    ASSUME NEW s, Good(s), NEW ans \in BOOLEAN, NEW out \in RollOutcomes(s.ms)
    PROVE  LET t == CommandRoll(s, ans, out)
           IN  /\ t.prompt = s.prompt
               /\ \/ t = s /\ (s.prompt = "no" \/ ~MayRoll(s))
                  \/ /\ Playing(s) /\ Human(s.ms) /\ s.ms.fResigned = 0
                     /\ \/ t.fNextTurn /\ Plain(t.ms)
                        \/ /\ t.fNextTurn = s.fNextTurn
                           /\ t.ms.fTurn = s.ms.fTurn /\ t.ms.dice
                           /\ t.ms.fResigned = 0 /\ ~t.ms.fDoubled
                           /\ Shown(t.ms) = Shown([s.ms EXCEPT !.dice = TRUE])
<1> DEFINE r == Rec("setdice", s.ms.fTurn, 0)
           e == AddMoveRecord(s, r)
           x == Rec("normal", s.ms.fTurn, out)
           f == TurnDone(AddMoveRecord(e, x))
<1>1. CASE ~MayRoll(s)
  BY <1>1 DEF CommandRoll, MayRoll
<1>2. CASE MayRoll(s)
  <2> USE DEF MayRoll
  <2>1. /\ CommandRoll(s, ans, out) \in {s, e, f}
        /\ s.prompt # "no" => CommandRoll(s, ans, out) \in {e, f}
    BY <1>2, NotAsked DEF CommandRoll, Refused
  <2>2. /\ s \in States /\ s.aborted = "no" /\ s.ms \in MatchStates
        /\ InGame(s.ms) /\ s.ms.gs = "playing"
    BY <1>2, InProgress
  <2>3. s.ms.fMove = s.ms.fTurn
    BY <1>2, <2>2 DEF InGame, Decider
  <2>4. /\ r.mt = "setdice" /\ add_moverecord_sanity_check(r) = "no"
        /\ r.fPlayer = s.ms.fTurn
        /\ x.mt = "normal" /\ add_moverecord_sanity_check(x) = "no"
    BY DEF Rec, add_moverecord_sanity_check
  <2> HIDE DEF r, x
  <2> DEFINE a == Applied(s.ms, s.lMatch[s.plGame].info, r).ms
  <2>5. /\ e.ms = a /\ e.fNextTurn = s.fNextTurn /\ e.prompt = s.prompt
    BY <2>2, <2>4, Written
  <2>6. a = ApplySetDice(Fresh(s.ms), r)
    BY <2>4 DEF Applied, FixMatchState, ApplyMoveRecord, Fresh
  <2> HIDE DEF a
  <2>7. /\ a.fTurn = s.ms.fTurn /\ a.dice /\ a.fResigned = 0 /\ ~a.fDoubled
        /\ a.fMove = s.ms.fMove /\ a.side = s.ms.side /\ a.st = s.ms.st
        /\ a.nCube = s.ms.nCube /\ a.fCubeOwner = s.ms.fCubeOwner
        /\ a.nMatchTo = s.ms.nMatchTo /\ a.anScore = s.ms.anScore
        /\ a.fCrawford = s.ms.fCrawford
    BY <2>2, <2>3, <2>4, <2>6 DEF ApplySetDice, Fresh, MatchStates
  <2>8. Shown(a) = Shown([s.ms EXCEPT !.dice = TRUE])
    <3> DEFINE d == [s.ms EXCEPT !.dice = TRUE]
    <3>1. /\ d.dice = TRUE /\ d.fDoubled = s.ms.fDoubled
          /\ d.fMove = s.ms.fMove /\ d.side = s.ms.side /\ d.st = s.ms.st
          /\ d.nCube = s.ms.nCube /\ d.fCubeOwner = s.ms.fCubeOwner
          /\ d.nMatchTo = s.ms.nMatchTo /\ d.anScore = s.ms.anScore
          /\ d.fCrawford = s.ms.fCrawford
      BY <2>2 DEF MatchStates
    <3> HIDE DEF d
    <3>2. a.dice = TRUE /\ a.fDoubled = s.ms.fDoubled
      <4>1. a.dice = TRUE /\ a.fDoubled = FALSE
        BY <2>2, <2>6 DEF ApplySetDice, Fresh, MatchStates
      <4>2. s.ms.fDoubled = FALSE
        BY <1>2, <2>2 DEF MatchStates
      <4>3. QED
        BY <4>1, <4>2
    <3>3. Shown(a) = Shown(d)
      BY <2>7, <3>1, <3>2, Zenon DEF Shown
    <3>4. QED
      BY <3>3 DEF d
  <2>9. Choice \in RollOutcomes(s.ms)
    BY DEF RollOutcomes
  <2>10. Good(e)
    <3>1. CommandRoll(s, ans, Choice) \in {s, e}
      BY <1>2, NotAsked DEF CommandRoll, r
    <3>2. CASE s.prompt # "no"
      <4>1. CommandRoll(s, ans, Choice) = e
        BY <1>2, <3>2, NotAsked DEF CommandRoll, r, Refused
      <4>2. QED
        BY <2>9, <4>1, GoodRoll DEF Leads
    <3>3. CASE s.prompt = "no"
      <4>1. /\ r \in Record
            /\ Applies(s.ms, s.lMatch[s.plGame].info, r)
        <5>1. /\ Sound(s.ms) /\ s.ms.fTurn \in Player
              /\ Fits(s.ms, s.lMatch[s.plGame].info)
          BY <1>2, InProgress
        <5>2. QED
          BY <1>2, <2>2, <5>1, Records, RollApplies DEF r
      <4>2. QED
        BY <1>2, <2>2, <2>4, <4>1, InProgress, GoodAddMoveRecord
    <3>4. QED
      BY <3>2, <3>3
  <2>11. e \in States /\ e.aborted = "no" /\ e.ms \in MatchStates
    BY <2>10 DEF Good, Sound
  <2> HIDE DEF e
  <2>12. f.fNextTurn /\ Plain(f.ms) /\ f.prompt = s.prompt
    BY <2>4, <2>5, <2>11, Written, AppliedPlain
  <2> HIDE DEF f
  <2>13. Human(s.ms) /\ Playing(s)
    BY <1>2 DEF MayAct, Human
  <2>14. QED
    BY <1>2, <2>1, <2>5, <2>7, <2>8, <2>12, <2>13
<1>3. QED
  BY <1>1, <1>2

(* The computer accepts a resignation, for the value offered or one of its
   own choice. *)
LEMMA AnswerOutcome ==
    ASSUME NEW s, Good(s), Playing(s), s.prompt # "no", NEW ans,
           NEW v \in 1..3
    PROVE  LET t == CommandAgree([s EXCEPT !.ms.fResigned = v], TRUE, ans)
           IN  Plain(t.ms) /\ t.prompt = s.prompt
<1> DEFINE m == [s.ms EXCEPT !.fResigned = v]
           e == [s EXCEPT !.ms = m]
           r == Rec("resign", Other(e.ms.fTurn), e.ms.fResigned)
<1>1. s \in States /\ s.aborted = "no" /\ s.ms \in MatchStates
  BY DEF Good, Sound
<1>2. m \in MatchStates
  <2>1. v \in -1..3
    OBVIOUS
  <2>2. QED
    BY <1>1, <2>1 DEF MatchStates
<1>3. m.gs = "playing" /\ m.fResigned = v
  BY <1>1 DEF MatchStates, Playing
<1> HIDE DEF m
<1>4. /\ e \in States /\ e.ms = m /\ e.aborted = "no" /\ e.prompt = s.prompt
      /\ e.plGame = s.plGame /\ e.plLastMove = s.plLastMove
      /\ e.lMatch = s.lMatch
  BY <1>1, <1>2 DEF States
<1>5. [s EXCEPT !.ms.fResigned = v] = e
  BY DEF m
<1> HIDE DEF e
<1>6. move_is_last_in_match(e)
  BY <1>4 DEF move_is_last_in_match, Good, Placed
<1>7. CommandAgree(e, TRUE, ans) = TurnDone(AddMoveRecord(e, r))
  <2>1. Playing(e) /\ MayAct(e, TRUE) /\ e.ms.fResigned # 0
    BY <1>3, <1>4 DEF Playing, MayAct
  <2>2. move_not_last_in_match_ok(e, ans) = e /\ ~Refused(e)
    BY <1>4, <1>6 DEF move_not_last_in_match_ok, Refused
  <2>3. QED
    BY <2>1, <2>2 DEF CommandAgree
<1>8. r.mt = "resign" /\ add_moverecord_sanity_check(r) = "no"
  BY <1>3, <1>4 DEF Rec, add_moverecord_sanity_check
<1> HIDE DEF r
<1>9. /\ Plain(TurnDone(AddMoveRecord(e, r)).ms)
      /\ TurnDone(AddMoveRecord(e, r)).prompt = e.prompt
  BY <1>2, <1>4, <1>8, Written, AppliedPlain
<1>10. QED
  BY <1>4, <1>5, <1>7, <1>9

(* Every decision of ComputerTurn. *)
LEMMA ComputerOutcome ==
    ASSUME NEW s, Good(s), Playing(s), Calm(s.ms), s.prompt # "no",
           NEW ans \in BOOLEAN, NEW t \in ComputerTurn(s, ans)
    PROVE  /\ t.prompt = s.prompt
           /\ \/ Plain(t.ms)
              \/ s.ms.fResigned = 0 /\ t.ms.fResigned # 0 /\ Turns(s.ms, t.ms)
<1>1. /\ s \in States /\ s.aborted = "no" /\ s.ms \in MatchStates
      /\ s.ms.gs = "playing" /\ s.ms.fResigned \in -1..3
  BY InProgress, Fields
<1>2. s.ms.fResigned = 0 => Plain(s.ms)
  BY DEF Plain, Calm
<1>3. ASSUME s.ms.fResigned = 0, NEW c, Passes(s, c, t)
      PROVE  t.prompt = s.prompt /\ Plain(t.ms)
  BY <1>2, <1>3 DEF Passes
<1>4. CASE s.ms.fResigned # 0
  <2> DEFINE V == IF s.ms.fResigned = -1 THEN 1..3 ELSE {s.ms.fResigned}
  <2>1. V \subseteq 1..3
    BY <1>1, <1>4
  <2>2. \/ t = CommandDecline(s, TRUE)
        \/ \E v \in V : t = CommandAgree([s EXCEPT !.ms.fResigned = v], TRUE, ans)
    BY <1>4 DEF ComputerTurn, AnswerResignation
  <2>3. CASE t = CommandDecline(s, TRUE)
    <3>1. MayAct(s, TRUE)
      BY DEF MayAct
    <3>2. /\ t.prompt = s.prompt /\ Turns(s.ms, t.ms) /\ t.ms.fResigned = 0
      BY <1>4, <2>3, <3>1, DeclineOutcome
    <3>3. Plain(t.ms)
      BY <1>1, <3>2 DEF Plain, Turns, Calm
    <3>4. QED
      BY <3>2, <3>3
  <2>4. CASE \E v \in V : t = CommandAgree([s EXCEPT !.ms.fResigned = v], TRUE, ans)
    <3>1. PICK v \in V : t = CommandAgree([s EXCEPT !.ms.fResigned = v], TRUE, ans)
      BY <2>4
    <3>2. v \in 1..3
      BY <2>1
    <3> HIDE DEF V
    <3>3. LET u == CommandAgree([s EXCEPT !.ms.fResigned = v], TRUE, ans)
          IN  Plain(u.ms) /\ u.prompt = s.prompt
      BY <3>2, AnswerOutcome
    <3>4. Plain(t.ms) /\ t.prompt = s.prompt
      BY ONLY <3>1, <3>3
    <3>5. QED
      BY <3>4
  <2> HIDE DEF V
  <2>5. QED
    BY <2>2, <2>3, <2>4
<1>5. CASE s.ms.fResigned = 0 /\ s.ms.fDoubled
  <2>1. t \in {CommandTake(s, TRUE, ans), CommandDrop(s, TRUE, ans),
               CommandRedouble(s, TRUE, ans)}
    BY <1>5 DEF ComputerTurn, AnswerDouble
  <2>2. Passes(s, TRUE, t)
    BY <2>1, CubeOutcomes
  <2>3. QED
    BY <1>3, <1>5, <2>2
<1>6. CASE s.ms.fResigned = 0 /\ ~s.ms.fDoubled
  <2>1. \/ t \in OfferResignation(s) \/ t \in OfferDouble(s, ans)
        \/ t \in RollOrMove(s)
    BY <1>6 DEF ComputerTurn
  <2>2. CASE t \in OfferResignation(s)
    <3>1. PICK v \in 1..3 : t = CommandResign(s, TRUE, v)
      BY <2>2 DEF OfferResignation
    <3>2. s.ms.fResigned = 0 /\ v # 0
      BY <1>6
    <3>3. /\ t.prompt = s.prompt
          /\ t = s \/ (Turns(s.ms, t.ms) /\ t.ms.fResigned = v)
      BY <3>1, <3>2, ResignOutcome, Zenon
    <3>4. QED
      BY <1>2, <3>2, <3>3
  <2>3. CASE t \in OfferDouble(s, ans)
    <3>1. t = CommandDouble(s, TRUE, ans)
      BY <2>3 DEF OfferDouble
    <3>2. Passes(s, TRUE, t)
      BY <3>1, CubeOutcomes
    <3>3. QED
      BY <1>3, <1>6, <3>2
  <2>4. CASE t \in RollOrMove(s)
    <3>1. CASE ~s.ms.dice
      <4> DEFINE m == [s.ms EXCEPT !.dice = TRUE]
      <4>1. t = [s EXCEPT !.ms = m]
        BY <2>4, <3>1 DEF RollOrMove
      <4>2. m.fResigned = 0 /\ ~m.fDoubled
        BY <1>1, <1>6 DEF MatchStates
      <4> HIDE DEF m
      <4>3. t.prompt = s.prompt /\ t.ms = m
        BY <1>1, <4>1 DEF States
      <4>4. QED
        BY <4>2, <4>3 DEF Plain
    <3>2. CASE s.ms.dice
      <4>1. PICK n \in PlayResults(s.ms) :
              t = AddMoveRecord(s, Rec("normal", s.ms.fTurn, n))
        BY <2>4, <3>2 DEF RollOrMove
      <4> DEFINE r == Rec("normal", s.ms.fTurn, n)
      <4>2. r.mt = "normal" /\ add_moverecord_sanity_check(r) = "no"
        BY DEF Rec, add_moverecord_sanity_check
      <4> HIDE DEF r
      <4>3. t = AddMoveRecord(s, r)
        BY <4>1 DEF r
      <4>4. QED
        BY <1>1, <4>2, <4>3, Written, AppliedPlain
    <3>3. QED
      BY <3>1, <3>2
  <2>5. QED
    BY <2>1, <2>2, <2>3, <2>4
<1>7. QED
  BY <1>1, <1>4, <1>5, <1>6 DEF MatchStates

(* TurnDone changes neither ms nor the list of games. *)
LEMMA TurnDoneKeeps ==
    ASSUME NEW u, Good(u)
    PROVE  LET t == TurnDone(u)
           IN  /\ t.ms = u.ms /\ t.fNextTurn /\ t.prompt = u.prompt
               /\ t.lMatch = u.lMatch
<1>1. u \in States /\ u.aborted = "no"
  BY DEF Good
<1>2. QED
  BY <1>1 DEF TurnDone, States

(* A turn of the computer's, which leaves another turn to be done. *)
LEMMA ComputerDone ==
    ASSUME NEW s, Good(s), Playing(s), Calm(s.ms), s.prompt # "no",
           NEW ans \in BOOLEAN, NEW u \in ComputerTurn(s, ans)
    PROVE  LET t == TurnDone(u)
           IN  /\ t.prompt = s.prompt /\ t.fNextTurn
               /\ \/ Plain(t.ms)
                  \/ /\ s.ms.fResigned = 0 /\ t.ms.fResigned # 0
                     /\ Turns(s.ms, t.ms)
<1>1. Good(u)
  BY GoodComputerTurn DEF Leads
<1>2. QED
  BY <1>1, ComputerOutcome, TurnDoneKeeps

(* The user asks the computer to play. *)
LEMMA PlayOutcome ==
    ASSUME NEW s, Good(s), Calm(s.ms), s.prompt # "no", NEW ans \in BOOLEAN,
           NEW t \in CommandPlay(s, ans)
    PROVE  \/ t = s
           \/ /\ Playing(s) /\ ~Human(s.ms) /\ t.fNextTurn
              /\ \/ Plain(t.ms)
                 \/ /\ s.ms.fResigned = 0 /\ t.ms.fResigned # 0
                    /\ Turns(s.ms, t.ms)
<1> DEFINE p == StartAutomaticPlay(s)
<1>1. CASE ~(Playing(s) /\ PlayerType[s.ms.fTurn] # "human")
  BY <1>1 DEF CommandPlay
<1>2. CASE Playing(s) /\ PlayerType[s.ms.fTurn] # "human"
  <2>1. PICK u \in ComputerTurn(p, ans) : t = TurnDone(u)
    BY <1>2 DEF CommandPlay
  <2>2. Good(p) /\ p.ms = s.ms /\ p.prompt # "no"
    BY GoodStartAutomaticPlay
  <2> HIDE DEF p
  <2>3. Playing(p)
    BY <1>2, <2>2 DEF Playing
  <2>4. QED
    BY <1>2, <2>1, <2>2, <2>3, ComputerDone DEF Human
<1>3. QED
  BY <1>1, <1>2
-----------------------------------------------------------------------------
(* New games. *)

(* NewGame leaves ms as the records it has written say. *)
LEMMA NewGameOutcome ==
    ASSUME Display, NEW s, Ready(s), NEW n \in NewGames(s)
    PROVE  /\ n.ms = Opening(n.lMatch)
           /\ n.prompt = s.prompt /\ n.fNextTurn = s.fNextTurn
           /\ n.plLastMove = 1
           /\ Last(n.lMatch).recs = <<Rec("setdice", n.ms.fTurn, 0)>>
<1>1. PICK w \in Player, a \in AutoDoubles(s.ms) : n = NewGame(s, w, a)
  BY DEF NewGames
<1> DEFINE r == Rec("setdice", w, 0)
           h == OpeningInfo(s.ms, a)
           o == OpeningState(s.ms, a)
           l == Append(s.lMatch, [info |-> h, recs |-> <<>>])
           k == Len(s.lMatch) + 1
           p == [s EXCEPT !.lMatch = l, !.plGame = k, !.plLastMove = 0,
                          !.ms = o]
<1>2. /\ gameinfo_sanity_check(NewGameInfo(s.ms)) = "no"
      /\ o \in MatchStates /\ h \in GameInfo
  BY OpeningApplies DEF Ready
<1>3. s \in States /\ s.lMatch \in Seq(Game) /\ s.aborted = "no"
  BY DEF Ready, States
<1>4. n = AddMoveRecord(p, r)
  BY <1>1, <1>2 DEF NewGame, OpeningInfo, OpeningState
<1>5. /\ r.mt = "setdice" /\ r.fPlayer = w
      /\ add_moverecord_sanity_check(r) = "no"
  BY DEF Rec, add_moverecord_sanity_check
<1>6. o = ApplyGameInfo(h)
  <2> DEFINE g == NewGameInfo(s.ms)
             c == 2 ^ a
  <2>1. /\ h.nMatch = g.nMatch /\ h.anScore = g.anScore /\ h.i = g.i
        /\ h.fCrawfordGame = g.fCrawfordGame /\ h.nAutoDoubles = a
    BY DEF OpeningInfo, NewGameInfo
  <2>2. o = [ApplyGameInfo(g) EXCEPT !.nCube = c]
    BY DEF OpeningState
  <2>3. 2 ^ h.nAutoDoubles = c
    BY <2>1
  <2> HIDE DEF g, c, h, o
  <2> DEFINE Post(x) == /\ ~x.fCrawfordGame
                        /\ \E q \in Player : x.anScore[q] = x.nMatch - 1
             M(x, b) == [InitialMatchState EXCEPT
                           !.nMatchTo = x.nMatch, !.anScore = x.anScore,
                           !.cGames = x.i, !.nCube = b,
                           !.fCrawford = x.fCrawfordGame,
                           !.fPostCrawford = Post(x)]
  <2>4. /\ ApplyGameInfo(h) = M(h, c)
        /\ ApplyGameInfo(g) = M(g, 2 ^ g.nAutoDoubles)
    BY <2>3 DEF ApplyGameInfo
  <2>5. Post(h) = Post(g)
    BY <2>1
  <2> HIDE DEF Post
  <2>6. M(h, c) = M(g, c)
    BY <2>1, <2>5
  <2>7. \A b : M(g, c) = [M(g, b) EXCEPT !.nCube = c]
    BY DEF InitialMatchState
  <2> HIDE DEF M
  <2>8. QED
    BY <2>2, <2>4, <2>6, <2>7
<1> HIDE DEF h, o, r
<1>7. /\ Len(l) = k /\ k \in Nat /\ k >= 1 /\ l \in Seq(Game)
      /\ l[k] = [info |-> h, recs |-> <<>>]
  <2>1. [info |-> h, recs |-> <<>>] \in Game
    BY <1>2 DEF Game
  <2>2. QED
    BY <1>3, <2>1
<1> HIDE DEF l, k
<1>8. /\ p.lMatch = l /\ p.plGame = k /\ p.plLastMove = 0 /\ p.ms = o
      /\ p.prompt = s.prompt /\ p.fNextTurn = s.fNextTurn
      /\ DOMAIN p = DOMAIN s
  BY <1>3 DEF States
<1> HIDE DEF p
<1> DEFINE gm == p.lMatch[p.plGame]
           kept == SubSeq(gm.recs, 1, p.plLastMove)
           base == IF kept # <<>> /\ Elides(r, Last(kept))
                   THEN Front(kept) ELSE kept
           recs == Append(base, r)
           t == ApplyMoveRecord(FixMatchState(p.ms, r), gm.info, r)
           new == [info |-> t.info, recs |-> recs]
           cut == SubSeq(l, 1, k - 1)
<1>9. n = [p EXCEPT !.ms = t.ms, !.plLastMove = Len(recs),
                    !.lMatch = Append(cut, new)]
  BY <1>4, <1>5, <1>8 DEF AddMoveRecord
<1>10. gm.info = h /\ gm.recs = <<>>
  BY <1>7, <1>8
<1>11. kept = <<>>
  BY <1>8, <1>10
<1>12. recs = <<r>> /\ Len(recs) = 1
  <2>1. base = <<>>
    BY <1>11
  <2>2. Append(<<>>, r) = <<r>>
    OBVIOUS
  <2>3. recs = <<r>>
    BY <2>1, <2>2
  <2>4. Len(<<r>>) = 1
    OBVIOUS
  <2>5. QED
    BY <2>3, <2>4
<1>13. t.ms = ApplySetDice(Fresh(o), r) /\ t.info = h
  BY <1>5, <1>8, <1>10 DEF FixMatchState, ApplyMoveRecord, Fresh
<1> HIDE DEF recs, t, kept, base, gm
<1>14. cut \in Seq(Game) /\ Len(cut) = k - 1
  BY <1>7
<1> HIDE DEF cut
<1>15. /\ Len(Append(cut, new)) = k /\ Append(cut, new)[k] = new
  BY <1>7, <1>14
<1>16. /\ n.ms = t.ms /\ n.plLastMove = 1 /\ n.lMatch = Append(cut, new)
       /\ n.prompt = s.prompt /\ n.fNextTurn = s.fNextTurn
  BY <1>3, <1>8, <1>9, <1>12 DEF States
<1>17. Last(n.lMatch) = new
  BY <1>15, <1>16 DEF Last
<1> HIDE DEF new
<1>18. Last(n.lMatch).info = h /\ Last(n.lMatch).recs = <<r>>
  BY <1>12, <1>13, <1>17 DEF new
<1>19. Opening(n.lMatch) = [ApplySetDice(o, r) EXCEPT !.gs = "playing"]
  <2>1. Last(n.lMatch).recs[1].fPlayer = w
    BY <1>5, <1>18
  <2>2. QED
    BY <1>6, <1>18, <2>1 DEF Opening, r
<1>20. ApplySetDice(Fresh(o), r) = [ApplySetDice(o, r) EXCEPT !.gs = "playing"]
  <2>1. o.fResigned = 0 /\ o.fResignationDeclined = 0
    BY <1>6 DEF ApplyGameInfo, InitialMatchState
  <2>2. QED
    BY <1>2, <2>1 DEF ApplySetDice, Fresh, MatchStates
<1>21. n.ms.fTurn = w
  BY <1>2, <1>5, <1>13, <1>16 DEF ApplySetDice, Fresh, MatchStates
<1>22. QED
  BY <1>13, <1>16, <1>18, <1>19, <1>20, <1>21 DEF r

(* The computer's first turn plays the opening roll, or offers to resign
   after it; either way the list still tells how the game opened. *)
LEMMA FirstOutcome ==
    ASSUME Display, NEW s, Ready(s), s.prompt # "no", NEW n \in NewGames(s),
           NEW ans \in BOOLEAN, NEW u \in ComputerTurn(n, ans)
    PROVE  LET t == TurnDone(u)
           IN  /\ t.prompt = s.prompt /\ t.fNextTurn
               /\ Opening(t.lMatch) = n.ms
               /\ \/ Plain(t.ms)
                  \/ /\ t.ms.fResigned # 0 /\ t.ms.dice
                     /\ t.ms.gs = "playing" /\ t.ms.fTurn = Other(n.ms.fTurn)
<1>1. /\ Good(n) /\ Playing(n) /\ n.ms.fResigned = 0 /\ ~n.ms.fDoubled
      /\ n.ms.dice /\ n.ms.side = NoOne
  BY GoodNewGame DEF Begins
<1>2. /\ n.ms = Opening(n.lMatch) /\ n.prompt = s.prompt /\ n.plLastMove = 1
      /\ Last(n.lMatch).recs = <<Rec("setdice", n.ms.fTurn, 0)>>
  BY NewGameOutcome
<1>3. Calm(n.ms)
  BY <1>1 DEF Calm
<1> DEFINE t == TurnDone(u)
<1>4. /\ t.prompt = s.prompt /\ t.fNextTurn
      /\ \/ Plain(t.ms)
         \/ t.ms.fResigned # 0 /\ Turns(n.ms, t.ms)
  BY <1>1, <1>2, <1>3, ComputerDone
<1>5. Good(u)
  BY <1>1, <1>2, GoodComputerTurn DEF Leads
<1>6. t.lMatch = u.lMatch
  BY <1>5, TurnDoneKeeps
<1> HIDE DEF t
<1>7. Opening(u.lMatch) = n.ms
  <2>1. u \in OfferResignation(n) \/ u \in RollOrMove(n)
    BY <1>1 DEF ComputerTurn, OfferDouble
  <2>2. CASE u \in OfferResignation(n)
    <3>1. PICK v \in 1..3 : u = CommandResign(n, TRUE, v)
      BY <2>2 DEF OfferResignation
    <3>2. u.lMatch = n.lMatch
      BY <1>1, <3>1, ResignOutcome
    <3>3. QED
      BY <1>2, <3>2
  <2>3. CASE u \in RollOrMove(n)
    <3> DEFINE r == Rec("normal", n.ms.fTurn, 0)
               d == Rec("setdice", n.ms.fTurn, 0)
               k == n.plGame
    <3>1. u = AddMoveRecord(n, r)
      BY <1>1, <2>3 DEF RollOrMove, PlayResults
    <3>2. /\ r.mt = "normal" /\ r.fPlayer = n.ms.fTurn /\ r.v = 0
          /\ add_moverecord_sanity_check(r) = "no"
          /\ d.mt = "setdice" /\ d.fPlayer = n.ms.fTurn
      BY DEF Rec, add_moverecord_sanity_check
    <3>3. /\ n \in States /\ n.lMatch \in Seq(Game) /\ k = Len(n.lMatch)
          /\ k \in 1..Len(n.lMatch) /\ n.ms \in MatchStates
      BY <1>1, InProgress DEF States
    <3> HIDE DEF r, d, k
    <3>4. Last(n.lMatch) = n.lMatch[k]
      BY <3>3 DEF Last
    <3> DEFINE gm == n.lMatch[n.plGame]
               kept == SubSeq(gm.recs, 1, n.plLastMove)
               base == IF kept # <<>> /\ Elides(r, Last(kept))
                       THEN Front(kept) ELSE kept
               recs == Append(base, r)
               a == ApplyMoveRecord(FixMatchState(n.ms, r), gm.info, r)
               new == [info |-> a.info, recs |-> recs]
               cut == SubSeq(n.lMatch, 1, n.plGame - 1)
    <3>5. u = [n EXCEPT !.ms = a.ms, !.plLastMove = Len(recs),
                        !.lMatch = Append(cut, new)]
      BY <3>1, <3>2 DEF AddMoveRecord
    <3>6. recs[1] = r
      <4>1. gm.recs = <<d>> /\ n.plLastMove = 1
        BY <1>2, <3>4 DEF d, k
      <4>2. kept = <<d>>
        <5> DEFINE q == <<d>>
        <5>1. q \in Seq({d}) /\ Len(q) = 1
          OBVIOUS
        <5> HIDE DEF q
        <5>2. SubSeq(q, 1, 1) = q
          BY <5>1
        <5>3. QED
          BY <4>1, <5>2 DEF q
      <4>3. <<d>> # <<>> /\ Last(<<d>>) = d /\ Front(<<d>>) = <<>>
        BY DEF Last, Front
      <4>4. Elides(r, d)
        BY <3>2 DEF Elides
      <4>5. base = <<>>
        BY <4>2, <4>3, <4>4
      <4>6. Append(<<>>, r)[1] = r
        OBVIOUS
      <4> HIDE DEF base
      <4>7. QED
        BY <4>5, <4>6
    <3>7. a.info = gm.info
      <4> DEFINE y == Fresh(FixMatchState(n.ms, r))
                 z == [PlayMove([y EXCEPT !.fDoubled = FALSE], r)
                         EXCEPT !.dice = FALSE]
      <4>1. a = ApplyNormal(y, gm.info, r)
        BY <3>2 DEF ApplyMoveRecord, Fresh
      <4>2. "st" \in DOMAIN y
        BY <3>3 DEF Fresh, FixMatchState, MatchStates
      <4> HIDE DEF y, a
      <4>3. z.st = 0
        BY <3>2, <4>2 DEF PlayMove
      <4>4. QED
        BY <4>1, <4>3 DEF ApplyNormal
    <3> HIDE DEF recs, a
    <3>8. Last(u.lMatch) = new
      <4>1. cut \in Seq(Game) /\ Len(cut) = k - 1
        BY <3>3 DEF k
      <4> HIDE DEF cut, new
      <4>2. Len(Append(cut, new)) = k /\ Append(cut, new)[k] = new
        BY <3>3, <4>1
      <4>3. u.lMatch = Append(cut, new)
        BY <3>3, <3>5 DEF States
      <4>4. QED
        BY <4>2, <4>3 DEF Last
    <3>9. Last(u.lMatch).info = Last(n.lMatch).info
      BY <3>4, <3>7, <3>8 DEF k
    <3>10. Last(u.lMatch).recs[1].fPlayer = Last(n.lMatch).recs[1].fPlayer
      <4>1. Last(u.lMatch).recs[1] = r
        BY <3>6, <3>8
      <4>2. Last(n.lMatch).recs[1] = d
        BY <1>2 DEF d
      <4>3. QED
        BY <3>2, <4>1, <4>2
    <3>11. Opening(u.lMatch) = Opening(n.lMatch)
      BY <3>9, <3>10 DEF Opening
    <3>12. QED
      BY <1>2, <3>11
  <2>4. QED
    BY <2>1, <2>2, <2>3
<1>8. QED
  BY <1>1, <1>4, <1>6, <1>7 DEF t, Turns, Playing

(* A game has started: a human has the opening roll to play, or the computer
   has played it, or has offered to resign. *)
Started(t) ==
    LET o == Opening(t.lMatch)
    IN  /\ o \in MatchStates /\ o.fTurn \in Player
        /\ o.gs = "playing" /\ o.dice /\ [o EXCEPT !.dice = TRUE] = o
        /\ o.fResigned = 0 /\ ~o.fDoubled
        /\ \/ Human(o) /\ t.ms = o
           \/ /\ ~Human(o) /\ t.fNextTurn
              /\ \/ Plain(t.ms)
                 \/ /\ t.ms.fResigned # 0 /\ t.ms.dice
                    /\ t.ms.gs = "playing" /\ t.ms.fTurn = Other(o.fTurn)

(* NewGame, and the first turn if it is the computer's. *)
LEMMA GameStarts ==
    ASSUME Display, NEW s, Ready(s), s.prompt # "no", NEW n \in NewGames(s),
           NEW ans \in BOOLEAN
    PROVE  /\ Human(n.ms) => Started(n) /\ n.prompt = s.prompt
           /\ ~Human(n.ms) => \A u \in ComputerTurn(n, ans) :
                 Started(TurnDone(u)) /\ TurnDone(u).prompt = s.prompt
<1>1. /\ n.ms.fResigned = 0 /\ ~n.ms.fDoubled /\ n.ms.dice /\ Good(n)
      /\ n.ms.gs = "playing" /\ n.ms \in MatchStates /\ n.ms.fTurn \in Player
  BY GoodNewGame, InProgress DEF Begins, Playing
<1>2. n.ms = Opening(n.lMatch) /\ n.prompt = s.prompt
  BY NewGameOutcome
<1>3. [n.ms EXCEPT !.dice = TRUE] = n.ms
  BY <1>1 DEF MatchStates
<1>4. Human(n.ms) => Started(n) /\ n.prompt = s.prompt
  BY <1>1, <1>2, <1>3 DEF Started
<1>5. ASSUME ~Human(n.ms), NEW u \in ComputerTurn(n, ans)
      PROVE  Started(TurnDone(u)) /\ TurnDone(u).prompt = s.prompt
  <2> DEFINE t == TurnDone(u)
  <2>1. /\ t.prompt = s.prompt /\ t.fNextTurn /\ Opening(t.lMatch) = n.ms
        /\ \/ Plain(t.ms)
           \/ /\ t.ms.fResigned # 0 /\ t.ms.dice
              /\ t.ms.gs = "playing" /\ t.ms.fTurn = Other(n.ms.fTurn)
    BY FirstOutcome
  <2> HIDE DEF t
  <2>2. Started(t)
    BY <1>1, <1>3, <1>5, <2>1 DEF Started
  <2>3. QED
    BY <2>1, <2>2 DEF t
<1>6. QED
  BY <1>4, <1>5
-----------------------------------------------------------------------------
(* The page follows the game. *)

(* The computer offers no resignation after its roll. *)
Unrolled(m) == m.gs = "playing" /\ m.dice /\ m.fResigned # 0
                  => PlayerType[Other(m.fTurn)] = "human"

(* The decision of a game that has started, once its board is drawn. *)
LEMMA StartedShows ==
    ASSUME Display, NEW p, NEW t, Started(t), Unrolled(t.ms),
           t.fNextTurn \in BOOLEAN, Draws(p, Opening(t.lMatch))
    PROVE  LET o == Opening(t.lMatch)
               q == IF Human(o) THEN p ELSE Updated(p, ComputerLines(o, t.ms))
           IN  IsPage(q) /\ Calm(t.ms) /\ Tracks(q, t.ms, t.fNextTurn)
<1> DEFINE o == Opening(t.lMatch)
<1>1. /\ o \in MatchStates /\ o.fTurn \in Player
      /\ o.gs = "playing" /\ o.dice /\ [o EXCEPT !.dice = TRUE] = o
      /\ o.fResigned = 0 /\ ~o.fDoubled
      /\ \/ Human(o) /\ t.ms = o
         \/ /\ ~Human(o) /\ t.fNextTurn
            /\ \/ Plain(t.ms)
               \/ /\ t.ms.fResigned # 0 /\ t.ms.dice
                  /\ t.ms.gs = "playing" /\ t.ms.fTurn = Other(o.fTurn)
  BY DEF Started
<1>2. IsPage(p) /\ ~p.pending /\ p.board = Shown(o)
  BY DEF Draws
<1>3. Calm(o)
  BY <1>1 DEF Calm
<1>4. CASE Human(o)
  <2>1. t.ms = o
    BY <1>1, <1>4
  <2>2. o.dice \in BOOLEAN /\ o.fDoubled \in BOOLEAN
    BY <1>1 DEF MatchStates
  <2>3. Serves(p, o)
    BY <1>1, <1>3, <2>2, DrawnServes
  <2>4. QED
    BY <1>1, <1>2, <1>3, <1>4, <2>1, <2>3 DEF Tracks
<1>5. CASE ~Human(o)
  <2>1. PlayerType[o.fTurn] # "human"
    BY <1>5 DEF Human
  <2>2. Plain(t.ms)
    BY <1>1, <1>5, <2>1, Players DEF Unrolled
  <2>3. Plays(o, t.ms) /\ t.fNextTurn = TRUE
    BY <1>1, <1>5, <2>2 DEF Plays
  <2> HIDE DEF o
  <2>4. QED
    BY <1>2, <1>5, <2>3, ComputerShows DEF o
<1>6. QED
  BY <1>4, <1>5

(* The lines of a new game, whether a command or NextTurn starts it. *)
LEMMA StartLinesShow ==
    ASSUME Display, NEW p, IsPage(p), NEW t, Started(t), Unrolled(t.ms),
           t.fNextTurn \in BOOLEAN, NEW m, NEW x,
           x \in {StartLines(t.lMatch, t.ms),
                  NextTurnLines(m, t.ms, TRUE, t.lMatch)}
    PROVE  LET q == Updated(p, x)
           IN  IsPage(q) /\ Calm(t.ms) /\ Tracks(q, t.ms, t.fNextTurn)
<1> DEFINE o == Opening(t.lMatch)
           a == NewGameLines(o)
           b == ShowBoard(TRUE, o)
           c == IF Human(o) THEN <<>> ELSE ComputerLines(o, t.ms)
           p1 == Updated(p, a)
           p2 == Updated(p1, b)
           Q(q) == IsPage(q) /\ Calm(t.ms) /\ Tracks(q, t.ms, t.fNextTurn)
<1>1. o.gs = "playing" /\ o.dice /\ [o EXCEPT !.dice = TRUE] = o
  BY DEF Started
<1>2. \/ x = a \o c
      \/ x = (a \o b) \o c
  <2>1. StartLines(t.lMatch, t.ms) = a \o c
    BY DEF StartLines, Human
  <2>2. NextTurnLines(m, t.ms, TRUE, t.lMatch) = (a \o b) \o c
    <3>1. ~MustRoll(o)
      BY <1>1 DEF MustRoll
    <3>2. ShowBoard(Display \/ PlayerType[o.fTurn] = "human", o) = b
      BY DEF ShowBoard
    <3>3. QED
      BY <3>1, <3>2 DEF NextTurnLines, Human
  <2>3. QED
    BY <2>1, <2>2
<1>3. Printed(a) /\ Printed(b) /\ Printed(c)
  BY PrintedLines, Showing
<1>4. Draws(p1, o)
  BY <1>1, StartShows
<1>5. Draws(p2, o)
  <2>1. IsPage(p1) /\ ~p1.pending
    BY <1>4 DEF Draws
  <2>2. QED
    BY <1>1, <2>1, ShowsBoard
<1>6. ASSUME NEW r, Draws(r, o)
      PROVE  Q(Updated(r, c))
  <2>1. CASE Human(o)
    <3>1. Updated(r, c) = r
      BY <2>1, UpdatedOne
    <3>2. QED
      BY <1>6, <2>1, <3>1, StartedShows
  <2>2. CASE ~Human(o)
    BY <1>6, <2>2, StartedShows
  <2>3. QED
    BY <2>1, <2>2
<1> HIDE DEF a, b, c, o
<1>7. Printed(a \o b)
  BY <1>3, Concatenated
<1>8. /\ Updated(p, a \o c) = Updated(p1, c)
      /\ Updated(p, (a \o b) \o c) = Updated(p2, c)
  BY <1>3, <1>7, UpdatedOn
<1> HIDE DEF p1, p2
<1>9. Q(Updated(p1, c)) /\ Q(Updated(p2, c))
  BY <1>4, <1>5, <1>6
<1>10. QED
  BY <1>2, <1>8, <1>9

(* A careful user plays against the computer, and waits for the page. *)
PageUser == /\ CarefulUser /\ ~Impatient
            /\ \E p \in Player : PlayerType[p] = "gnu"

(* The page keeps up with the match. *)
PageShows == IsPage(page) /\ Calm(ms) /\ Tracks(page, ms, fNextTurn)

PageInv == MatchInv /\ PageShows

(* The user's opponent is the computer. *)
LEMMA Opponent ==
    ASSUME PageUser, NEW m, m.fTurn \in Player, NEW n,
           n.fTurn = Other(m.fTurn), Human(m)
    PROVE  ~Human(n)
<1>1. PICK p \in Player : PlayerType[p] = "gnu"
  BY DEF PageUser
<1>2. p = m.fTurn \/ p = Other(m.fTurn)
  BY DEF Player, Other
<1>3. QED
  BY <1>1, <1>2 DEF Human

(* A turn of the user's that leaves no resignation open. *)
LEMMA PassesTracks ==
    ASSUME NEW p, NEW s, Tracks(p, s.ms, s.fNextTurn), s.ms.fResigned = 0,
           NEW t, Passes(s, FALSE, t), t # s
    PROVE  Calm(t.ms) /\ Tracks(p, t.ms, t.fNextTurn)
<1>1. s.ms.gs = "playing" /\ Human(s.ms) /\ t.fNextTurn /\ Plain(t.ms)
  BY DEF Passes, Playing, MayAct, Human
<1>2. ~p.pending
  BY <1>1 DEF Tracks
<1>3. QED
  BY <1>1, <1>2 DEF Plain, Calm, Tracks

(* The user answers a resignation. *)
LEMMA AnswerTracks ==
    ASSUME PageUser, NEW p, NEW s, Good(s), Calm(s.ms),
           Tracks(p, s.ms, s.fNextTurn), NEW ans, NEW t, t # s,
           t = CommandAgree(s, FALSE, ans) \/ t = CommandDecline(s, FALSE)
    PROVE  Calm(t.ms) /\ Tracks(p, t.ms, t.fNextTurn)
<1>1. CASE t = CommandAgree(s, FALSE, ans)
  <2>1. t.ms.gs = "resigned"
    BY <1>1, AgreeOutcome
  <2>2. QED
    BY <2>1 DEF Calm, Tracks
<1>2. CASE t = CommandDecline(s, FALSE)
  <2>1. /\ Playing(s) /\ MayAct(s, FALSE) /\ s.ms.fResigned # 0
        /\ t.fNextTurn /\ Turns(s.ms, t.ms) /\ t.ms.fResigned = 0
    BY <1>2, DeclineOutcome
  <2>2. s.ms.gs = "playing" /\ Human(s.ms) /\ s.ms.fTurn \in Player
    BY <2>1, InProgress DEF Playing, MayAct, Human
  <2>3. ~Human(t.ms) /\ Shown(t.ms) = Shown(s.ms)
    BY <2>1, <2>2, Opponent DEF Turns
  <2>4. p.board = Shown(s.ms)
    BY <2>1, <2>2 DEF Tracks, Serves
  <2>5. QED
    BY <2>1, <2>3, <2>4 DEF Turns, Calm, Tracks
<1>3. QED
  BY <1>1, <1>2

(* A command that prints nothing leaves the page as it is. *)
LEMMA QuietTracks ==
    ASSUME PageUser, PageInv, WebQuiet
    PROVE  Calm(ms') /\ Tracks(page, ms', fNextTurn')
<1>1. /\ Good(cur) /\ Calm(cur.ms) /\ Tracks(page, cur.ms, cur.fNextTurn)
      /\ cur.ms = ms /\ ResolveFirst
  BY DEF PageInv, PageShows, MatchInv, cur, PageUser, CarefulUser
<1> DEFINE Q(t) == Calm(t.ms) /\ Tracks(page, t.ms, t.fNextTurn)
<1>2. ASSUME NEW t, Install(t), Q(t)
      PROVE  Calm(ms') /\ Tracks(page, ms', fNextTurn')
  BY <1>2 DEF Install
<1>3. ASSUME NEW t, Install(t) PROVE t # cur
  BY <1>3 DEF Install
<1>4. ASSUME NEW t, Install(t), Passes(cur, FALSE, t), cur.ms.fResigned = 0
      PROVE  Q(t)
  BY <1>1, <1>3, <1>4, PassesTracks
<1>5. ASSUME NEW ans, NEW t, Install(t),
             t = CommandAgree(cur, FALSE, ans) \/ t = CommandDecline(cur, FALSE)
      PROVE  Q(t)
  BY <1>1, <1>3, <1>5, AnswerTracks
<1>6. Resolved => cur.ms.fResigned = 0
  BY <1>1 DEF Resolved
<1> HIDE DEF Q
<1>7. CASE DoAgree
  BY <1>2, <1>5, <1>7 DEF DoAgree
<1>8. CASE DoDecline
  BY <1>2, <1>5, <1>8 DEF DoDecline
<1>9. CASE DoDouble
  BY <1>1, <1>2, <1>4, <1>6, <1>9, CubeOutcomes DEF DoDouble
<1>10. CASE DoRedouble
  BY <1>1, <1>2, <1>4, <1>6, <1>10, CubeOutcomes DEF DoRedouble
<1>11. CASE DoTake
  BY <1>1, <1>2, <1>4, <1>6, <1>11, CubeOutcomes DEF DoTake
<1>12. CASE DoDrop
  BY <1>1, <1>2, <1>4, <1>6, <1>12, CubeOutcomes DEF DoDrop
<1>13. CASE DoAccept
  <2>1. PICK ans \in BOOLEAN : Install(CommandAccept(cur, ans))
    BY <1>13 DEF DoAccept
  <2>2. CASE cur.ms.fResigned # 0
    BY <1>2, <1>5, <2>1, <2>2 DEF CommandAccept
  <2>3. CASE cur.ms.fResigned = 0
    <3>1. CommandAccept(cur, ans) = CommandTake(cur, FALSE, ans)
      BY <1>3, <2>1, <2>3 DEF CommandAccept
    <3>2. QED
      BY <1>1, <1>2, <1>4, <2>1, <2>3, <3>1, CubeOutcomes
  <2>4. QED
    BY <2>2, <2>3
<1>14. CASE DoReject
  <2>1. PICK ans \in BOOLEAN : Install(CommandReject(cur, ans))
    BY <1>14 DEF DoReject
  <2>2. CASE cur.ms.fResigned # 0
    BY <1>2, <1>5, <2>1, <2>2 DEF CommandReject
  <2>3. CASE cur.ms.fResigned = 0
    <3>1. CommandReject(cur, ans) = CommandDrop(cur, FALSE, ans)
      BY <1>3, <2>1, <2>3 DEF CommandReject
    <3>2. QED
      BY <1>1, <1>2, <1>4, <2>1, <2>3, <3>1, CubeOutcomes
  <2>4. QED
    BY <2>2, <2>3
<1>15. CASE DoMove
  <2>1. PICK ans \in BOOLEAN, n \in PlayResults(ms) :
          Install(CommandMove(cur, ans, n))
    BY <1>15 DEF DoMove
  <2>2. cur.ms.fResigned = 0
    BY <1>3, <2>1 DEF CommandMove
  <2>3. QED
    BY <1>1, <1>2, <1>4, <2>1, <2>2, CubeOutcomes
<1>16. QED
  BY <1>7, <1>8, <1>9, <1>10, <1>11, <1>12, <1>13, <1>14, <1>15 DEF WebQuiet

-----------------------------------------------------------------------------
(* Every step of the page keeps it in step with the match. *)

(* The program state at the page. *)
LEMMA AtPage ==
    ASSUME PageInv
    PROVE  /\ Good(cur) /\ cur.prompt # "no" /\ cur.ms = ms
           /\ cur.lMatch = lMatch /\ cur.plGame = plGame
           /\ cur.fNextTurn = fNextTurn
           /\ ms \in MatchStates /\ ms.dice \in BOOLEAN
           /\ ms.fDoubled \in BOOLEAN /\ fNextTurn \in BOOLEAN
           /\ aborted = "no"
           /\ ms.gs = "playing" => ms.fTurn \in Player
           /\ IsPage(page) /\ Calm(ms) /\ Tracks(page, ms, fNextTurn)
<1>1. MatchInv
  BY DEF PageInv
<1>2. /\ Good(cur) /\ cur.prompt # "no" /\ cur.ms = ms
      /\ cur.lMatch = lMatch /\ cur.plGame = plGame
      /\ cur.fNextTurn = fNextTurn
  BY <1>1 DEF MatchInv, cur
<1>3. ms \in MatchStates /\ fNextTurn \in BOOLEAN /\ aborted = "no"
  BY <1>1, Unfolded
<1>4. ms.gs = "playing" => ms.fTurn \in Player
  BY <1>2, InProgress DEF Playing
<1>5. QED
  BY <1>2, <1>3, <1>4, Fields DEF PageInv, PageShows

(* The state a command leaves, and the page. *)
LEMMA PageAfter ==
    ASSUME NEW t, Install(t), IsPage(page'), Calm(t.ms),
           Tracks(page', t.ms, t.fNextTurn)
    PROVE  PageShows'
BY DEF Install, PageShows

(* The user resigns: the computer answers. *)
LEMMA ResignTracks ==
    ASSUME PageUser, PageInv, WebResign
    PROVE  PageShows'
<1>1. PICK v \in ResignArgs : Install(CommandResign(cur, FALSE, v))
  BY DEF WebResign, DoResign
<1> DEFINE t == CommandResign(cur, FALSE, v)
<1>2. cur.ms.fResigned = 0
  BY AtPage DEF WebResign, DoResign, Resolved, PageUser, CarefulUser
<1>3. t # cur
  BY <1>1 DEF Install
<1>4. /\ Playing(cur) /\ MayAct(cur, FALSE) /\ v # 0
      /\ t.fNextTurn /\ Turns(cur.ms, t.ms) /\ t.ms.fResigned = v
  BY <1>2, <1>3, AtPage, ResignOutcome
<1>5. Install(t)
  BY <1>1
<1> HIDE DEF t
<1>6. cur.ms.fTurn \in Player /\ Human(cur.ms) /\ Calm(cur.ms)
  BY <1>4, AtPage DEF Playing, MayAct, Human
<1>7. ~Human(t.ms)
  BY <1>4, <1>6, Opponent DEF Turns
<1>8. page' = Updated(page, OfferLines(ms, ms'))
  BY DEF WebResign, gnubgCommand, writeLog
<1>9. IsPage(page')
  BY <1>8, AtPage, Offering, UpdatedPage
<1>10. Calm(t.ms) /\ Tracks(page', t.ms, t.fNextTurn)
  BY <1>4, <1>6, <1>7 DEF Turns, Calm, Tracks
<1>11. QED
  BY <1>5, <1>9, <1>10, PageAfter

(* The user's roll is shown: he has a move to choose, or none to make. *)
LEMMA RollTracks ==
    ASSUME Display, NEW p, IsPage(p), ~p.pending, NEW s, Good(s), Playing(s),
           Calm(s.ms), NEW ans \in BOOLEAN, NEW o \in RollOutcomes(s.ms),
           NEW t, t = CommandRoll(s, ans, o), t # s, t.fNextTurn \in BOOLEAN,
           t.ms \in MatchStates
    PROVE  LET q == Updated(p, RollLines(s.ms))
           IN  IsPage(q) /\ Calm(t.ms) /\ Tracks(q, t.ms, t.fNextTurn)
<1> DEFINE m == [s.ms EXCEPT !.dice = TRUE]
           q == Updated(p, ShowBoard(Display, m))
<1>1. s.ms \in MatchStates /\ s.ms.gs = "playing"
  BY DEF Good, Sound, Playing
<1>2. m.gs = "playing"
  BY <1>1 DEF MatchStates
<1>3. RollLines(s.ms) = ShowBoard(Display, m)
  BY DEF RollLines
<1>4. /\ Human(s.ms) /\ s.ms.fResigned = 0
      /\ \/ t.fNextTurn /\ Plain(t.ms)
         \/ /\ t.fNextTurn = s.fNextTurn
            /\ t.ms.fTurn = s.ms.fTurn /\ t.ms.dice
            /\ t.ms.fResigned = 0 /\ ~t.ms.fDoubled
            /\ Shown(t.ms) = Shown(m)
  BY RollOutcome
<1> HIDE DEF m
<1>5. IsPage(q) /\ ~q.pending /\ Draws(q, m)
  BY <1>2, ShowsBoard
<1> HIDE DEF q
<1>6. ASSUME t.fNextTurn, Plain(t.ms)
      PROVE  Calm(t.ms) /\ Tracks(q, t.ms, t.fNextTurn)
  BY <1>5, <1>6 DEF Plain, Calm, Tracks
<1>7. ASSUME ~(t.fNextTurn /\ Plain(t.ms))
      PROVE  Calm(t.ms) /\ Tracks(q, t.ms, t.fNextTurn)
  <2>1. Calm(t.ms) /\ Human(t.ms)
    BY <1>4, <1>7 DEF Calm, Human
  <2>2. Draws(q, t.ms)
    BY <1>4, <1>5, <1>7 DEF Draws
  <2>3. t.ms.gs = "playing" => Serves(q, t.ms)
    BY <1>4, <1>7, <2>1, <2>2, DrawnServes, Fields
  <2>4. QED
    BY <1>4, <1>5, <1>7, <2>1, <2>3 DEF Tracks
<1>8. IsPage(q) /\ Calm(t.ms) /\ Tracks(q, t.ms, t.fNextTurn)
  BY <1>5, <1>6, <1>7
<1>9. QED
  BY <1>3, <1>8 DEF q

(* `roll' *)
LEMMA RollCommandTracks ==
    ASSUME PageUser, Display, PageInv, MatchInv', WebRoll
    PROVE  PageShows'
<1>1. PICK ans \in BOOLEAN, o \in RollOutcomes(ms) :
        Install(CommandRoll(cur, ans, o))
  BY DEF WebRoll, DoRoll
<1> DEFINE t == CommandRoll(cur, ans, o)
<1>2. t # cur /\ ms' = t.ms /\ fNextTurn' = t.fNextTurn
  BY <1>1 DEF Install
<1>3. t.ms \in MatchStates /\ t.fNextTurn \in BOOLEAN
  BY <1>2 DEF MatchInv, Good, Sound, States, cur
<1>4. Playing(cur) /\ Human(cur.ms) /\ cur.ms.fResigned = 0
  <2>1. Good(cur) /\ o \in RollOutcomes(cur.ms)
    BY AtPage
  <2>2. \/ CommandRoll(cur, ans, o) = cur
        \/ Playing(cur) /\ Human(cur.ms) /\ cur.ms.fResigned = 0
    BY <2>1, RollOutcome
  <2>3. QED
    BY ONLY <1>2, <2>2 DEF t
<1>5. ~page.pending
  BY <1>4, AtPage DEF Tracks, Playing
<1>6. page' = Updated(page, RollLines(cur.ms))
  BY AtPage DEF WebRoll, gnubgCommand, writeLog
<1>7. IsPage(page') /\ Calm(t.ms) /\ Tracks(page', t.ms, t.fNextTurn)
  BY <1>2, <1>3, <1>4, <1>5, <1>6, AtPage, RollTracks
<1>8. QED
  BY <1>1, <1>7, PageAfter

(* `play': the computer's turn, once the page shows the board it is for. *)
LEMMA PlayTracks ==
    ASSUME PageUser, Display, PageInv, MatchInv', WebPlay
    PROVE  PageShows'
<1>1. PICK ans \in BOOLEAN : \E t \in CommandPlay(cur, ans) : Install(t)
  BY DEF WebPlay, DoPlay
<1>2. PICK t \in CommandPlay(cur, ans) : Install(t)
  BY <1>1
<1>3. t # cur /\ ms' = t.ms /\ fNextTurn' = t.fNextTurn
  BY <1>2 DEF Install
<1>4. t.ms \in MatchStates /\ t.ms.dice \in BOOLEAN
  BY <1>3, Fields DEF MatchInv, Good, Sound, States, cur
<1>5. /\ Playing(cur) /\ ~Human(cur.ms) /\ t.fNextTurn
      /\ \/ Plain(t.ms)
         \/ /\ cur.ms.fResigned = 0 /\ t.ms.fResigned # 0
            /\ Turns(cur.ms, t.ms)
  BY <1>3, AtPage, PlayOutcome
<1>6. ms.fTurn \in Player /\ ms.gs = "playing"
  BY <1>5, AtPage DEF Playing
<1>7. Plays(ms, t.ms)
  <2>1. CASE Plain(t.ms)
    BY <2>1 DEF Plays
  <2>2. CASE ms.fResigned = 0 /\ t.ms.fResigned # 0 /\ Turns(ms, t.ms)
    <3>1. t.ms.gs = "playing" /\ t.ms.fTurn = Other(ms.fTurn)
      BY <1>6, <2>2 DEF Turns
    <3>2. Other(t.ms.fTurn) = ms.fTurn
      BY <1>6, <3>1 DEF Other, Player
    <3>3. ~t.ms.dice
      BY <1>3, <1>5, <2>2, <3>1, <3>2, AtPage
         DEF WebPlay, OffersBeforeRolling, Human
    <3>4. QED
      BY <2>2, <3>3 DEF Plays
  <2>3. QED
    BY <1>5, <2>1, <2>2, AtPage
<1>8. /\ ~page.pending /\ page.board = Shown(ms)
      /\ page' = Updated(page, ComputerLines(ms, t.ms))
  BY <1>3 DEF WebPlay, gnubgCommand, writeLog, PageUser
<1>9. IsPage(page') /\ Calm(t.ms) /\ Tracks(page', t.ms, TRUE)
  BY <1>7, <1>8, AtPage, ComputerShows
<1>10. Tracks(page', t.ms, t.fNextTurn)
  BY <1>5, <1>9 DEF Tracks
<1>11. QED
  BY <1>2, <1>9, <1>10, PageAfter

(* `show board' *)
LEMMA ShowBoardTracks ==
    ASSUME PageUser, PageInv, WebShowBoard
    PROVE  PageShows'
<1> DEFINE q == Updated(page, ShowBoard(TRUE, ms))
<1>1. page' = q /\ ms' = ms /\ fNextTurn' = fNextTurn /\ ms.fResigned = 0
  BY DEF WebShowBoard, gnubgCommand, writeLog, PageUser, vars
<1>2. IsPage(q)
  BY AtPage, Showing, UpdatedPage
<1>3. ASSUME ms.gs = "playing", page.pending
      PROVE  ~q.pending /\ q.board = page.board
  <2>1. ShowBoard(TRUE, ms) = <<Shown(ms)>>
    BY <1>3 DEF ShowBoard
  <2>2. LET r == Updated(page, <<Shown(ms)>>)
        IN  ~r.pending /\ r.board = page.board
    BY <1>3, AtPage, BoardUpdates
  <2>3. QED
    BY <2>1, <2>2
<1>4. ASSUME ms.gs = "playing", ~page.pending
      PROVE  ~q.pending /\ Serves(q, ms)
  <2>1. ~q.pending /\ Draws(q, ms)
    BY <1>4, AtPage, ShowsBoard
  <2> HIDE DEF q
  <2>2. QED
    BY <1>1, <1>4, <2>1, AtPage, DrawnServes
<1> HIDE DEF q
<1>5. Tracks(q, ms, fNextTurn)
  BY <1>1, <1>3, <1>4, AtPage DEF Tracks
<1>6. QED
  BY <1>1, <1>2, <1>5, AtPage DEF PageShows

(* The game StartNewGame leaves. *)
LEMMA StartedGame ==
    ASSUME Display, NEW s, Ready(s), s.prompt # "no", NEW ans \in BOOLEAN,
           NEW t \in StartNewGame(s, ans)
    PROVE  Started(t) /\ t.prompt # "no"
<1>1. PICK n \in NewGames(s) :
        t \in IF n.aborted # "no" \/ PlayerType[n.ms.fTurn] = "human"
              THEN {n} ELSE {TurnDone(u) : u \in ComputerTurn(n, ans)}
  BY DEF StartNewGame
<1>2. n.aborted = "no"
  BY GoodNewGame DEF Begins, Good
<1>3. CASE Human(n.ms)
  BY <1>1, <1>3, GameStarts DEF Human
<1>4. CASE ~Human(n.ms)
  <2>1. PICK u \in ComputerTurn(n, ans) : t = TurnDone(u)
    BY <1>1, <1>2, <1>4 DEF Human
  <2>2. QED
    BY <1>4, <2>1, GameStarts
<1>5. QED
  BY <1>3, <1>4

(* What `new game', `new match' and `new session' leave. *)
LEMMA NewOutcome ==
    ASSUME Display, NEW s, Good(s), s.prompt # "no", NEW ans \in BOOLEAN,
           NEW n \in Nat, NEW t, t # s,
           t \in CommandNewGame(s, ans) \/ t \in CommandNewMatch(s, n, ans)
    PROVE  \/ t = Answer(s, ans) /\ t.prompt = "no"
           \/ Started(t) /\ t.prompt # "no"
<1>1. ASSUME NEW p, Ready(p), p.prompt # "no", t \in StartNewGame(p, ans)
      PROVE  Started(t) /\ t.prompt # "no"
  BY <1>1, StartedGame
<1>2. CASE t \in CommandNewGame(s, ans)
  BY <1>1, <1>2, NewGameStarts
<1>3. CASE t \in CommandNewMatch(s, n, ans)
  <2>1. \/ t = Answer(s, ans) /\ t.prompt = "no"
        \/ \E p : MatchReady(p, n) /\ t \in StartNewGame(p, ans)
    BY <1>3, NewMatchStarts
  <2>2. ASSUME NEW p, MatchReady(p, n), t \in StartNewGame(p, ans)
        PROVE  Started(t) /\ t.prompt # "no"
    BY <1>1, <2>2 DEF MatchReady
  <2>3. QED
    BY <2>1, <2>2
<1>4. QED
  BY <1>2, <1>3

(* A game starts, or the user thinks better of it. *)
LEMMA NewTracks ==
    ASSUME Display, PageInv, MatchInv', WebNew
    PROVE  PageShows'
<1>1. \E ans \in BOOLEAN, n \in Nat : \E t :
        /\ t \in CommandNewGame(cur, ans) \/ t \in CommandNewMatch(cur, n, ans)
        /\ Install(t)
  BY SettingsAssumption DEF WebNew, DoNewGame, DoNewMatch
<1>2. PICK ans \in BOOLEAN, n \in Nat : \E t :
        /\ t \in CommandNewGame(cur, ans) \/ t \in CommandNewMatch(cur, n, ans)
        /\ Install(t)
  BY <1>1
<1>3. PICK t : /\ t \in CommandNewGame(cur, ans)
                     \/ t \in CommandNewMatch(cur, n, ans)
               /\ Install(t)
  BY <1>2
<1>4. /\ t # cur /\ ms' = t.ms /\ fNextTurn' = t.fNextTurn
      /\ lMatch' = t.lMatch /\ prompt' = t.prompt
  BY <1>3 DEF Install
<1>5. aborted' = "no" /\ t.fNextTurn \in BOOLEAN
  BY <1>4 DEF MatchInv, Good, States, cur
<1> DEFINE x == IF t.prompt = "no" THEN <<>> ELSE StartLines(t.lMatch, t.ms)
<1>6. page' = Updated(page, x)
  BY <1>4, <1>5 DEF WebNew, gnubgCommand, writeLog
<1>7. CASE t = Answer(cur, ans) /\ t.prompt = "no"
  <2>1. page' = page
    BY <1>6, <1>7, UpdatedOne
  <2>2. t.ms = ms /\ t.fNextTurn = fNextTurn
    BY <1>7, AtPage, GoodAnswer
  <2>3. QED
    BY <1>3, <2>1, <2>2, AtPage, PageAfter
<1>8. CASE Started(t) /\ t.prompt # "no"
  <2>1. Unrolled(t.ms)
    BY <1>4 DEF WebNew, OffersBeforeRolling, Unrolled
  <2>2. x \in {StartLines(t.lMatch, t.ms),
               NextTurnLines(ms, t.ms, TRUE, t.lMatch)}
    BY <1>8
  <2> HIDE DEF x
  <2>3. IsPage(page') /\ Calm(t.ms) /\ Tracks(page', t.ms, t.fNextTurn)
    BY <1>5, <1>6, <1>8, <2>1, <2>2, AtPage, StartLinesShow
  <2>4. QED
    BY <1>3, <2>3, PageAfter
<1>9. QED
  BY <1>3, <1>4, <1>7, <1>8, AtPage, NewOutcome

-----------------------------------------------------------------------------
(* NextTurn at the page. *)

(* A turn of a game in progress: the board is shown first. *)
LEMMA TurnTracks ==
    ASSUME PageUser, Display, NEW p, IsPage(p), NEW s, Good(s), Playing(s),
           Calm(s.ms), Tracks(p, s.ms, TRUE), ~s.fNextTurn, s.prompt # "no",
           NEW ans \in BOOLEAN, NEW t \in PlayNext(s, ans), Unrolled(t.ms),
           t.fNextTurn \in BOOLEAN, t.ms \in MatchStates,
           NEW l
    PROVE  LET q == Updated(p, NextTurnLines(s.ms, t.ms, FALSE, l))
           IN  IsPage(q) /\ Calm(t.ms) /\ Tracks(q, t.ms, t.fNextTurn)
<1> DEFINE m == s.ms
           human == PlayerType[m.fTurn] = "human"
           a == ShowBoard(Display \/ human, m)
           b == IF ~human THEN ComputerLines(m, t.ms)
                ELSE IF MustRoll(m) THEN RollLines(m) ELSE <<>>
           q == Updated(p, a)
           r == Updated(q, b)
           x == NextTurnLines(m, t.ms, FALSE, l)
<1>1. /\ m \in MatchStates /\ m.gs = "playing" /\ ~GameEnded(m)
      /\ m.fTurn \in Player /\ m.dice \in BOOLEAN /\ m.fDoubled \in BOOLEAN
      /\ s.aborted = "no"
  BY InProgress, Fields DEF Playing, GameEnded, InGame, Good, Sound
<1>2. Printed(a) /\ Printed(b)
  BY Showing, PrintedLines
<1>3. x = <<>> \o a \o b
  BY <1>1 DEF NextTurnLines
<1>4. Updated(p, x) = r
  <2> HIDE DEF a, b, x
  <2>1. <<>> \o a = a
    BY <1>2 DEF Printed
  <2>2. QED
    BY <1>2, <1>3, <2>1, UpdatedOn
<1>5. a = <<Shown(m)>>
  BY <1>1 DEF ShowBoard
<1> HIDE DEF x
<1>6. /\ IsPage(q) /\ ~q.pending
      /\ ~p.pending => Draws(q, m)
      /\ p.pending => q.board = p.board /\ q.enabled = p.enabled
  <2>1. LET z == Updated(p, <<Shown(m)>>)
        IN  /\ IsPage(z) /\ ~z.pending
            /\ ~p.pending => Draws(z, m)
            /\ p.pending => z.board = p.board /\ z.enabled = p.enabled
    BY BoardUpdates
  <2>2. QED
    BY <1>5, <2>1
<1> HIDE DEF a, q
<1>7. CASE human /\ ~MustRoll(m)
  <2>1. t = s /\ b = <<>>
    BY <1>1, <1>7 DEF PlayNext
  <2>2. r = q
    BY <2>1, UpdatedOne
  <2>3. CASE m.fResigned # 0
    <3>1. Serves(p, m) /\ p.pending
      BY <1>1, <1>7, <2>3 DEF Tracks, Human
    <3>2. Serves(q, m)
      BY <1>6, <3>1 DEF Serves
    <3>3. QED
      BY <1>4, <1>6, <1>7, <2>1, <2>2, <2>3, <3>2 DEF Tracks, Human, x
  <2>4. CASE m.fResigned = 0
    <3>1. ~p.pending
      BY <1>1, <1>7, <2>4 DEF Tracks, Human
    <3>2. Serves(q, m)
      BY <1>1, <1>6, <2>4, <3>1, DrawnServes
    <3>3. QED
      BY <1>4, <1>6, <1>7, <2>1, <2>2, <2>4, <3>2 DEF Tracks, Human, x
  <2>5. QED
    BY <2>3, <2>4
<1>8. CASE human /\ MustRoll(m)
  <2>1. PICK o \in RollOutcomes(m) : t = CommandRoll(s, ans, o)
    BY <1>1, <1>8 DEF PlayNext
  <2>2. b = RollLines(m)
    BY <1>8
  <2>3. t # s
    <3>1. MayRoll(s)
      BY <1>8 DEF MustRoll, MayAct, MayRoll
    <3>2. t.fNextTurn \/ t.ms.dice
      BY <2>1, <3>1, RollOutcome
    <3>3. QED
      BY <3>1, <3>2 DEF MayRoll
  <2>4. IsPage(r) /\ Calm(t.ms) /\ Tracks(r, t.ms, t.fNextTurn)
    BY <1>6, <2>1, <2>2, <2>3, RollTracks
  <2>5. QED
    BY <1>4, <2>4 DEF x
<1>9. CASE ~human
  <2>1. PICK u \in ComputerTurn(s, ans) : t = TurnDone(u)
    BY <1>1, <1>9 DEF PlayNext
  <2>2. b = ComputerLines(m, t.ms)
    BY <1>9
  <2>3. /\ t.fNextTurn
        /\ \/ Plain(t.ms)
           \/ m.fResigned = 0 /\ t.ms.fResigned # 0 /\ Turns(m, t.ms)
    BY <2>1, ComputerDone
  <2>4. Plays(m, t.ms)
    <3>1. CASE Plain(t.ms)
      BY <3>1 DEF Plays
    <3>2. CASE m.fResigned = 0 /\ t.ms.fResigned # 0 /\ Turns(m, t.ms)
      <4>1. t.ms.gs = "playing" /\ t.ms.fTurn = Other(m.fTurn)
        BY <1>1, <3>2 DEF Turns
      <4>2. Other(t.ms.fTurn) = m.fTurn
        BY <1>1, <4>1 DEF Other, Player
      <4>3. ~t.ms.dice
        BY <1>9, <3>2, <4>1, <4>2 DEF Unrolled
      <4>4. QED
        BY <3>2, <4>3 DEF Plays
    <3>3. QED
      BY <2>3, <3>1, <3>2
  <2>5. m.fResigned = 0 => q.board = Shown(m)
    BY <1>1, <1>6 DEF Tracks, Draws
  <2>6. IsPage(r) /\ Calm(t.ms) /\ Tracks(r, t.ms, TRUE)
    BY <1>6, <2>2, <2>4, <2>5, ComputerShows
  <2>7. QED
    BY <1>4, <2>3, <2>6 DEF Tracks, x
<1>10. QED
  BY <1>7, <1>8, <1>9

(* The first turn of a game that NextTurn starts. *)
LEMMA FirstTracks ==
    ASSUME Display, NEW p, Ready(p), p.prompt # "no", NEW n \in NewGames(p),
           NEW ans \in BOOLEAN, NEW t \in PlayNext(n, ans)
    PROVE  Started(t)
<1>1. Good(n) /\ Playing(n) /\ n.ms.dice /\ n.aborted = "no"
  BY GoodNewGame DEF Begins, Good
<1>2. CASE Human(n.ms)
  <2>1. t = n
    BY <1>1, <1>2 DEF PlayNext, MustRoll, Human
  <2>2. QED
    BY <1>2, <2>1, GameStarts
<1>3. CASE ~Human(n.ms)
  <2>1. PICK u \in ComputerTurn(n, ans) : t = TurnDone(u)
    BY <1>1, <1>3 DEF PlayNext, Human
  <2>2. QED
    BY <1>3, <2>1, GameStarts
<1>4. QED
  BY <1>2, <1>3

(* A timer runs NextTurn. *)
LEMMA NextTurnTracks ==
    ASSUME PageUser, Display, PageInv, MatchInv', DoNextTurn,
           OffersBeforeRolling, NEW k,
           writeLog(IF aborted' # "no" \/ plGame = 0 THEN <<>>
                    ELSE NextTurnLines(ms, ms', Len(lMatch') > Len(lMatch),
                                       lMatch'), k)
    PROVE  PageShows'
<1>1. PICK ans \in BOOLEAN : \E t \in NextTurn(cur, ans) : Install(t)
  BY DEF DoNextTurn
<1>2. PICK t \in NextTurn(cur, ans) : Install(t)
  BY <1>1
<1>3. /\ ms' = t.ms /\ fNextTurn' = t.fNextTurn /\ lMatch' = t.lMatch
  BY <1>2 DEF Install
<1>4. /\ aborted' = "no" /\ t.fNextTurn \in BOOLEAN /\ t.ms \in MatchStates
  BY <1>3 DEF MatchInv, Good, Sound, States, cur
<1>5. Unrolled(t.ms)
  BY <1>3 DEF OffersBeforeRolling, Unrolled
<1>6. fNextTurn
  BY DEF DoNextTurn
<1> DEFINE s == [cur EXCEPT !.fNextTurn = FALSE]
           started == Len(t.lMatch) > Len(lMatch)
           y == NextTurnLines(ms, t.ms, started, t.lMatch)
           x == IF plGame = 0 THEN <<>> ELSE y
<1>7. page' = Updated(page, x)
  BY <1>3, <1>4 DEF writeLog
<1>8. \/ cur.plGame = 0 /\ t = s
      \/ cur.plGame # 0 /\ Playing(cur) /\ t \in PlayNext(s, ans)
      \/ /\ cur.plGame # 0 /\ Ended(cur.ms)
         /\ \/ Rests(cur, t) /\ t.ms.gs = cur.ms.gs
            \/ \E p : /\ NextReady(cur, p)
                      /\ \E n \in NewGames(p) : t \in PlayNext(n, ans)
  BY AtPage, NextTurnCases
<1>9. ms.gs # "none" => Printed(y)
  <2>1. started \in BOOLEAN
    OBVIOUS
  <2> HIDE DEF started
  <2>2. QED
    BY <2>1, NextTurnPrints
<1>10. /\ s \in States /\ s.ms = ms /\ s.lMatch = lMatch /\ s.plGame = plGame
       /\ s.plLastMove = cur.plLastMove /\ s.aborted = "no"
       /\ s.fNextTurn = FALSE /\ s.prompt = cur.prompt
  BY AtPage DEF Good, States
<1> HIDE DEF s
<1>11. Good(s)
  BY <1>10, AtPage, NewFlags DEF Leads
<1>12. Len(lMatch) \in Nat
  BY Unfolded DEF PageInv
<1>13. ASSUME IsPage(page'), t.ms.gs # "playing"
       PROVE  PageShows'
  BY <1>2, <1>13, PageAfter DEF Calm, Tracks
<1>14. CASE cur.plGame = 0 /\ t = s
  <2>1. page' = page
    BY <1>7, <1>14, AtPage, UpdatedOne
  <2>2. cur.ms.gs # "playing"
    BY <1>14, AtPage DEF Good, Placed
  <2>3. QED
    BY <1>10, <1>13, <1>14, <2>1, <2>2, AtPage
<1>15. CASE cur.plGame # 0 /\ Playing(cur) /\ t \in PlayNext(s, ans)
  <2>1. Playing(s) /\ s.prompt # "no" /\ Calm(s.ms) /\ Tracks(page, s.ms, TRUE)
    BY <1>6, <1>10, <1>15, AtPage DEF Playing, Tracks
  <2>2. Len(t.lMatch) = Len(lMatch)
    BY <1>10, <1>11, <1>15, <2>1, GoodPlayNext DEF Leads, Keeps
  <2>3. x = NextTurnLines(ms, t.ms, FALSE, t.lMatch)
    <3>1. started = FALSE
      BY <1>12, <2>2
    <3>2. QED
      BY <1>15, <3>1, AtPage
  <2> HIDE DEF x
  <2>4. IsPage(page') /\ Calm(t.ms) /\ Tracks(page', t.ms, t.fNextTurn)
    BY <1>4, <1>5, <1>7, <1>10, <1>11, <1>15, <2>1, <2>3, AtPage, TurnTracks
  <2>5. QED
    BY <1>2, <2>4, PageAfter
<1>16. CASE cur.plGame # 0 /\ Ended(cur.ms) /\ Rests(cur, t) /\ t.ms.gs = cur.ms.gs
  <2>1. x = y /\ ms.gs # "none" /\ t.ms.gs # "playing"
    BY <1>16, AtPage DEF Ended
  <2> HIDE DEF x, y
  <2>2. IsPage(page')
    BY <1>7, <1>9, <2>1, AtPage, UpdatedPage
  <2>3. QED
    BY <1>13, <2>1, <2>2
<1>17. ASSUME cur.plGame # 0, NEW p, NextReady(cur, p), NEW n \in NewGames(p),
              t \in PlayNext(n, ans)
       PROVE  PageShows'
  <2>1. Ready(p) /\ p.prompt # "no" /\ p.lMatch = lMatch
    BY <1>17, AtPage DEF NextReady
  <2>2. Started(t)
    BY <1>17, <2>1, FirstTracks
  <2>3. Len(t.lMatch) = Len(lMatch) + 1
    BY <1>17, <2>1, GoodPlayFirst DEF Begins, Opens
  <2>4. x = NextTurnLines(ms, t.ms, TRUE, t.lMatch)
    <3>1. started = TRUE
      BY <1>12, <2>3
    <3>2. QED
      BY <1>17, <3>1, AtPage
  <2> HIDE DEF x
  <2>5. IsPage(page') /\ Calm(t.ms) /\ Tracks(page', t.ms, t.fNextTurn)
    BY <1>4, <1>5, <1>7, <2>2, <2>4, AtPage, StartLinesShow
  <2>6. QED
    BY <1>2, <2>5, PageAfter
<1>18. QED
  BY <1>8, <1>14, <1>15, <1>16, <1>17

(* Every step of the page. *)
LEMMA PageStep ==
    ASSUME PageUser, Display, PageInv, [WNext]_wvars
    PROVE  PageInv'
<1>1. MatchInv'
  BY PageSteps, StepInv DEF PageInv, PageUser
<1>2. CASE UNCHANGED wvars
  BY <1>1, <1>2 DEF PageInv, PageShows, wvars, vars
<1>3. CASE WebQuiet
  <2>1. page' = page
    BY <1>3, UpdatedOne DEF WebQuiet, gnubgCommand, writeLog
  <2>2. Calm(ms') /\ Tracks(page, ms', fNextTurn')
    BY <1>3, QuietTracks
  <2>3. QED
    BY <1>1, <2>1, <2>2, AtPage DEF PageInv, PageShows
<1>4. CASE WebResign
  BY <1>1, <1>4, ResignTracks DEF PageInv
<1>5. CASE WebRoll
  BY <1>1, <1>5, RollCommandTracks DEF PageInv
<1>6. CASE WebPlay
  BY <1>1, <1>6, PlayTracks DEF PageInv
<1>7. CASE WebNew
  BY <1>1, <1>7, NewTracks DEF PageInv
<1>8. CASE WebShowBoard
  BY <1>1, <1>8, ShowBoardTracks DEF PageInv
<1>9. CASE doNextTurn
  <2>1. CASE UNCHANGED <<vars, page>>
    BY <1>1, <2>1 DEF PageInv, PageShows, vars
  <2>2. CASE ~UNCHANGED <<vars, page>>
    <3>1. PICK k \in Fired :
            writeLog(IF aborted' # "no" \/ plGame = 0 THEN <<>>
                     ELSE NextTurnLines(ms, ms', Len(lMatch') > Len(lMatch),
                                        lMatch'), k)
      BY <1>9, <2>2 DEF doNextTurn
    <3>2. DoNextTurn /\ OffersBeforeRolling
      BY <1>9, <2>2 DEF doNextTurn
    <3>3. PageShows'
      BY <1>1, <3>1, <3>2, NextTurnTracks
    <3>4. QED
      BY <1>1, <3>3 DEF PageInv
  <2>3. QED
    BY <2>1, <2>2
<1>10. QED
  BY <1>2, <1>3, <1>4, <1>5, <1>6, <1>7, <1>8, <1>9 DEF WNext

(* Whenever no timer is left and no NextTurn is to run, the decision is the
   user's, and the page shows the board it is about with the buttons it
   takes: although the line after a resignation offer is ignored, whatever
   board it holds, and the user may answer before that line comes.  In
   matches of any length, with any settings and number of pending timers, for
   a user who plays against the computer, answers a resignation before he
   does anything else with the cube, and lets the page show a board before he
   types `play'. *)
THEOREM PageServesUser ==
    ASSUME PageUser, Display
    PROVE  WSpec => []PageServes
<1>1. WInit => PageInv
  <2>1. SUFFICES ASSUME WInit PROVE PageInv
    OBVIOUS
  <2>2. MatchInv /\ ms.gs = "none"
    BY <2>1, InitInv DEF WInit, Init, InitialMatchState
  <2>3. IsPage(page)
    BY <2>1 DEF WInit, IsPage
  <2>4. QED
    BY <2>2, <2>3 DEF PageInv, PageShows, Calm, Tracks
<1>2. PageInv /\ [WNext]_wvars => PageInv'
  BY PageStep
<1>3. PageInv => PageServes
  <2>1. SUFFICES ASSUME PageInv, Waiting
                 PROVE  ~GnuToPlay /\ Serves(page, ms)
    BY DEF PageServes
  <2>2. Human(ms) /\ Serves(page, ms)
    BY <2>1, AtPage DEF Waiting, Tracks
  <2>3. QED
    BY <2>2 DEF GnuToPlay, Human
<1>4. QED
  BY <1>1, <1>2, <1>3, PTL DEF WSpec
=============================================================================
