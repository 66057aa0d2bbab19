----------------------------- MODULE MatchRules -----------------------------
(***************************************************************************)
(* What a backgammon match is to its players: a length, a score, and for   *)
(* the game in progress the cube and the offers on the table.  It says     *)
(* nothing of boards, dice, move records, prompts or who is a computer;    *)
(* play.c promises that whatever is typed, these variables change by the   *)
(* rules below.                                                            *)
(***************************************************************************)
EXTENDS Integers

CONSTANTS
    MaxCube,      \* the largest value of the cube
    MaxAuto,      \* automatic doubles before the first roll of a money game
    JacobyRule    \* gammons do not count on a centred cube in money play

VARIABLES
    length,    \* points the match is played to, 0 for money play
    score,     \* the points of each player
    playing,   \* is a game in progress?
    cube,      \* the value of the cube
    owner,     \* who may turn the cube: a player, or Nobody in particular
    doubler,   \* who offered the cube that is on offer, else Nobody
    answerer,  \* who is to answer that cube, else Nobody
    resigner,  \* who has offered to resign, else Nobody
    stake,     \* what he offers: 1 to 3 games, or Undecided
    crawford   \* is the game played without the cube?

cubeVars == <<cube, owner, doubler, answerer>>
offer == <<resigner, stake>>
rvars == <<length, score, playing, crawford, cubeVars, offer>>

Side == {0, 1}
Nobody == -1
Undecided == -1
Stakes == {Undecided} \cup 1..3

(* The cube between games. *)
PutAway == /\ playing' = FALSE /\ cube' = 1 /\ owner' = Nobody
           /\ doubler' = Nobody /\ answerer' = Nobody /\ crawford' = FALSE
           /\ resigner' = Nobody /\ stake' = 0

RInit ==
    /\ length = 0 /\ score = [p \in Side |-> 0] /\ playing = FALSE
    /\ cube = 1 /\ owner = Nobody /\ doubler = Nobody /\ answerer = Nobody
    /\ resigner = Nobody /\ stake = 0 /\ crawford = FALSE

Over(len, sc) == len > 0 /\ \E p \in Side : sc[p] >= len

(* One player needs a single point, the other more. *)
OneAwayFirst(len, sc) == \E p \in Side : sc[p] = len - 1 /\ sc[1 - p] < len - 1

(* What a game may be worth, in cubes. *)
Worth(len, own) == IF JacobyRule /\ len = 0 /\ own = Nobody THEN {1} ELSE 1..3

(* A game starts, of a new match or of the current one, and a game that was
   in progress is abandoned.  The player who has the first play may offer to
   resign instead. *)
Start(len, sc) ==
    /\ ~Over(len, sc)
    /\ length' = len /\ score' = sc /\ playing' = TRUE
    /\ \E a \in IF len = 0 THEN 0..MaxAuto ELSE {0} : cube' = 2 ^ a
    /\ owner' = Nobody /\ doubler' = Nobody /\ answerer' = Nobody
    /\ \/ resigner' = Nobody /\ stake' = 0
       \/ resigner' \in Side /\ stake' \in Stakes
    /\ crawford' \in BOOLEAN
    /\ crawford' => len > 1 /\ OneAwayFirst(len, sc)

NewGame == Start(length, score)

NewMatch == length' \in Nat /\ Start(length', [p \in Side |-> 0])

Quiet == playing /\ resigner = Nobody

(* A player who has access to the cube offers it to the other. *)
Double ==
    /\ Quiet /\ doubler = Nobody /\ ~crawford /\ 2 * cube <= MaxCube
    /\ \E p \in Side : /\ owner \in {Nobody, p}
                       /\ doubler' = p /\ answerer' = 1 - p
    /\ UNCHANGED <<length, score, playing, crawford, cube, owner, offer>>

(* A beaver, and a raccoon in answer to it: the offer is accepted and the
   cube turned once more at once; it stays with the doubler's opponent. *)
Beaver ==
    /\ Quiet /\ doubler # Nobody /\ length = 0 /\ 4 * cube <= MaxCube
    /\ cube' = 2 * cube /\ owner' = 1 - doubler /\ answerer' = 1 - answerer
    /\ UNCHANGED <<length, score, playing, crawford, doubler, offer>>

Take ==
    /\ Quiet /\ doubler # Nobody /\ 2 * cube <= MaxCube
    /\ cube' = 2 * cube /\ owner' = 1 - doubler
    /\ doubler' = Nobody /\ answerer' = Nobody
    /\ UNCHANGED <<length, score, playing, crawford, offer>>

Gain(p, points) == /\ score' = [score EXCEPT ![p] = @ + points]
                   /\ PutAway
                   /\ UNCHANGED length

(* Who drops the cube loses it at its present value. *)
Drop == Quiet /\ doubler # Nobody /\ Gain(1 - answerer, cube)

(* The game is played out: a single game, a gammon or a backgammon. *)
Win == /\ Quiet /\ doubler = Nobody
       /\ \E p \in Side, n \in Worth(length, owner) : Gain(p, n * cube)

(* The player who has a decision to make, his roll or his answer to a cube,
   may offer to resign instead. *)
OfferToResign ==
    /\ Quiet
    /\ \/ doubler = Nobody /\ resigner' \in Side
       \/ doubler # Nobody /\ resigner' = answerer
    /\ stake' \in Stakes
    /\ UNCHANGED <<length, score, playing, crawford, cubeVars>>

(* The cube that was on offer before is still on offer. *)
Decline == /\ playing /\ resigner # Nobody
           /\ resigner' = Nobody /\ stake' = 0
           /\ UNCHANGED <<length, score, playing, crawford, cubeVars>>

(* The opponent gets as much as was offered, which the Jacoby rule does not
   limit; if nothing was named, the one who accepts names it. *)
Accept == /\ playing /\ resigner # Nobody
          /\ \E n \in IF stake = Undecided THEN 1..3 ELSE {stake} :
                Gain(1 - resigner, n * cube)

RNext == \/ NewGame \/ NewMatch
         \/ Double \/ Beaver \/ Take \/ Drop \/ Win
         \/ OfferToResign \/ Decline \/ Accept

RSpec == RInit /\ [][RNext]_rvars
=============================================================================
