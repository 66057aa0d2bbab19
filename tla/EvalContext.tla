----------------------------- MODULE EvalContext -----------------------------
(***************************************************************************)
(* The context of an evaluation: the number of plies and the fields of     *)
(* evalcontext and cubeinfo that it looks at, how the contexts of one      *)
(* evaluation give those of the evaluations nested in it, and EvalKey of   *)
(* eval.c, which packs a context into the bits of an int.                  *)
(***************************************************************************)
EXTENDS Integers, Sequences

\* The cube at a length of nMatchTo; doubles of GeneralCubeDecisionE are not
\* limited by MAX_CUBE, and a session's equities are those of a cube at 1.
CubeOf(nMatchTo) == IF nMatchTo > 0 THEN {2^i : i \in 0..13} ELSE Nat \ {0}

\* What SetCubeInfo accepts; no match is longer than MAXSCORE.
LegalContext(c) ==
    /\ c \in [nPlies : 0..15, fCubeful : BOOLEAN, fUsePrune : BOOLEAN,
              fCubefulEquity : BOOLEAN, fMove : 0..1, nMatchTo : 0..64,
              anScore : [0..1 -> Nat], nCube : Nat, fCubeOwner : -1..1,
              fCrawford : BOOLEAN, fJacoby : BOOLEAN, fBeavers : BOOLEAN]
    /\ c.nCube \in CubeOf(c.nMatchTo)
    /\ c.nMatchTo > 0 => \A p \in 0..1 : c.anScore[p] < c.nMatchTo

-----------------------------------------------------------------------------
(* From one context to another.                                            *)

Unavailable == [nCube |-> -1]  \* a cube position that does not arise

\* SetCubeInfo for the other player on roll.
Opponents(c) == [c EXCEPT !.fMove = 1 - @]

\* The cube after a double and a take, before the turn changes.
Doubled(c) == [c EXCEPT !.nCube = 2 * @, !.fCubeOwner = 1 - c.fMove]

\* Whether the player on roll may double.
GetDPEq(c) ==
    /\ c.fCubeOwner \in {-1, c.fMove}
    /\ c.nMatchTo > 0 => /\ ~ c.fCrawford
                         /\ c.anScore[c.fMove] + c.nCube < c.nMatchTo
                         /\ c.anScore[c.fMove] # c.nMatchTo - 1

\* The cube positions of the next ply, two for each: no double, and double.
MakeCubePos(aci, fTop) ==
    [i \in 1..2 * Len(aci) |->
        LET c == aci[(i + 1) \div 2]
        IN  IF c.nCube < 0 THEN Unavailable
            ELSE IF i % 2 = 1 THEN Opponents(c)
            ELSE IF ~ fTop /\ GetDPEq(c) THEN Opponents(Doubled(c))
            ELSE Unavailable]

\* A ply less.
Shallower(c) == IF c.nCube < 0 THEN c ELSE [c EXCEPT !.nPlies = @ - 1]

\* ScoreMove at 0 plies, for the player who has not moved.
Scored(c) == [Opponents(c) EXCEPT !.nPlies = 0, !.fCubefulEquity = c.fCubeful]

\* ecBasic, for the static evaluation at a leaf.
Basic(c) == [c EXCEPT !.nPlies = 0, !.fCubeful = FALSE, !.fUsePrune = FALSE,
                      !.fCubefulEquity = FALSE]

-----------------------------------------------------------------------------
(* EvalKey.  An int that is not negative is a function from its bits.      *)

Bits == 0..30

Bit(n, i) == (n \div 2^i) % 2

\* n << k
Shl(n, k) == [i \in Bits |-> IF i < k THEN 0 ELSE Bit(n, i - k)]

Xor(a, b) == [i \in Bits |-> (a[i] + b[i]) % 2]

Flag(f) == IF f THEN 1 ELSE 0

LogCube(n) == CHOOSE i \in 0..30 : 2^i <= n /\ n < 2^(i + 1)

CubeBits(c) == Shl(IF c.fCubeOwner < 0 THEN 2 ELSE Flag(c.fCubeOwner = c.fMove), 23)

MatchBits(c) ==
    Xor(Xor(Shl(c.nMatchTo - c.anScore[c.fMove] - 1, 7),
            Shl(c.nMatchTo - c.anScore[1 - c.fMove] - 1, 13)),
        Xor(Shl(LogCube(c.nCube), 19), Xor(CubeBits(c), Shl(Flag(c.fCrawford), 25))))

MoneyBits(c) == Xor(CubeBits(c), Xor(Shl(Flag(c.fJacoby), 26), Shl(Flag(c.fBeavers), 27)))

RuleBits(c) ==
    IF c.nMatchTo > 0 THEN MatchBits(c)
    ELSE IF c.fCubeful \/ c.fCubefulEquity THEN MoneyBits(c) ELSE Shl(0, 0)

PlyBits(c) ==
    Xor(Xor(Shl(c.nPlies, 0), Xor(Shl(Flag(c.fCubeful), 4), Shl(c.fMove, 5))),
        Shl(Flag(c.nPlies > 0 /\ c.fUsePrune), 6))

EvalKey(c) ==
    IF c.nPlies = 0 /\ ~ c.fCubefulEquity THEN PlyBits(c)
    ELSE Xor(Xor(PlyBits(c), RuleBits(c)),
             Shl(IF c.fCubefulEquity THEN 1783084158 ELSE 0, 0))  \* 0x6a47b47e
=============================================================================
