------------------------------- MODULE MCCache -------------------------------
(* Few positions and contexts, so that buckets fill and overflow. *)
EXTENDS Cache

\* Player 0 on roll with a centred cube at 1, at the beginning of a session.
Money(plies, equity, jacoby) ==
    [nPlies |-> plies, fCubeful |-> TRUE, fUsePrune |-> TRUE, fCubefulEquity |-> equity,
     fMove |-> 0, nMatchTo |-> 0, anScore |-> [p \in 0..1 |-> 0], nCube |-> 1,
     fCubeOwner |-> -1, fCrawford |-> FALSE, fJacoby |-> jacoby, fBeavers |-> FALSE]

\* The same in a match.
InMatch(plies, equity, length, a, b) ==
    [Money(plies, equity, FALSE) EXCEPT !.nMatchTo = length,
                                        !.anScore = [p \in 0..1 |-> IF p = 0 THEN a ELSE b]]

\* With the contexts of nested evaluations, down to the leaves.
Closed(S) ==
    LET More(T) == T \cup UNION {Below(c) : c \in T}
    IN  More(More(More(S)))

\* A cube decision at 1 ply, where the cube is dead once it has been turned.
Decision == {InMatch(1, TRUE, 2, 0, 0)}

\* The contexts of that decision, and 2 plies of a session without the cube.
SomeContexts ==
    Closed(Decision \cup {Doubled(c) : c \in Decision}
           \cup {[Money(2, FALSE, TRUE) EXCEPT !.fCubeful = FALSE]})

\* A session without the Jacoby rule and beavers, and a match at double match point.
MoneyAndLastGame == Closed({Money(1, FALSE, FALSE), InMatch(1, FALSE, 1, 0, 0)})

\* Cubeful money evaluations at 2 plies.
TwoPly == Closed({Money(2, TRUE, TRUE)})

NoDecisions == {}

\* Any fixed numbers do; these spread over two buckets and collide in one.
SomeHash ==
    [pos \in Positions, ctx \in [Bits -> 0..1] |->
        pos + ctx[0] + ctx[1] + ctx[4] + ctx[5] + ctx[23] + 2 * ctx[24]]
=============================================================================
