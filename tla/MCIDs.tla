-------------------------------- MODULE MCIDs --------------------------------
(* Positions and match states chosen so that the codings are strained:     *)
(* stacks of 15, ones across the bounds of bytes, the longest match.        *)
EXTENDS IDs

\* One side's chequers: c on point i, the others on j or borne off.
Side(i, c, j, d) == [k \in Slot |-> (IF k = i THEN c ELSE 0) + (IF k = j THEN d ELSE 0)]

SomePoints == {0, 7, 18, 24}
SomeSides  == {Side(i, n[1], j, n[2]) : i, j \in SomePoints,
                                        n \in {<<15, 0>>, <<8, 7>>, <<1, 14>>, <<2, 1>>}}

\* One to three chequers anywhere at home, and all fifteen on one or two points.
HomeSides == {[k \in Slot |-> IF k < 6 THEN h[k] ELSE 0] :
                h \in {g \in [0..5 -> 0..3] : g[0] + g[1] + g[2] + g[3] + g[4] + g[5] \in 1..3}}
             \cup {Side(i, 15 - c, j, c) : i, j \in 0..5, c \in 0..15}

Pairs(A, B) == {[s \in 0..1 |-> IF s = 0 THEN a ELSE b] : a \in A, b \in B}

SomeBoards == {b \in Pairs(SomeSides, SomeSides) \cup Pairs({Side(0, 15, 1, 0)}, HomeSides) :
                 CheckPosition(b)}

Play(cube, owner, move, offer, dice, over) ==
    [nCube |-> cube, fCubeOwner |-> owner, fMove |-> move,
     fTurn |-> IF offer = 0 THEN move ELSE 1 - move,
     fDoubled |-> offer = 4, fResigned |-> offer % 4, anDice |-> dice, gs |-> over]

\* Offers: none, a resignation of 1 to 3, a double.
SomePlays == {Play(c[1], c[2], f, o, d, g) :
                c \in {<<1, -1>>, <<2, 0>>, <<2, 1>>, <<4096, 1>>}, f \in 0..1, o \in 0..4,
                d \in {<<0, 0>>, <<6, 5>>, <<1, 4>>}, g \in 1..4}

Score(length, a, b, crawford, jacoby) ==
    [nMatchTo |-> length, anScore |-> [p \in 0..1 |-> IF p = 0 THEN a ELSE b],
     fCrawford |-> crawford, fJacoby |-> jacoby]

SomeScores == {Score(0, a, b, FALSE, j) : a, b \in {0, 1, 9, 1000}, j \in BOOLEAN}
              \cup {Score(n, a, b, c, FALSE) : n \in {1, 7, 64}, a, b \in {0, 1, 6, 7, 63, 65},
                                               c \in BOOLEAN}

Opened == Play(1, -1, 0, 0, <<3, 1>>, 1)

SomeMatches == {p @@ Score(7, 2, 6, TRUE, FALSE) : p \in SomePlays}
               \cup {Opened @@ s : s \in SomeScores}
=============================================================================
