--------------------------------- MODULE IDs ---------------------------------
(***************************************************************************)
(* The codings of a position and of a match (positionid.c, matchid.c): the *)
(* packed key that move lists, records and the evaluation cache compare,   *)
(* the position ID and the match ID that a user copies and loads again,    *)
(* and the index of a bearoff position in the databases.  Bytes are        *)
(* numbers; a character of an ID is its value in the base-64 alphabet,     *)
(* which Base64 and aszBase64 map to each other.                           *)
(***************************************************************************)
EXTENDS Integers, Sequences, FiniteSets, SequencesExt

CONSTANTS Boards,    \* positions that can be on the board
          Matches,   \* match states that can be current
          MAXSCORE   \* the longest match

Slot  == 0..24
Board == [0..1 -> [Slot -> 0..15]]

\* The fields of a match state, each as far as its bits go.
MatchFields ==
    [nCube : {2^i : i \in 0..12}, fCubeOwner : {-1, 0, 1}, fMove : 0..1,
     fCrawford : BOOLEAN, gs : 0..4, fTurn : 0..1, fDoubled : BOOLEAN,
     fResigned : 0..3, anDice : (0..6) \X (0..6), nMatchTo : 0..MAXSCORE,
     anScore : [0..1 -> 0..2^15-1], fJacoby : BOOLEAN]

UpTo(n) == [k \in 1..n |-> k - 1]

\* The sum of the first n values of f, which counts from 0.
Total(f, n) ==
    LET sum[k \in 0..n] == IF k = 0 THEN 0 ELSE sum[k - 1] + f[k - 1] IN sum[n]

SideCount(side) == Total(side, 25)

CheckPosition(b) ==
    /\ \A s \in 0..1 : SideCount(b[s]) <= 15
    /\ \A i \in 0..23 : b[0][i] = 0 \/ b[1][23 - i] = 0
    /\ \/ \E i \in 0..5 : b[0][i] < 2 \/ b[1][i] < 2
       \/ b[0][24] = 0 \/ b[1][24] = 0

ASSUME LengthAssumption == MAXSCORE \in 0..2^15-1

ASSUME BoardsAssumption ==
    Boards # {} /\ \A b \in Boards : b \in Board /\ CheckPosition(b)

\* There is a Crawford game only in a match.
ASSUME MatchesAssumption ==
    /\ Matches # {}
    /\ \A m \in Matches : m \in MatchFields /\ (m.fCrawford => m.nMatchTo > 0)

VARIABLES anBoard,   \* ms.anBoard
          ms         \* the fields of the match state that a match ID holds

ivars == <<anBoard, ms>>

-----------------------------------------------------------------------------
(* The packed key: four bits a point, eight points a word.  A 32-bit word  *)
(* is the pair of its halves.                                              *)

Word(side, j) ==
    LET Half(k) == side[k] + 16 * side[k+1] + 256 * side[k+2] + 4096 * side[k+3]
        low     == Half(j)
    IN  <<low % 65536, (Half(j + 4) + low \div 65536) % 65536>>

PositionKey(b) == [words |-> [s \in 0..1 |-> [w \in 0..2 |-> Word(b[s], 8 * w)]],
                   bars  |-> b[0][24] + 16 * b[1][24]]

\* Mutant of PositionFromKey: the bars are those of the other side.
PositionFromKeyBars(key) ==
    [s \in 0..1 |-> [i \in Slot |->
        IF i = 24 THEN (key.bars \div 16^(1 - s)) % 16
        ELSE (key.words[s][i \div 8][1 + (i % 8) \div 4] \div 16^(i % 4)) % 16]]

PositionFromKey(key) ==
    [s \in 0..1 |-> [i \in Slot |->
        IF i = 24 THEN (key.bars \div 16^s) % 16
        ELSE (key.words[s][i \div 8][1 + (i % 8) \div 4] \div 16^(i % 4)) % 16]]

PositionFromKeySwapped(key) ==
    [s \in 0..1 |-> [i \in Slot |->
        IF i = 24 THEN (key.bars \div 16^(1 - s)) % 16
        ELSE (key.words[1 - s][i \div 8][1 + (i % 8) \div 4] \div 16^(i % 4)) % 16]]

-----------------------------------------------------------------------------
(* A string of bits is the set of the places of its ones, place n being    *)
(* bit n % 8 of byte n \div 8.  In base 64 three bytes are four characters; *)
(* the parts of a byte that are put together have no bit in common.        *)

GetBits(bits, bitPos, nBits) ==
    Total([i \in 0..nBits-1 |-> IF bitPos + i \in bits THEN 2^i ELSE 0], nBits)

Byte(bits, k) == GetBits(bits, 8 * k, 8)

Places(bytes) == {n \in 0..8*Len(bytes)-1 : (bytes[1 + n \div 8] \div 2^(n % 8)) % 2 = 1}

\* The characters of the bytes from k on.
ToBase64(bits, k) ==
    LET Key(i) == Byte(bits, k + i)
    IN  <<Key(0) \div 4, (Key(0) % 4) * 16 + Key(1) \div 16,
          (Key(1) % 16) * 4 + Key(2) \div 64, Key(2) % 64>>

\* The bytes of the characters that follow the first i.
FromBase64(id, i) == <<((id[i+1] * 4) % 256) + id[i+2] \div 16,
                       ((id[i+2] * 16) % 256) + id[i+3] \div 4,
                       ((id[i+3] * 64) % 256) + id[i+4]>>

\* Both IDs begin with nine bytes in twelve characters.
TwelveChars(bits) == ToBase64(bits, 0) \o ToBase64(bits, 3) \o ToBase64(bits, 6)
NineBytes(id)     == FromBase64(id, 0) \o FromBase64(id, 4) \o FromBase64(id, 8)

-----------------------------------------------------------------------------
(* The position ID: for each point as many ones as chequers and a zero, in *)
(* a string of 80 bits.                                                    *)

\* Mutant of addBits: ones that reach into a third byte are lost.
addBitsTwo(bitPos, nBits) ==
    {n \in bitPos..bitPos+nBits-1 : n \div 8 <= bitPos \div 8 + 1}

\* The ones are written into the byte of the first and the two after it.
addBits(bitPos, nBits) ==
    {n \in bitPos..bitPos+nBits-1 : n \div 8 <= bitPos \div 8 + 2 /\ n < 80}

\* The chequers of point p, counting through both sides, and its first bit.
nc(b)      == [p \in 0..49 |-> b[p \div 25][p % 25]]
iBit(b, p) == p + Total(nc(b), p)

oldPositionKey(b) ==
    UNION {addBits(iBit(b, p), nc(b)[p]) : p \in {q \in 0..49 : nc(b)[q] > 0}}

\* A one counts for the point given by the zeros before it; ones beyond the
\* last point, which end the decoding, count for none.
oldPositionFromKey(bits) ==
    LET At(n) == n - Cardinality({k \in bits : k < n})
        at    == [n \in bits |-> At(n)]
    IN  [s \in 0..1 |-> [i \in Slot |-> Cardinality({n \in bits : at[n] = 25 * s + i})]]

PositionID(b) ==
    LET bits == oldPositionKey(b)
    IN  TwelveChars(bits) \o <<Byte(bits, 9) \div 4, (Byte(bits, 9) % 4) * 16>>

PositionIDFromKey(key) == PositionID(PositionFromKey(key))

\* The board, and whether it is accepted.
PositionFromID(id) ==
    LET bytes == NineBytes(id) \o <<((id[13] * 4) % 256) + id[14] \div 16>>
        b == oldPositionFromKey(Places(bytes))
    IN  [ok |-> CheckPosition(b), board |-> b]

-----------------------------------------------------------------------------
(* The match ID: the fields in 67 bits.                                    *)

LogCube(n) == CHOOSE i \in 0..30 : 2^i <= n /\ n < 2^(i + 1)

\* SetBits on a string of zeros; a negative content has its two's complement.
SetBits(bitPos, nBits, content) ==
    {k \in bitPos..bitPos+nBits-1 : (content \div 2^(k - bitPos)) % 2 = 1}

Flag(f) == IF f THEN 1 ELSE 0

\* Mutant of MatchBits: the scores have as many bits as the length needs.
MatchBitsShort(m) ==
    LET high == IF m.anDice[1] >= m.anDice[2] THEN 1 ELSE 2 IN
    SetBits(0, 4, LogCube(m.nCube)) \cup SetBits(4, 2, m.fCubeOwner % 4)
    \cup SetBits(6, 1, m.fMove) \cup SetBits(7, 1, Flag(m.fCrawford))
    \cup SetBits(8, 3, m.gs) \cup SetBits(11, 1, m.fTurn)
    \cup SetBits(12, 1, Flag(m.fDoubled)) \cup SetBits(13, 2, m.fResigned)
    \cup SetBits(15, 3, m.anDice[high]) \cup SetBits(18, 3, m.anDice[3 - high])
    \cup SetBits(21, 15, m.nMatchTo % 32768)
    \cup SetBits(36, 6, m.anScore[0] % 32768) \cup SetBits(51, 6, m.anScore[1] % 32768)
    \cup SetBits(66, 1, Flag(~ m.fJacoby))

\* The key MatchID writes.
MatchBits(m) ==
    LET high == IF m.anDice[1] >= m.anDice[2] THEN 1 ELSE 2 IN
    SetBits(0, 4, LogCube(m.nCube)) \cup SetBits(4, 2, m.fCubeOwner % 4)
    \cup SetBits(6, 1, m.fMove) \cup SetBits(7, 1, Flag(m.fCrawford))
    \cup SetBits(8, 3, m.gs) \cup SetBits(11, 1, m.fTurn)
    \cup SetBits(12, 1, Flag(m.fDoubled)) \cup SetBits(13, 2, m.fResigned)
    \cup SetBits(15, 3, m.anDice[high]) \cup SetBits(18, 3, m.anDice[3 - high])
    \cup SetBits(21, 15, m.nMatchTo % 32768)
    \cup SetBits(36, 15, m.anScore[0] % 32768) \cup SetBits(51, 15, m.anScore[1] % 32768)
    \cup SetBits(66, 1, Flag(~ m.fJacoby))

MatchID(m) == TwelveChars(MatchBits(m))

\* The fields, and whether the consistency checks accept them.
MatchFromKey(bits) ==
    LET owner == GetBits(bits, 4, 2)
        m == [nCube      |-> 2^GetBits(bits, 0, 4),
              fCubeOwner |-> IF owner \in 0..1 THEN owner ELSE -1,
              fMove      |-> GetBits(bits, 6, 1),
              fCrawford  |-> 7 \in bits,
              gs         |-> GetBits(bits, 8, 3),
              fTurn      |-> GetBits(bits, 11, 1),
              fDoubled   |-> 12 \in bits,
              fResigned  |-> GetBits(bits, 13, 2),
              anDice     |-> <<GetBits(bits, 15, 3), GetBits(bits, 18, 3)>>,
              nMatchTo   |-> GetBits(bits, 21, 15),
              anScore    |-> [p \in 0..1 |-> GetBits(bits, 36 + 15 * p, 15)],
              fJacoby    |-> 66 \notin bits]
    IN  [ok |-> /\ m.anDice[1] <= 6 /\ m.anDice[2] <= 6
                /\ m.nMatchTo <= MAXSCORE
                /\ IF m.nMatchTo > 0
                   THEN \A p \in 0..1 : m.anScore[p] <= m.nMatchTo
                   ELSE ~ m.fCrawford,
         match |-> m]

MatchFromID(id) == MatchFromKey(Places(NineBytes(id)))

-----------------------------------------------------------------------------
(* The index of a bearoff position: its chequers and its points as a       *)
(* string of bits, numbered among the strings with as many ones.           *)

\* anCombination, as far as the databases of 15 chequers on 6 points use it:
\* row n holds the numbers of ways to choose 1, 2, ... out of n.
anCombination ==
    LET Below(row, r) == IF r = 1 THEN row[1] + 1 ELSE row[r - 1] + row[r]
        Grow(rows, i) == Append(rows, [r \in 1..6 |-> Below(rows[Len(rows)], r)])
    IN  FoldLeft(Grow, <<[r \in 1..6 |-> IF r = 1 THEN 1 ELSE 0]>>, UpTo(20))

Combination(n, r) == anCombination[n][r]

PositionF(fBits, n0, r0) ==
    LET F[n \in 0..n0, r \in 0..r0] ==
          IF n = r THEN 0
          ELSE IF n - 1 \in fBits THEN Combination(n - 1, r) + F[n - 1, r - 1]
          ELSE F[n - 1, r]
    IN  F[n0, r0]

PositionBearoff(side, nPoints, nChequers) ==
    LET last   == nPoints - 1 + FoldLeft(LAMBDA c, i : c + side[i], 0, UpTo(nPoints))
        Down(a, i) == [j |-> a.j - (side[i] + 1), fBits |-> a.fBits \cup {a.j - (side[i] + 1)}]
        fBits  == FoldLeft(Down, [j |-> last, fBits |-> {last}], UpTo(nPoints - 1)).fBits
    IN  PositionF(fBits, nChequers + nPoints, nPoints)

\* Mutant of PositionInv: the first number of the upper half is put below.
PositionInvAbove(nID, n0, r0) ==
    LET F[id \in 0..nID, n \in 0..n0, r \in 0..r0] ==
          IF r = 0 THEN {} ELSE IF n = r THEN 0..n-1
          ELSE LET nC == Combination(n - 1, r)
               IN  IF id > nC THEN {n - 1} \cup F[id - nC, n - 1, r - 1]
                   ELSE F[id, n - 1, r]
    IN  F[nID, n0, r0]

PositionInv(nID, n0, r0) ==
    LET F[id \in 0..nID, n \in 0..n0, r \in 0..r0] ==
          IF r = 0 THEN {} ELSE IF n = r THEN 0..n-1
          ELSE LET nC == Combination(n - 1, r)
               IN  IF id >= nC THEN {n - 1} \cup F[id - nC, n - 1, r - 1]
                   ELSE F[id, n - 1, r]
    IN  F[nID, n0, r0]

PositionFromBearoff(nID, nPoints, nChequers) ==
    LET fBits == PositionInv(nID, nChequers + nPoints, nPoints)
        Read(a, i) == IF a.j < 0 THEN a
                      ELSE IF i \in fBits THEN [a EXCEPT !.j = @ - 1]
                      ELSE [a EXCEPT !.side[a.j] = @ + 1]
    IN  FoldLeft(Read, [j |-> nPoints - 1, side |-> [i \in 0..nPoints-1 |-> 0]],
                 UpTo(nChequers + nPoints)).side

-----------------------------------------------------------------------------
(* Loading the IDs that are shown for the current position and match.      *)

IDsInit == \/ anBoard \in Boards /\ ms = CHOOSE m \in Matches : TRUE
           \/ anBoard = (CHOOSE b \in Boards : TRUE) /\ ms \in Matches

\* `set board' with the ID of the position: a refused ID changes nothing.
LoadBoard ==
    LET r == PositionFromID(PositionID(anBoard))
    IN  r.ok /\ anBoard' = r.board /\ UNCHANGED ms

\* The part of `set matchid' that reads the ID.
LoadMatch ==
    LET r == MatchFromID(MatchID(ms))
    IN  r.ok /\ ms' = r.match /\ UNCHANGED anBoard

IDsNext == LoadBoard \/ LoadMatch

IDsSpec == IDsInit /\ [][IDsNext]_ivars

-----------------------------------------------------------------------------
(* Properties.                                                             *)

\* The position ID of a board is accepted and gives the board back, wherever
\* its ones fall in the bytes and however many bytes they span.
PositionIDLoads ==
    PositionFromID(PositionID(anBoard)) = [ok |-> TRUE, board |-> anBoard]

\* A key determines its board: unpacked plainly, unpacked with the sides
\* exchanged, or turned into an ID.  Move lists, records and the cache take
\* equal keys for equal boards.
KeysLossless ==
    LET key == PositionKey(anBoard)
    IN  /\ PositionFromKey(key) = anBoard
        /\ PositionFromKeySwapped(key) = [s \in 0..1 |-> anBoard[1 - s]]
        /\ PositionIDFromKey(key) = PositionID(anBoard)

\* Loading a match ID gives back the match it was made from, up to the order
\* of the dice, at the longest match and the highest cube too.  The ID is
\* refused if a score is beyond the match length, and only then.
MatchIDLoads ==
    LET r == MatchFromID(MatchID(ms))
    IN  /\ r.ok <=> (ms.nMatchTo > 0 => \A p \in 0..1 : ms.anScore[p] <= ms.nMatchTo)
        /\ r.ok => r.match = [ms EXCEPT !.anDice = IF ms.anDice[1] >= ms.anDice[2]
                                                   THEN @ ELSE <<@[2], @[1]>>]

\* The positions of up to 15 chequers on the six home points are numbered
\* one to one from 0 to Combination(21, 6) - 1.
BearoffNumbered ==
    \A s \in 0..1 :
        (\A i \in 6..24 : anBoard[s][i] = 0) =>
            LET home == [i \in 0..5 |-> anBoard[s][i]]
                nID  == PositionBearoff(home, 6, 15)
            IN  /\ nID \in 0..Combination(21, 6)-1
                /\ PositionFromBearoff(nID, 6, 15) = home
=============================================================================
