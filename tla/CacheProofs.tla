----------------------------- MODULE CacheProofs -----------------------------
(***************************************************************************)
(* Theorems about the evaluation cache.  Whatever is in a bucket was       *)
(* computed for some context with that packed key, by the table in use;    *)
(* EvalKey gives contexts with different stakes different keys, with one   *)
(* exception, and this makes a hit an answer to the question asked.  The   *)
(* mask of a size makes every lookup one of a bucket.                      *)
(***************************************************************************)
EXTENDS Cache, Induction

-----------------------------------------------------------------------------
(* Hypotheses: where one fails, so does the property, see the hazards at   *)
(* CacheCreate, EvalKey and CommandSetVariation.                           *)

\* Nobody asks for a cache of a single entry.
NoSingleEntry == 1 \notin Sizes

\* The variation is not changed.
OneVariation == \A v, w \in Variations : v = w

\* Each player needs a point, and the cube is at 1.
LastGame(c) ==
    /\ c.nMatchTo > 0 /\ c.nCube = 1 /\ ~ c.fCrawford
    /\ \A p \in 0..1 : c.anScore[p] = c.nMatchTo - 1

\* A session without the cube, or without Jacoby rule and beavers.
NoRules(c) ==
    c.nMatchTo = 0 /\ (c.fCubeful \/ c.fCubefulEquity => ~ c.fJacoby /\ ~ c.fBeavers)

\* Nobody evaluates such a session and the last game of a match.
NoMixing ==
    \A c, d \in Contexts : ~ Static(c) /\ ~ Static(d) => ~ (LastGame(c) /\ NoRules(d))

-----------------------------------------------------------------------------
(* EvalKey, bit by bit.                                                    *)

(* A bit is 0 or 1, and those a number is too small for are 0. *)
LEMMA Bit01 ==
    ASSUME NEW n \in Nat, NEW j \in 0..30
    PROVE  Bit(n, j) \in {0, 1} /\ (n < 2^j => Bit(n, j) = 0)
<1> DEFINE p == 2^j
<1>1. p \in Nat /\ p > 0
  BY PowersOfTwo
<1>2. Bit(n, j) = (n \div p) % 2
  BY DEF Bit
<1> HIDE DEF p
<1>3. n \div p \in Nat /\ (n < p => n \div p = 0)
  BY <1>1
<1>4. (n \div p) % 2 \in {0, 1} /\ (n \div p = 0 => (n \div p) % 2 = 0)
  BY <1>3
<1>5. QED
  BY <1>2, <1>3, <1>4 DEF p

(* A number of w bits, shifted by k, takes the bits from k to k + w. *)
LEMMA Field ==
    ASSUME NEW n \in Nat, NEW k \in 0..30, NEW w \in 1..31, k + w <= 31, n < 2^w
    PROVE  /\ Shl(n, k) \in [Bits -> {0, 1}]
           /\ \A i \in Bits : i < k \/ i >= k + w => Shl(n, k)[i] = 0
           /\ \A i \in Bits : i >= k => Shl(n, k)[i] = Bit(n, i - k)
<1>1. Shl(n, k) = [i \in Bits |-> IF i < k THEN 0 ELSE Bit(n, i - k)]
  BY DEF Shl
<1>2. ASSUME NEW i \in Bits, i >= k PROVE i - k \in 0..30
  BY <1>2 DEF Bits
<1>3. ASSUME NEW i \in Bits, i >= k + w PROVE Bit(n, i - k) = 0
  <2> DEFINE j == i - k
  <2>1. j \in 0..30 /\ w <= j
    BY <1>3 DEF Bits
  <2> HIDE DEF j
  <2>2. w = j \/ 2^w < 2^j
    <3>1. w \in 0..30 /\ j \in 0..31 /\ (w = j \/ w < j)
      BY <2>1
    <3>2. QED
      BY <3>1, Increasing
  <2> DEFINE a == 2^w
             b == 2^j
  <2>3. a \in Nat /\ b \in Nat
    <3>1. w \in 0..30
      BY <2>1
    <3>2. QED
      BY <2>1, <3>1, PowersOfTwo
  <2>4. n < a /\ (a = b \/ a < b)
    BY <2>2
  <2> HIDE DEF a, b
  <2>5. n < b
    BY <2>3, <2>4
  <2>6. Bit(n, j) = 0
    BY <2>1, <2>5, Bit01 DEF b
  <2>7. QED
    BY <2>6 DEF j
<1>4. \A i \in Bits : (IF i < k THEN 0 ELSE Bit(n, i - k)) \in {0, 1}
  <2> SUFFICES ASSUME NEW i \in Bits PROVE (IF i < k THEN 0 ELSE Bit(n, i - k)) \in {0, 1}
    OBVIOUS
  <2>1. CASE i < k
    BY <2>1
  <2>2. CASE ~(i < k)
    <3>1. i >= k
      BY <2>2 DEF Bits
    <3>2. Bit(n, i - k) \in {0, 1}
      BY <1>2, <3>1, Bit01
    <3>3. QED
      BY <2>2, <3>2
  <2>3. QED
    BY <2>1, <2>2
<1>5. Shl(n, k) \in [Bits -> {0, 1}]
  BY <1>1, <1>4
<1>6. ASSUME NEW i \in Bits, i >= k PROVE Shl(n, k)[i] = Bit(n, i - k)
  BY <1>1, <1>6 DEF Bits
<1>7. ASSUME NEW i \in Bits, i < k \/ i >= k + w PROVE Shl(n, k)[i] = 0
  <2>1. CASE i < k
    BY <1>1, <2>1
  <2>2. CASE i >= k + w
    <3>1. i >= k
      BY <2>2 DEF Bits
    <3>2. QED
      BY <1>3, <1>6, <2>2, <3>1
  <2>3. QED
    BY <1>7, <2>1, <2>2
<1>8. QED
  BY <1>5, <1>6, <1>7

(* Exclusive or of bits, where at most one is set, is the one. *)
LEMMA XorBits ==
    ASSUME NEW a \in [Bits -> {0, 1}], NEW b \in [Bits -> {0, 1}]
    PROVE  /\ Xor(a, b) \in [Bits -> {0, 1}]
           /\ \A i \in Bits : a[i] = 0 => Xor(a, b)[i] = b[i]
           /\ \A i \in Bits : b[i] = 0 => Xor(a, b)[i] = a[i]
           /\ \A i \in Bits : Xor(a, b)[i] = (a[i] + b[i]) % 2
<1>1. Xor(a, b) = [i \in Bits |-> (a[i] + b[i]) % 2]
  BY DEF Xor
<1>2. \A x, y \in {0, 1} : /\ (x + y) % 2 \in {0, 1}
                           /\ x = 0 => (x + y) % 2 = y
                           /\ y = 0 => (x + y) % 2 = x
  OBVIOUS
<1>3. \A i \in Bits : a[i] \in {0, 1} /\ b[i] \in {0, 1}
  OBVIOUS
<1>4. \A i \in Bits : (a[i] + b[i]) % 2 \in {0, 1}
  BY <1>2, <1>3
<1>5. Xor(a, b) \in [Bits -> {0, 1}]
  BY <1>1, <1>4
<1>6. \A i \in Bits : Xor(a, b)[i] = (a[i] + b[i]) % 2
  BY <1>1
<1>7. QED
  BY <1>2, <1>3, <1>5, <1>6

(* Numbers of 6, 4, 2 and 1 bits are told apart by these bits. *)
LEMMA SameBits ==
    ASSUME NEW m \in Nat, NEW n \in Nat
    PROVE  /\ m < 64 /\ n < 64 /\ (\A j \in 0..5 : Bit(m, j) = Bit(n, j)) => m = n
           /\ m < 16 /\ n < 16 /\ (\A j \in 0..3 : Bit(m, j) = Bit(n, j)) => m = n
           /\ m < 4 /\ n < 4 /\ (\A j \in 0..1 : Bit(m, j) = Bit(n, j)) => m = n
           /\ m < 2 /\ n < 2 /\ Bit(m, 0) = Bit(n, 0) => m = n
<1>1. /\ Bit(m, 0) = m % 2 /\ Bit(m, 1) = (m \div 2) % 2
      /\ Bit(m, 2) = (m \div 4) % 2 /\ Bit(m, 3) = (m \div 8) % 2
      /\ Bit(m, 4) = (m \div 16) % 2 /\ Bit(m, 5) = (m \div 32) % 2
      /\ Bit(n, 0) = n % 2 /\ Bit(n, 1) = (n \div 2) % 2
      /\ Bit(n, 2) = (n \div 4) % 2 /\ Bit(n, 3) = (n \div 8) % 2
      /\ Bit(n, 4) = (n \div 16) % 2 /\ Bit(n, 5) = (n \div 32) % 2
  BY DEF Bit
<1>2. ASSUME m < 64, n < 64, \A j \in 0..5 : Bit(m, j) = Bit(n, j)
      PROVE  m = n
  <2>1. /\ Bit(m, 0) = Bit(n, 0) /\ Bit(m, 1) = Bit(n, 1) /\ Bit(m, 2) = Bit(n, 2)
        /\ Bit(m, 3) = Bit(n, 3) /\ Bit(m, 4) = Bit(n, 4) /\ Bit(m, 5) = Bit(n, 5)
    BY <1>2
  <2>2. /\ m % 2 = n % 2 /\ (m \div 2) % 2 = (n \div 2) % 2
        /\ (m \div 4) % 2 = (n \div 4) % 2 /\ (m \div 8) % 2 = (n \div 8) % 2
        /\ (m \div 16) % 2 = (n \div 16) % 2 /\ (m \div 32) % 2 = (n \div 32) % 2
    BY <1>1, <2>1
  <2>3. QED
    BY ONLY m \in Nat, n \in Nat, <1>2, <2>2
<1>3. ASSUME m < 16, n < 16, \A j \in 0..3 : Bit(m, j) = Bit(n, j)
      PROVE  m = n
  <2>1. /\ Bit(m, 0) = Bit(n, 0) /\ Bit(m, 1) = Bit(n, 1) /\ Bit(m, 2) = Bit(n, 2)
        /\ Bit(m, 3) = Bit(n, 3)
    BY <1>3
  <2>2. /\ m % 2 = n % 2 /\ (m \div 2) % 2 = (n \div 2) % 2
        /\ (m \div 4) % 2 = (n \div 4) % 2 /\ (m \div 8) % 2 = (n \div 8) % 2
    BY <1>1, <2>1
  <2>3. QED
    BY ONLY m \in Nat, n \in Nat, <1>3, <2>2
<1>4. ASSUME m < 4, n < 4, \A j \in 0..1 : Bit(m, j) = Bit(n, j)
      PROVE  m = n
  <2>1. Bit(m, 0) = Bit(n, 0) /\ Bit(m, 1) = Bit(n, 1)
    BY <1>4
  <2>2. m % 2 = n % 2 /\ (m \div 2) % 2 = (n \div 2) % 2
    BY <1>1, <2>1
  <2>3. QED
    BY ONLY m \in Nat, n \in Nat, <1>4, <2>2
<1>5. ASSUME m < 2, n < 2, Bit(m, 0) = Bit(n, 0)
      PROVE  m = n
  BY <1>1, <1>5
<1>6. QED
  BY <1>2, <1>3, <1>4, <1>5

(* A flag, shifted by k, is bit k. *)
LEMMA FlagField ==
    ASSUME NEW f \in {0, 1}, NEW k \in 0..30
    PROVE  /\ Shl(f, k) \in [Bits -> {0, 1}]
           /\ Shl(f, k)[k] = f
           /\ \A i \in Bits : i # k => Shl(f, k)[i] = 0
<1>1. f \in Nat /\ 1 \in 1..31 /\ k + 1 <= 31 /\ f < 2^1 /\ k \in Bits /\ k >= k /\ k - k = 0
  BY DEF Bits
<1>2. /\ Shl(f, k) \in [Bits -> {0, 1}]
      /\ \A i \in Bits : i < k \/ i >= k + 1 => Shl(f, k)[i] = 0
      /\ \A i \in Bits : i >= k => Shl(f, k)[i] = Bit(f, i - k)
  BY <1>1, Field
<1>3. Bit(f, 0) = f
  BY DEF Bit
<1>4. Shl(f, k)[k] = f
  BY <1>1, <1>2, <1>3
<1>5. ASSUME NEW i \in Bits, i # k PROVE i < k \/ i >= k + 1
  BY <1>5 DEF Bits
<1>6. QED
  BY <1>2, <1>4, <1>5

(* The bits of the evaluation context. *)
LEMMA PlyField ==
    ASSUME NEW c, LegalContext(c)
    PROVE  /\ PlyBits(c) \in [Bits -> {0, 1}]
           /\ \A i \in 0..3 : PlyBits(c)[i] = Bit(c.nPlies, i)
           /\ PlyBits(c)[4] = Flag(c.fCubeful) /\ PlyBits(c)[5] = c.fMove
           /\ PlyBits(c)[6] = Flag(c.nPlies > 0 /\ c.fUsePrune)
           /\ \A i \in Bits : i >= 7 => PlyBits(c)[i] = 0
<1> DEFINE f4 == Flag(c.fCubeful)
           f5 == c.fMove
           f6 == Flag(c.nPlies > 0 /\ c.fUsePrune)
           n == c.nPlies
           s0 == Shl(n, 0)
           s4 == Shl(f4, 4)
           s5 == Shl(f5, 5)
           s6 == Shl(f6, 6)
           x1 == Xor(s4, s5)
           x2 == Xor(s0, x1)
           x3 == Xor(x2, s6)
<1>1. f4 \in {0, 1} /\ f5 \in {0, 1} /\ f6 \in {0, 1} /\ n \in Nat /\ n < 16
  BY DEF LegalContext, Flag
<1>2. PlyBits(c) = x3
  BY DEF PlyBits
<1> HIDE DEF f4, f5, f6, n
<1>3. /\ s4 \in [Bits -> {0, 1}] /\ s4[4] = f4 /\ \A i \in Bits : i # 4 => s4[i] = 0
  BY <1>1, FlagField
<1>4. /\ s5 \in [Bits -> {0, 1}] /\ s5[5] = f5 /\ \A i \in Bits : i # 5 => s5[i] = 0
  BY <1>1, FlagField
<1>5. /\ s6 \in [Bits -> {0, 1}] /\ s6[6] = f6 /\ \A i \in Bits : i # 6 => s6[i] = 0
  BY <1>1, FlagField
<1>6. /\ s0 \in [Bits -> {0, 1}] /\ \A i \in Bits : i >= 4 => s0[i] = 0
      /\ \A i \in 0..3 : s0[i] = Bit(n, i)
  <2>1. 2^4 = 16 /\ 0 \in 0..30 /\ 4 \in 1..31 /\ 0 + 4 <= 31
    OBVIOUS
  <2>2. n < 2^4
    BY <1>1, <2>1
  <2>3. /\ s0 \in [Bits -> {0, 1}]
        /\ \A i \in Bits : i < 0 \/ i >= 0 + 4 => s0[i] = 0
        /\ \A i \in Bits : i >= 0 => s0[i] = Bit(n, i - 0)
    BY <1>1, <2>1, <2>2, Field
  <2>4. \A i \in 0..3 : i \in Bits /\ i >= 0 /\ i - 0 = i
    BY DEF Bits
  <2>5. \A i \in Bits : i >= 4 => i >= 0 + 4
    BY DEF Bits
  <2> HIDE DEF s0
  <2>6. QED
    BY <2>3, <2>4, <2>5
<1> HIDE DEF s0, s4, s5, s6
<1>7. /\ x1 \in [Bits -> {0, 1}]
      /\ \A i \in Bits : s4[i] = 0 => x1[i] = s5[i]
      /\ \A i \in Bits : s5[i] = 0 => x1[i] = s4[i]
  BY <1>3, <1>4, XorBits
<1> HIDE DEF x1
<1>8. /\ x2 \in [Bits -> {0, 1}]
      /\ \A i \in Bits : s0[i] = 0 => x2[i] = x1[i]
      /\ \A i \in Bits : x1[i] = 0 => x2[i] = s0[i]
  BY <1>6, <1>7, XorBits
<1> HIDE DEF x2
<1>9. /\ x3 \in [Bits -> {0, 1}]
      /\ \A i \in Bits : x2[i] = 0 => x3[i] = s6[i]
      /\ \A i \in Bits : s6[i] = 0 => x3[i] = x2[i]
  BY <1>5, <1>8, XorBits
<1> HIDE DEF x3
<1>10. /\ \A i \in 0..3 : x3[i] = Bit(n, i)
       /\ x3[4] = f4 /\ x3[5] = f5 /\ x3[6] = f6
       /\ \A i \in Bits : i >= 7 => x3[i] = 0
  BY <1>3, <1>4, <1>5, <1>6, <1>7, <1>8, <1>9 DEF Bits
<1>11. QED
  BY <1>2, <1>9, <1>10 DEF f4, f5, f6, n

(* The number for the owner of the cube. *)
Owner(c) == IF c.fCubeOwner < 0 THEN 2 ELSE Flag(c.fCubeOwner = c.fMove)

(* The bits of the owner of the cube. *)
LEMMA CubeField ==
    ASSUME NEW c, LegalContext(c)
    PROVE  /\ CubeBits(c) \in [Bits -> {0, 1}]
           /\ Owner(c) \in Nat /\ Owner(c) < 4
           /\ CubeBits(c)[23] = Bit(Owner(c), 0) /\ CubeBits(c)[24] = Bit(Owner(c), 1)
           /\ \A i \in Bits : i < 23 \/ i >= 25 => CubeBits(c)[i] = 0
<1>1. Owner(c) \in Nat /\ Owner(c) < 4 /\ CubeBits(c) = Shl(Owner(c), 23)
  BY DEF Owner, Flag, CubeBits
<1>2. Owner(c) < 2^2 /\ 23 \in 0..30 /\ 2 \in 1..31 /\ 23 + 2 <= 31
  BY <1>1
<1> DEFINE s == Shl(Owner(c), 23)
<1>3. /\ s \in [Bits -> {0, 1}]
      /\ \A i \in Bits : i < 23 \/ i >= 23 + 2 => s[i] = 0
      /\ \A i \in Bits : i >= 23 => s[i] = Bit(Owner(c), i - 23)
  BY <1>1, <1>2, Field
<1> HIDE DEF s
<1>4. 23 \in Bits /\ 24 \in Bits /\ 23 - 23 = 0 /\ 24 - 23 = 1 /\ 23 >= 23 /\ 24 >= 23
  BY DEF Bits
<1>5. s[23] = Bit(Owner(c), 0) /\ s[24] = Bit(Owner(c), 1)
  BY <1>3, <1>4
<1>6. \A i \in Bits : i < 23 \/ i >= 25 => s[i] = 0
  BY <1>3 DEF Bits
<1>7. QED
  BY <1>1, <1>3, <1>5, <1>6 DEF s

(* A field of 6 or 4 bits. *)
LEMMA NumberField ==
    ASSUME NEW n \in Nat, NEW k \in 0..25
    PROVE  /\ n < 64 => /\ Shl(n, k) \in [Bits -> {0, 1}]
                        /\ \A i \in Bits : i < k \/ i >= k + 6 => Shl(n, k)[i] = 0
                        /\ \A j \in 0..5 : Shl(n, k)[k + j] = Bit(n, j)
           /\ n < 16 => /\ Shl(n, k) \in [Bits -> {0, 1}]
                        /\ \A i \in Bits : i < k \/ i >= k + 4 => Shl(n, k)[i] = 0
                        /\ \A j \in 0..3 : Shl(n, k)[k + j] = Bit(n, j)
<1>1. 2^6 = 64 /\ 2^4 = 16
  OBVIOUS
<1>2. k \in 0..30 /\ 6 \in 1..31 /\ 4 \in 1..31 /\ k + 6 <= 31 /\ k + 4 <= 31
  OBVIOUS
<1>3. \A j \in 0..5 : k + j \in Bits /\ k + j >= k /\ (k + j) - k = j
  BY DEF Bits
<1>4. ASSUME n < 64
      PROVE  /\ Shl(n, k) \in [Bits -> {0, 1}]
             /\ \A i \in Bits : i < k \/ i >= k + 6 => Shl(n, k)[i] = 0
             /\ \A j \in 0..5 : Shl(n, k)[k + j] = Bit(n, j)
  <2>1. n < 2^6
    BY <1>1, <1>4
  <2>2. /\ Shl(n, k) \in [Bits -> {0, 1}]
        /\ \A i \in Bits : i < k \/ i >= k + 6 => Shl(n, k)[i] = 0
        /\ \A i \in Bits : i >= k => Shl(n, k)[i] = Bit(n, i - k)
    BY <1>2, <2>1, Field
  <2>3. QED
    BY <1>3, <2>2
<1>5. ASSUME n < 16
      PROVE  /\ Shl(n, k) \in [Bits -> {0, 1}]
             /\ \A i \in Bits : i < k \/ i >= k + 4 => Shl(n, k)[i] = 0
             /\ \A j \in 0..3 : Shl(n, k)[k + j] = Bit(n, j)
  <2>1. n < 2^4
    BY <1>1, <1>5
  <2>2. /\ Shl(n, k) \in [Bits -> {0, 1}]
        /\ \A i \in Bits : i < k \/ i >= k + 4 => Shl(n, k)[i] = 0
        /\ \A i \in Bits : i >= k => Shl(n, k)[i] = Bit(n, i - k)
    BY <1>2, <2>1, Field
  <2>3. \A j \in 0..3 : j \in 0..5
    OBVIOUS
  <2>4. QED
    BY <1>3, <2>2, <2>3
<1>6. QED
  BY <1>4, <1>5

(* What the players need, less one. *)
Away(c, p) == c.nMatchTo - c.anScore[p] - 1

(* The bits of a match. *)
LEMMA MatchField ==
    ASSUME NEW c, LegalContext(c), c.nMatchTo > 0
    PROVE  /\ MatchBits(c) \in [Bits -> {0, 1}]
           /\ Away(c, c.fMove) \in Nat /\ Away(c, c.fMove) < 64
           /\ Away(c, 1 - c.fMove) \in Nat /\ Away(c, 1 - c.fMove) < 64
           /\ LogCube(c.nCube) \in Nat /\ LogCube(c.nCube) < 16
           /\ c.nCube = 2^LogCube(c.nCube)
           /\ \A j \in 0..5 : MatchBits(c)[7 + j] = Bit(Away(c, c.fMove), j)
           /\ \A j \in 0..5 : MatchBits(c)[13 + j] = Bit(Away(c, 1 - c.fMove), j)
           /\ \A j \in 0..3 : MatchBits(c)[19 + j] = Bit(LogCube(c.nCube), j)
           /\ MatchBits(c)[23] = Bit(Owner(c), 0) /\ MatchBits(c)[24] = Bit(Owner(c), 1)
           /\ MatchBits(c)[25] = Flag(c.fCrawford)
           /\ \A i \in Bits : i < 7 \/ i >= 26 => MatchBits(c)[i] = 0
<1> DEFINE a == Away(c, c.fMove)
           b == Away(c, 1 - c.fMove)
           l == LogCube(c.nCube)
           f == Flag(c.fCrawford)
           o0 == Bit(Owner(c), 0)
           o1 == Bit(Owner(c), 1)
           s7 == Shl(a, 7)
           s13 == Shl(b, 13)
           s19 == Shl(l, 19)
           s23 == CubeBits(c)
           s25 == Shl(f, 25)
           x1 == Xor(s7, s13)
           x2 == Xor(s23, s25)
           x3 == Xor(s19, x2)
           x4 == Xor(x1, x3)
<1>1. a \in Nat /\ a < 64 /\ b \in Nat /\ b < 64
  <2> DEFINE n == c.nMatchTo
             u == c.anScore[c.fMove]
             v == c.anScore[1 - c.fMove]
  <2>1. n \in 0..64 /\ c.fMove \in 0..1 /\ 1 - c.fMove \in 0..1 /\ c.anScore \in [0..1 -> Nat]
    BY DEF LegalContext
  <2>2. \A p \in 0..1 : c.anScore[p] < n
    BY DEF LegalContext
  <2>3. u \in Nat /\ v \in Nat /\ u < n /\ v < n
    BY <2>1, <2>2
  <2>4. a = n - u - 1 /\ b = n - v - 1
    BY DEF Away
  <2> HIDE DEF n, u, v, a, b
  <2>5. QED
    BY <2>1, <2>3, <2>4
<1>2. l \in Nat /\ l < 16 /\ c.nCube = 2^l
  <2>1. PICK i \in 0..13 : c.nCube = 2^i
    BY DEF LegalContext, CubeOf
  <2>2. i \in 0..30 /\ i \in Nat /\ i < 16
    OBVIOUS
  <2>3. (CHOOSE j \in 0..30 : 2^j <= 2^i /\ 2^i < 2^(j + 1)) = i
    BY <2>2, Logarithm
  <2>4. l = i
    BY <2>1, <2>3 DEF LogCube
  <2> HIDE DEF l
  <2>5. QED
    BY <2>1, <2>2, <2>4
<1>3. f \in {0, 1}
  BY DEF Flag
<1>4. MatchBits(c) = x4
  BY DEF MatchBits, Away
<1>5. /\ s23 \in [Bits -> {0, 1}] /\ s23[23] = o0 /\ s23[24] = o1
      /\ \A i \in Bits : i < 23 \/ i >= 25 => s23[i] = 0
  BY CubeField
<1> HIDE DEF a, b, l, f, o0, o1, s23
<1>6. /\ s7 \in [Bits -> {0, 1}] /\ \A i \in Bits : i < 7 \/ i >= 13 => s7[i] = 0
      /\ \A j \in 0..5 : s7[7 + j] = Bit(a, j)
  <2>1. 7 \in 0..25 /\ 7 + 6 = 13
    OBVIOUS
  <2>2. /\ s7 \in [Bits -> {0, 1}] /\ \A i \in Bits : i < 7 \/ i >= 7 + 6 => s7[i] = 0
        /\ \A j \in 0..5 : s7[7 + j] = Bit(a, j)
    BY <1>1, <2>1, NumberField
  <2> HIDE DEF s7
  <2>3. QED
    BY <2>1, <2>2
<1>7. /\ s13 \in [Bits -> {0, 1}] /\ \A i \in Bits : i < 13 \/ i >= 19 => s13[i] = 0
      /\ \A j \in 0..5 : s13[13 + j] = Bit(b, j)
  <2>1. 13 \in 0..25 /\ 13 + 6 = 19
    OBVIOUS
  <2>2. /\ s13 \in [Bits -> {0, 1}] /\ \A i \in Bits : i < 13 \/ i >= 13 + 6 => s13[i] = 0
        /\ \A j \in 0..5 : s13[13 + j] = Bit(b, j)
    BY <1>1, <2>1, NumberField
  <2> HIDE DEF s13
  <2>3. QED
    BY <2>1, <2>2
<1>8. /\ s19 \in [Bits -> {0, 1}] /\ \A i \in Bits : i < 19 \/ i >= 23 => s19[i] = 0
      /\ \A j \in 0..3 : s19[19 + j] = Bit(l, j)
  <2>1. 19 \in 0..25 /\ 19 + 4 = 23
    OBVIOUS
  <2>2. /\ s19 \in [Bits -> {0, 1}] /\ \A i \in Bits : i < 19 \/ i >= 19 + 4 => s19[i] = 0
        /\ \A j \in 0..3 : s19[19 + j] = Bit(l, j)
    BY <1>2, <2>1, NumberField
  <2> HIDE DEF s19
  <2>3. QED
    BY <2>1, <2>2
<1>9. /\ s25 \in [Bits -> {0, 1}] /\ s25[25] = f /\ \A i \in Bits : i # 25 => s25[i] = 0
  BY <1>3, FlagField
<1> HIDE DEF s7, s13, s19, s25
<1>10. /\ x1 \in [Bits -> {0, 1}]
       /\ \A i \in Bits : s7[i] = 0 => x1[i] = s13[i]
       /\ \A i \in Bits : s13[i] = 0 => x1[i] = s7[i]
  BY <1>6, <1>7, XorBits
<1>11. /\ x2 \in [Bits -> {0, 1}]
       /\ \A i \in Bits : s23[i] = 0 => x2[i] = s25[i]
       /\ \A i \in Bits : s25[i] = 0 => x2[i] = s23[i]
  BY <1>5, <1>9, XorBits
<1> HIDE DEF x1, x2
<1>12. /\ x3 \in [Bits -> {0, 1}]
       /\ \A i \in Bits : s19[i] = 0 => x3[i] = x2[i]
       /\ \A i \in Bits : x2[i] = 0 => x3[i] = s19[i]
  BY <1>8, <1>11, XorBits
<1> HIDE DEF x3
<1>13. /\ x4 \in [Bits -> {0, 1}]
       /\ \A i \in Bits : x1[i] = 0 => x4[i] = x3[i]
       /\ \A i \in Bits : x3[i] = 0 => x4[i] = x1[i]
  BY <1>10, <1>12, XorBits
<1> HIDE DEF x4
<1>14. \A i \in Bits : i >= 19 => x1[i] = 0
  BY <1>6, <1>7, <1>10 DEF Bits
<1>15. \A i \in Bits : i < 19 \/ i >= 26 => x3[i] = 0
  BY <1>5, <1>8, <1>9, <1>11, <1>12 DEF Bits
<1>16. ASSUME NEW j \in 0..5 PROVE x4[7 + j] = Bit(a, j)
  <2>1. 7 + j \in Bits /\ 7 + j < 13 /\ 7 + j < 19
    BY DEF Bits
  <2>2. s7[7 + j] = Bit(a, j) /\ s13[7 + j] = 0 /\ x3[7 + j] = 0
    BY <1>6, <1>7, <1>15, <2>1
  <2>3. QED
    BY <1>10, <1>13, <2>1, <2>2
<1>17. ASSUME NEW j \in 0..5 PROVE x4[13 + j] = Bit(b, j)
  <2>1. 13 + j \in Bits /\ 13 + j >= 13 /\ 13 + j < 19
    BY DEF Bits
  <2>2. s13[13 + j] = Bit(b, j) /\ s7[13 + j] = 0 /\ x3[13 + j] = 0
    BY <1>6, <1>7, <1>15, <2>1
  <2>3. QED
    BY <1>10, <1>13, <2>1, <2>2
<1>18. ASSUME NEW j \in 0..3 PROVE x4[19 + j] = Bit(l, j)
  <2>1. 19 + j \in Bits /\ 19 + j >= 19 /\ 19 + j < 23 /\ 19 + j # 25
    BY DEF Bits
  <2>2. s19[19 + j] = Bit(l, j) /\ s23[19 + j] = 0 /\ s25[19 + j] = 0 /\ x1[19 + j] = 0
    BY <1>5, <1>8, <1>9, <1>14, <2>1
  <2>3. x2[19 + j] = 0
    BY <1>11, <2>1, <2>2
  <2>4. QED
    BY <1>12, <1>13, <2>1, <2>2, <2>3
<1>19. x4[23] = o0 /\ x4[24] = o1 /\ x4[25] = f
  BY <1>5, <1>8, <1>9, <1>11, <1>12, <1>13, <1>14 DEF Bits
<1>20. \A i \in Bits : i < 7 \/ i >= 26 => x4[i] = 0
  BY <1>6, <1>7, <1>10, <1>13, <1>14, <1>15 DEF Bits
<1>21. QED
  BY <1>1, <1>2, <1>4, <1>13, <1>16, <1>17, <1>18, <1>19, <1>20 DEF a, b, l, f, o0, o1

(* The bits of a session. *)
LEMMA MoneyField ==
    ASSUME NEW c, LegalContext(c)
    PROVE  /\ MoneyBits(c) \in [Bits -> {0, 1}]
           /\ MoneyBits(c)[23] = Bit(Owner(c), 0) /\ MoneyBits(c)[24] = Bit(Owner(c), 1)
           /\ MoneyBits(c)[26] = Flag(c.fJacoby) /\ MoneyBits(c)[27] = Flag(c.fBeavers)
           /\ \A i \in Bits : i < 23 \/ i = 25 \/ i >= 28 => MoneyBits(c)[i] = 0
<1> DEFINE f == Flag(c.fJacoby)
           g == Flag(c.fBeavers)
           o0 == Bit(Owner(c), 0)
           o1 == Bit(Owner(c), 1)
           s23 == CubeBits(c)
           s26 == Shl(f, 26)
           s27 == Shl(g, 27)
           x1 == Xor(s26, s27)
           x2 == Xor(s23, x1)
<1>1. f \in {0, 1} /\ g \in {0, 1}
  BY DEF Flag
<1>2. MoneyBits(c) = x2
  BY DEF MoneyBits
<1>3. /\ s23 \in [Bits -> {0, 1}] /\ s23[23] = o0 /\ s23[24] = o1
      /\ \A i \in Bits : i < 23 \/ i >= 25 => s23[i] = 0
  BY CubeField
<1> HIDE DEF f, g, o0, o1, s23
<1>4. /\ s26 \in [Bits -> {0, 1}] /\ s26[26] = f /\ \A i \in Bits : i # 26 => s26[i] = 0
  BY <1>1, FlagField
<1>5. /\ s27 \in [Bits -> {0, 1}] /\ s27[27] = g /\ \A i \in Bits : i # 27 => s27[i] = 0
  BY <1>1, FlagField
<1> HIDE DEF s26, s27
<1>6. /\ x1 \in [Bits -> {0, 1}]
      /\ \A i \in Bits : s26[i] = 0 => x1[i] = s27[i]
      /\ \A i \in Bits : s27[i] = 0 => x1[i] = s26[i]
  BY <1>4, <1>5, XorBits
<1> HIDE DEF x1
<1>7. /\ x2 \in [Bits -> {0, 1}]
      /\ \A i \in Bits : s23[i] = 0 => x2[i] = x1[i]
      /\ \A i \in Bits : x1[i] = 0 => x2[i] = s23[i]
  BY <1>3, <1>6, XorBits
<1> HIDE DEF x2
<1>8. /\ x2[23] = o0 /\ x2[24] = o1 /\ x2[26] = f /\ x2[27] = g
      /\ \A i \in Bits : i < 23 \/ i = 25 \/ i >= 28 => x2[i] = 0
  BY <1>3, <1>4, <1>5, <1>6, <1>7 DEF Bits
<1>9. QED
  BY <1>2, <1>7, <1>8 DEF f, g, o0, o1

(* No bit of 0 is set. *)
LEMMA Zero == Shl(0, 0) \in [Bits -> {0, 1}] /\ \A i \in Bits : Shl(0, 0)[i] = 0
<1>1. /\ Shl(0, 0) \in [Bits -> {0, 1}] /\ Shl(0, 0)[0] = 0
      /\ \A i \in Bits : i # 0 => Shl(0, 0)[i] = 0
  BY FlagField
<1>2. QED
  BY <1>1

(* Score, cube and rules leave the other bits alone. *)
LEMMA RuleField ==
    ASSUME NEW c, LegalContext(c)
    PROVE  /\ RuleBits(c) \in [Bits -> {0, 1}]
           /\ \A i \in Bits : i < 7 \/ i >= 28 => RuleBits(c)[i] = 0
<1>1. CASE c.nMatchTo > 0
  <2>1. /\ MatchBits(c) \in [Bits -> {0, 1}]
        /\ \A i \in Bits : i < 7 \/ i >= 26 => MatchBits(c)[i] = 0
    BY <1>1, MatchField
  <2>2. RuleBits(c) = MatchBits(c)
    BY <1>1 DEF RuleBits
  <2>3. QED
    BY <2>1, <2>2 DEF Bits
<1>2. CASE ~(c.nMatchTo > 0) /\ (c.fCubeful \/ c.fCubefulEquity)
  <2>1. /\ MoneyBits(c) \in [Bits -> {0, 1}]
        /\ \A i \in Bits : i < 23 \/ i >= 28 => MoneyBits(c)[i] = 0
    BY MoneyField
  <2>2. RuleBits(c) = MoneyBits(c)
    BY <1>2 DEF RuleBits
  <2>3. QED
    BY <2>1, <2>2 DEF Bits
<1>3. CASE ~(c.nMatchTo > 0) /\ ~(c.fCubeful \/ c.fCubefulEquity)
  <2>1. RuleBits(c) = Shl(0, 0)
    BY <1>3 DEF RuleBits
  <2>2. QED
    BY <2>1, Zero
<1>4. QED
  BY <1>1, <1>2, <1>3

(* The mask of a cubeful equity. *)
Mask(c) == Shl(IF c.fCubefulEquity THEN 1783084158 ELSE 0, 0)

(* Its highest bit says whether there is one. *)
LEMMA MaskField ==
    ASSUME NEW c, LegalContext(c)
    PROVE  /\ Mask(c) \in [Bits -> {0, 1}]
           /\ Mask(c)[30] = Flag(c.fCubefulEquity)
           /\ ~c.fCubefulEquity => \A i \in Bits : Mask(c)[i] = 0
<1>1. CASE c.fCubefulEquity
  <2> DEFINE C == 1783084158
             s == Shl(C, 0)
  <2>1. /\ C \in Nat /\ C < 2^31 /\ 0 \in 0..30 /\ 31 \in 1..31 /\ 0 + 31 <= 31
    OBVIOUS
  <2>2. /\ s \in [Bits -> {0, 1}]
        /\ \A i \in Bits : i >= 0 => s[i] = Bit(C, i - 0)
    BY <2>1, Field
  <2>3. 30 \in Bits /\ 30 >= 0 /\ 30 - 0 = 30
    BY DEF Bits
  <2>4. Bit(C, 30) = 1
    BY DEF Bit
  <2>5. Mask(c) = s /\ Flag(c.fCubefulEquity) = 1
    BY <1>1 DEF Mask, Flag
  <2> HIDE DEF C, s
  <2>6. s[30] = 1
    BY <2>2, <2>3, <2>4
  <2>7. QED
    BY <1>1, <2>2, <2>5, <2>6
<1>2. CASE ~c.fCubefulEquity
  <2>1. Mask(c) = Shl(0, 0) /\ Flag(c.fCubefulEquity) = 0
    BY <1>2 DEF Mask, Flag
  <2>2. 30 \in Bits
    BY DEF Bits
  <2>3. QED
    BY <1>2, <2>1, <2>2, Zero
<1>3. QED
  BY <1>1, <1>2

(* What EvalKey combines with the mask. *)
Rules(c) == IF Static(c) THEN Shl(0, 0) ELSE RuleBits(c)

(* EvalKey: the evaluation context in the low bits, the score, cube and rules
   in the others, and the mask over them. *)
LEMMA KeyField ==
    ASSUME NEW c, LegalContext(c)
    PROVE  /\ Rules(c) \in [Bits -> {0, 1}]
           /\ EvalKey(c)[30] = Flag(c.fCubefulEquity)
           /\ \A i \in Bits : i < 7 => EvalKey(c)[i] = (PlyBits(c)[i] + Mask(c)[i]) % 2
           /\ \A i \in Bits : i >= 7 => EvalKey(c)[i] = (Rules(c)[i] + Mask(c)[i]) % 2
<1> DEFINE p == PlyBits(c)
           r == Rules(c)
           m == Mask(c)
           x == Xor(p, r)
           y == Xor(x, m)
<1>1. p \in [Bits -> {0, 1}] /\ \A i \in Bits : i >= 7 => p[i] = 0
  BY PlyField
<1>2. r \in [Bits -> {0, 1}] /\ \A i \in Bits : i < 7 \/ i >= 28 => r[i] = 0
  <2>1. CASE Static(c)
    BY <2>1, Zero DEF Rules
  <2>2. CASE ~Static(c)
    BY <2>2, RuleField DEF Rules
  <2>3. QED
    BY <2>1, <2>2
<1>3. /\ m \in [Bits -> {0, 1}] /\ m[30] = Flag(c.fCubefulEquity)
      /\ ~c.fCubefulEquity => \A i \in Bits : m[i] = 0
  BY MaskField
<1>4. Static(c) => EvalKey(c) = p /\ ~c.fCubefulEquity
  BY DEF Static, EvalKey
<1>5. ~Static(c) => EvalKey(c) = y
  BY DEF Static, EvalKey, Rules, Mask
<1> HIDE DEF p, r, m
<1>6. /\ x \in [Bits -> {0, 1}]
      /\ \A i \in Bits : p[i] = 0 => x[i] = r[i]
      /\ \A i \in Bits : r[i] = 0 => x[i] = p[i]
  BY <1>1, <1>2, XorBits
<1> HIDE DEF x
<1>7. \A i \in Bits : y[i] = (x[i] + m[i]) % 2
  BY <1>3, <1>6, XorBits
<1> HIDE DEF y
<1>8. \A i \in Bits : (i < 7 => x[i] = p[i]) /\ (i >= 7 => x[i] = r[i])
  BY <1>1, <1>2, <1>6
<1>9. ASSUME Static(c) PROVE \A i \in Bits : EvalKey(c)[i] = y[i]
  <2>1. \A i \in Bits : r[i] = 0
    BY <1>9, Zero DEF r, Rules
  <2>2. \A i \in Bits : x[i] = p[i] /\ m[i] = 0 /\ p[i] \in {0, 1}
    BY <1>1, <1>3, <1>4, <1>6, <1>9, <2>1
  <2>3. \A i \in Bits : (x[i] + m[i]) % 2 = p[i]
    BY <2>2
  <2>4. QED
    BY <1>4, <1>7, <1>9, <2>3
<1>10. \A i \in Bits : EvalKey(c)[i] = (x[i] + m[i]) % 2
  BY <1>5, <1>7, <1>9
<1>11. EvalKey(c)[30] = m[30]
  <2>1. 30 \in Bits /\ 30 >= 7 /\ 30 >= 28
    BY DEF Bits
  <2>2. x[30] = 0 /\ m[30] \in {0, 1}
    BY <1>2, <1>3, <1>8, <2>1
  <2>3. (x[30] + m[30]) % 2 = m[30]
    BY <2>2
  <2>4. QED
    BY <1>10, <2>1, <2>3
<1>12. QED
  BY <1>2, <1>3, <1>8, <1>10, <1>11 DEF p, r, m

(* Contexts with the same packed key are evaluated alike, and agree in the bits
   of the score, cube and rules. *)
LEMMA SameKey ==
    ASSUME NEW c, LegalContext(c), NEW d, LegalContext(d), EvalKey(c) = EvalKey(d)
    PROVE  /\ c.fCubefulEquity = d.fCubefulEquity /\ c.nPlies = d.nPlies
           /\ c.fCubeful = d.fCubeful
           /\ (c.nPlies > 0 /\ c.fUsePrune) = (d.nPlies > 0 /\ d.fUsePrune)
           /\ Static(c) = Static(d)
           /\ ~Static(c) => \A i \in Bits : i >= 7 => RuleBits(c)[i] = RuleBits(d)[i]
<1>1. \A f \in BOOLEAN, g \in BOOLEAN : Flag(f) = Flag(g) => f = g
  BY DEF Flag
<1>2. /\ c.fCubefulEquity \in BOOLEAN /\ d.fCubefulEquity \in BOOLEAN
      /\ c.fCubeful \in BOOLEAN /\ d.fCubeful \in BOOLEAN
      /\ c.fUsePrune \in BOOLEAN /\ d.fUsePrune \in BOOLEAN
      /\ c.nPlies \in Nat /\ c.nPlies < 16 /\ d.nPlies \in Nat /\ d.nPlies < 16
  BY DEF LegalContext
<1>3. c.fCubefulEquity = d.fCubefulEquity
  <2>1. Flag(c.fCubefulEquity) = Flag(d.fCubefulEquity)
    BY KeyField
  <2>2. QED
    BY <1>1, <1>2, <2>1
<1> DEFINE m == Mask(c)
<1>4. Mask(d) = m /\ m \in [Bits -> {0, 1}]
  BY <1>3, MaskField DEF Mask
<1>5. \A u, v, w \in {0, 1} : (u + w) % 2 = (v + w) % 2 => u = v
  OBVIOUS
<1> DEFINE p == PlyBits(c)
           q == PlyBits(d)
           r == Rules(c)
           s == Rules(d)
<1>6. p \in [Bits -> {0, 1}] /\ q \in [Bits -> {0, 1}] /\ r \in [Bits -> {0, 1}]
      /\ s \in [Bits -> {0, 1}]
  BY PlyField, KeyField
<1>7. \A i \in Bits : /\ i < 7 => (p[i] + m[i]) % 2 = (q[i] + m[i]) % 2
                      /\ i >= 7 => (r[i] + m[i]) % 2 = (s[i] + m[i]) % 2
  <2>1. /\ \A i \in Bits : i < 7 => EvalKey(c)[i] = (p[i] + m[i]) % 2
        /\ \A i \in Bits : i >= 7 => EvalKey(c)[i] = (r[i] + m[i]) % 2
    BY KeyField
  <2>2. /\ \A i \in Bits : i < 7 => EvalKey(d)[i] = (q[i] + Mask(d)[i]) % 2
        /\ \A i \in Bits : i >= 7 => EvalKey(d)[i] = (s[i] + Mask(d)[i]) % 2
    BY KeyField
  <2> HIDE DEF m, p, q, r, s
  <2>3. QED
    BY <1>4, <2>1, <2>2
<1>8. /\ \A i \in 0..3 : p[i] = Bit(c.nPlies, i) /\ q[i] = Bit(d.nPlies, i)
      /\ p[4] = Flag(c.fCubeful) /\ q[4] = Flag(d.fCubeful)
      /\ p[6] = Flag(c.nPlies > 0 /\ c.fUsePrune) /\ q[6] = Flag(d.nPlies > 0 /\ d.fUsePrune)
  BY PlyField
<1> HIDE DEF m, p, q, r, s
<1>9. \A i \in Bits : (i < 7 => p[i] = q[i]) /\ (i >= 7 => r[i] = s[i])
  <2>1. \A i \in Bits : /\ m[i] \in {0, 1} /\ p[i] \in {0, 1} /\ q[i] \in {0, 1}
                        /\ r[i] \in {0, 1} /\ s[i] \in {0, 1}
    BY <1>4, <1>6
  <2>2. QED
    BY <1>5, <1>7, <2>1
<1>10. \A i \in 0..6 : p[i] = q[i]
  BY <1>9 DEF Bits
<1>11. c.nPlies = d.nPlies
  <2>1. \A i \in 0..3 : Bit(c.nPlies, i) = Bit(d.nPlies, i)
    BY <1>8, <1>10
  <2>2. QED
    BY <1>2, <2>1, SameBits
<1>12. Flag(c.fCubeful) = Flag(d.fCubeful)
       /\ Flag(c.nPlies > 0 /\ c.fUsePrune) = Flag(d.nPlies > 0 /\ d.fUsePrune)
  BY <1>8, <1>10
<1>13. c.fCubeful = d.fCubeful
  BY <1>1, <1>2, <1>12
<1>14. (c.nPlies > 0 /\ c.fUsePrune) = (d.nPlies > 0 /\ d.fUsePrune)
  BY <1>1, <1>12
<1>15. Static(c) = Static(d)
  BY <1>3, <1>11 DEF Static
<1>16. ASSUME ~Static(c) PROVE \A i \in Bits : i >= 7 => RuleBits(c)[i] = RuleBits(d)[i]
  <2>1. r = RuleBits(c) /\ s = RuleBits(d)
    BY <1>15, <1>16 DEF r, s, Rules
  <2>2. QED
    BY <1>9, <2>1
<1>17. QED
  BY <1>3, <1>11, <1>13, <1>14, <1>15, <1>16

(* The owner of the cube, from its number. *)
LEMMA SameOwner ==
    ASSUME NEW c, LegalContext(c), NEW d, LegalContext(d),
           Bit(Owner(c), 0) = Bit(Owner(d), 0), Bit(Owner(c), 1) = Bit(Owner(d), 1)
    PROVE  /\ (c.fCubeOwner = -1) = (d.fCubeOwner = -1)
           /\ (c.fCubeOwner = c.fMove) = (d.fCubeOwner = d.fMove)
<1>1. Owner(c) \in Nat /\ Owner(c) < 4 /\ Owner(d) \in Nat /\ Owner(d) < 4
  BY CubeField
<1>2. \A j \in 0..1 : Bit(Owner(c), j) = Bit(Owner(d), j)
  OBVIOUS
<1>3. Owner(c) = Owner(d)
  BY <1>1, <1>2, SameBits
<1>4. /\ c.fCubeOwner \in -1..1 /\ c.fMove \in 0..1 /\ d.fCubeOwner \in -1..1 /\ d.fMove \in 0..1
  BY DEF LegalContext
<1>5. QED
  BY <1>3, <1>4 DEF Owner, Flag

(* In two matches the same bits mean the same stakes. *)
LEMMA SameMatch ==
    ASSUME NEW c, LegalContext(c), NEW d, LegalContext(d), c.nMatchTo > 0, d.nMatchTo > 0,
           \A i \in Bits : i >= 7 => RuleBits(c)[i] = RuleBits(d)[i]
    PROVE  Stakes(c) = Stakes(d)
<1> DEFINE p == MatchBits(c)
           q == MatchBits(d)
<1>1. RuleBits(c) = p /\ RuleBits(d) = q
  BY DEF RuleBits
<1>2. \A j \in 0..20 : 7 + j \in Bits /\ 7 + j >= 7
  BY DEF Bits
<1>3. \A j \in 0..20 : p[7 + j] = q[7 + j]
  BY <1>1, <1>2
<1>4. /\ Away(c, c.fMove) \in Nat /\ Away(c, c.fMove) < 64
      /\ Away(c, 1 - c.fMove) \in Nat /\ Away(c, 1 - c.fMove) < 64
      /\ LogCube(c.nCube) \in Nat /\ LogCube(c.nCube) < 16 /\ c.nCube = 2^LogCube(c.nCube)
      /\ \A j \in 0..5 : p[7 + j] = Bit(Away(c, c.fMove), j)
      /\ \A j \in 0..5 : p[13 + j] = Bit(Away(c, 1 - c.fMove), j)
      /\ \A j \in 0..3 : p[19 + j] = Bit(LogCube(c.nCube), j)
      /\ p[23] = Bit(Owner(c), 0) /\ p[24] = Bit(Owner(c), 1) /\ p[25] = Flag(c.fCrawford)
  BY MatchField
<1>5. /\ Away(d, d.fMove) \in Nat /\ Away(d, d.fMove) < 64
      /\ Away(d, 1 - d.fMove) \in Nat /\ Away(d, 1 - d.fMove) < 64
      /\ LogCube(d.nCube) \in Nat /\ LogCube(d.nCube) < 16 /\ d.nCube = 2^LogCube(d.nCube)
      /\ \A j \in 0..5 : q[7 + j] = Bit(Away(d, d.fMove), j)
      /\ \A j \in 0..5 : q[13 + j] = Bit(Away(d, 1 - d.fMove), j)
      /\ \A j \in 0..3 : q[19 + j] = Bit(LogCube(d.nCube), j)
      /\ q[23] = Bit(Owner(d), 0) /\ q[24] = Bit(Owner(d), 1) /\ q[25] = Flag(d.fCrawford)
  BY MatchField
<1> HIDE DEF p, q
<1>6. \A j \in 0..5 : p[13 + j] = q[13 + j]
  <2>1. \A j \in 0..5 : 6 + j \in 0..20 /\ 7 + (6 + j) = 13 + j
    OBVIOUS
  <2>2. QED
    BY <1>3, <2>1
<1>7. \A j \in 0..3 : p[19 + j] = q[19 + j]
  <2>1. \A j \in 0..3 : 12 + j \in 0..20 /\ 7 + (12 + j) = 19 + j
    OBVIOUS
  <2>2. QED
    BY <1>3, <2>1
<1>8. p[23] = q[23] /\ p[24] = q[24] /\ p[25] = q[25]
  <2>1. /\ 16 \in 0..20 /\ 7 + 16 = 23 /\ 17 \in 0..20 /\ 7 + 17 = 24
        /\ 18 \in 0..20 /\ 7 + 18 = 25
    OBVIOUS
  <2>2. QED
    BY <1>3, <2>1
<1>9. Away(c, c.fMove) = Away(d, d.fMove)
  <2>1. \A j \in 0..5 : Bit(Away(c, c.fMove), j) = Bit(Away(d, d.fMove), j)
    <3>1. \A j \in 0..5 : j \in 0..20
      OBVIOUS
    <3>2. QED
      BY <1>3, <1>4, <1>5, <3>1
  <2>2. QED
    BY <1>4, <1>5, <2>1, SameBits
<1>10. Away(c, 1 - c.fMove) = Away(d, 1 - d.fMove)
  <2>1. \A j \in 0..5 : Bit(Away(c, 1 - c.fMove), j) = Bit(Away(d, 1 - d.fMove), j)
    BY <1>4, <1>5, <1>6
  <2>2. QED
    BY <1>4, <1>5, <2>1, SameBits
<1>11. c.nCube = d.nCube
  <2>1. \A j \in 0..3 : Bit(LogCube(c.nCube), j) = Bit(LogCube(d.nCube), j)
    BY <1>4, <1>5, <1>7
  <2>2. LogCube(c.nCube) = LogCube(d.nCube)
    BY <1>4, <1>5, <2>1, SameBits
  <2>3. QED
    BY <1>4, <1>5, <2>2
<1>12. /\ (c.fCubeOwner = -1) = (d.fCubeOwner = -1)
       /\ (c.fCubeOwner = c.fMove) = (d.fCubeOwner = d.fMove)
  BY <1>4, <1>5, <1>8, SameOwner
<1>13. c.fCrawford = d.fCrawford
  <2>1. c.fCrawford \in BOOLEAN /\ d.fCrawford \in BOOLEAN
    BY DEF LegalContext
  <2>2. QED
    BY <1>4, <1>5, <1>8, <2>1 DEF Flag
<1>14. /\ c.nMatchTo - c.anScore[c.fMove] = d.nMatchTo - d.anScore[d.fMove]
       /\ c.nMatchTo - c.anScore[1 - c.fMove] = d.nMatchTo - d.anScore[1 - d.fMove]
  <2>1. /\ c.nMatchTo \in Int /\ d.nMatchTo \in Int
        /\ c.anScore[c.fMove] \in Int /\ c.anScore[1 - c.fMove] \in Int
        /\ d.anScore[d.fMove] \in Int /\ d.anScore[1 - d.fMove] \in Int
    <3>1. /\ c.nMatchTo \in 0..64 /\ c.fMove \in 0..1 /\ c.anScore \in [0..1 -> Nat]
          /\ d.nMatchTo \in 0..64 /\ d.fMove \in 0..1 /\ d.anScore \in [0..1 -> Nat]
      BY DEF LegalContext
    <3>2. 1 - c.fMove \in 0..1 /\ 1 - d.fMove \in 0..1
      BY <3>1
    <3>3. QED
      BY <3>1, <3>2
  <2> DEFINE a == c.anScore[c.fMove]
             b == c.anScore[1 - c.fMove]
             e == d.anScore[d.fMove]
             f == d.anScore[1 - d.fMove]
             m == c.nMatchTo
             n == d.nMatchTo
  <2>2. m - a - 1 = n - e - 1 /\ m - b - 1 = n - f - 1
    BY <1>9, <1>10 DEF Away
  <2> HIDE DEF a, b, e, f, m, n
  <2>3. m - a = n - e /\ m - b = n - f
    BY <2>1, <2>2 DEF a, b, e, f, m, n
  <2>4. QED
    BY <2>3 DEF a, b, e, f, m, n
<1>15. QED
  BY <1>11, <1>12, <1>13, <1>14 DEF Stakes

(* In two sessions too. *)
LEMMA SameMoney ==
    ASSUME NEW c, LegalContext(c), NEW d, LegalContext(d),
           ~(c.nMatchTo > 0), ~(d.nMatchTo > 0),
           c.fCubeful = d.fCubeful, c.fCubefulEquity = d.fCubefulEquity,
           \A i \in Bits : i >= 7 => RuleBits(c)[i] = RuleBits(d)[i]
    PROVE  Stakes(c) = Stakes(d)
<1>1. CASE ~(c.fCubeful \/ c.fCubefulEquity)
  BY <1>1 DEF Stakes
<1>2. CASE c.fCubeful \/ c.fCubefulEquity
  <2>1. RuleBits(c) = MoneyBits(c) /\ RuleBits(d) = MoneyBits(d)
    BY <1>2 DEF RuleBits
  <2>2. /\ 23 \in Bits /\ 23 >= 7 /\ 24 \in Bits /\ 24 >= 7
        /\ 26 \in Bits /\ 26 >= 7 /\ 27 \in Bits /\ 27 >= 7
    BY DEF Bits
  <2>3. /\ MoneyBits(c)[23] = MoneyBits(d)[23] /\ MoneyBits(c)[24] = MoneyBits(d)[24]
        /\ MoneyBits(c)[26] = MoneyBits(d)[26] /\ MoneyBits(c)[27] = MoneyBits(d)[27]
    BY <2>1, <2>2
  <2>4. /\ Bit(Owner(c), 0) = Bit(Owner(d), 0) /\ Bit(Owner(c), 1) = Bit(Owner(d), 1)
        /\ Flag(c.fJacoby) = Flag(d.fJacoby) /\ Flag(c.fBeavers) = Flag(d.fBeavers)
    BY <2>3, MoneyField
  <2>5. /\ (c.fCubeOwner = -1) = (d.fCubeOwner = -1)
        /\ (c.fCubeOwner = c.fMove) = (d.fCubeOwner = d.fMove)
    BY <2>4, SameOwner
  <2>6. c.fJacoby = d.fJacoby /\ c.fBeavers = d.fBeavers
    <3>1. /\ c.fJacoby \in BOOLEAN /\ d.fJacoby \in BOOLEAN
          /\ c.fBeavers \in BOOLEAN /\ d.fBeavers \in BOOLEAN
      BY DEF LegalContext
    <3>2. QED
      BY <2>4, <3>1 DEF Flag
  <2>7. QED
    BY <1>2, <2>5, <2>6 DEF Stakes
<1>3. QED
  BY <1>1, <1>2

(* The bits of a match are those of a session only in the last game, with the
   cube at 1, and without the rules of a session. *)
LEMMA OneException ==
    ASSUME NEW c, LegalContext(c), NEW d, LegalContext(d),
           c.nMatchTo > 0, ~(d.nMatchTo > 0),
           \A i \in Bits : i >= 7 => RuleBits(c)[i] = RuleBits(d)[i]
    PROVE  LastGame(c) /\ NoRules(d)
<1> DEFINE p == MatchBits(c)
           r == RuleBits(d)
<1>1. RuleBits(c) = p
  BY DEF RuleBits
<1>2. \A i \in Bits : i >= 7 => p[i] = r[i]
  BY <1>1
<1>3. /\ Away(c, c.fMove) \in Nat /\ Away(c, c.fMove) < 64
      /\ Away(c, 1 - c.fMove) \in Nat /\ Away(c, 1 - c.fMove) < 64
      /\ LogCube(c.nCube) \in Nat /\ LogCube(c.nCube) < 16 /\ c.nCube = 2^LogCube(c.nCube)
      /\ \A j \in 0..5 : p[7 + j] = Bit(Away(c, c.fMove), j)
      /\ \A j \in 0..5 : p[13 + j] = Bit(Away(c, 1 - c.fMove), j)
      /\ \A j \in 0..3 : p[19 + j] = Bit(LogCube(c.nCube), j)
      /\ p[25] = Flag(c.fCrawford)
      /\ \A i \in Bits : i < 7 \/ i >= 26 => p[i] = 0
  BY MatchField
<1>4. /\ \A i \in Bits : i < 23 => r[i] = 0
      /\ r[25] = 0
      /\ (d.fCubeful \/ d.fCubefulEquity) => r[26] = Flag(d.fJacoby) /\ r[27] = Flag(d.fBeavers)
  <2>1. CASE d.fCubeful \/ d.fCubefulEquity
    <3>1. r = MoneyBits(d)
      BY <2>1 DEF RuleBits
    <3>2. /\ \A i \in Bits : i < 23 => MoneyBits(d)[i] = 0
          /\ MoneyBits(d)[26] = Flag(d.fJacoby) /\ MoneyBits(d)[27] = Flag(d.fBeavers)
          /\ \A i \in Bits : i = 25 => MoneyBits(d)[i] = 0
      BY MoneyField
    <3>3. 25 \in Bits
      BY DEF Bits
    <3>4. MoneyBits(d)[25] = 0
      BY <3>2, <3>3
    <3>5. QED
      BY <3>1, <3>2, <3>4
  <2>2. CASE ~(d.fCubeful \/ d.fCubefulEquity)
    <3>1. r = Shl(0, 0)
      BY <2>2 DEF RuleBits
    <3>2. 25 \in Bits
      BY DEF Bits
    <3>3. \A i \in Bits : r[i] = 0
      BY <3>1, Zero
    <3>4. QED
      BY <2>2, <3>2, <3>3
  <2>3. QED
    BY <2>1, <2>2
<1> HIDE DEF p, r
<1>5. ASSUME NEW j \in 0..15 PROVE p[7 + j] = 0
  <2>1. 7 + j \in Bits /\ 7 + j >= 7 /\ 7 + j < 23
    BY DEF Bits
  <2>2. QED
    BY <1>2, <1>4, <2>1
<1>6. \A j \in 0..5 : Bit(0, j) = 0
  <2>1. ASSUME NEW j \in 0..5 PROVE Bit(0, j) = 0
    <3>1. j \in 0..30 /\ 0 \in Nat
      OBVIOUS
    <3>2. 2^j \in Nat /\ 2^j > 0
      BY <3>1, PowersOfTwo
    <3>3. 0 < 2^j
      BY <3>2
    <3>4. QED
      BY <3>1, <3>3, Bit01
  <2>2. QED
    BY <2>1
<1>7. Away(c, c.fMove) = 0
  <2>1. \A j \in 0..5 : j \in 0..15
    OBVIOUS
  <2>2. \A j \in 0..5 : Bit(Away(c, c.fMove), j) = Bit(0, j)
    BY <1>3, <1>5, <1>6, <2>1
  <2>3. QED
    BY <1>3, <2>2, SameBits
<1>8. Away(c, 1 - c.fMove) = 0
  <2>1. \A j \in 0..5 : 6 + j \in 0..15 /\ 7 + (6 + j) = 13 + j
    OBVIOUS
  <2>2. \A j \in 0..5 : p[13 + j] = 0
    BY <1>5, <2>1
  <2>3. \A j \in 0..5 : Bit(Away(c, 1 - c.fMove), j) = Bit(0, j)
    BY <1>3, <1>6, <2>2
  <2>4. QED
    BY <1>3, <2>3, SameBits
<1>9. c.nCube = 1
  <2>1. \A j \in 0..3 : 12 + j \in 0..15 /\ 7 + (12 + j) = 19 + j /\ j \in 0..5
    OBVIOUS
  <2>2. \A j \in 0..3 : p[19 + j] = 0
    BY <1>5, <2>1
  <2>3. \A j \in 0..3 : Bit(LogCube(c.nCube), j) = Bit(0, j)
    BY <1>3, <1>6, <2>1, <2>2
  <2>4. LogCube(c.nCube) = 0
    BY <1>3, <2>3, SameBits
  <2>5. c.nCube = 2^0
    BY <1>3, <2>4
  <2>6. QED
    BY <2>5
<1>10. ~c.fCrawford
  <2>1. 25 \in Bits /\ 25 >= 7
    BY DEF Bits
  <2>2. p[25] = r[25]
    BY <1>2, <2>1
  <2>3. QED
    BY <1>3, <1>4, <2>2 DEF Flag
<1>11. LastGame(c)
  <2>1. /\ c.nMatchTo \in 0..64 /\ c.fMove \in 0..1 /\ c.anScore \in [0..1 -> Nat]
    BY DEF LegalContext
  <2>2. \A k \in 0..1 : k = c.fMove \/ k = 1 - c.fMove
    BY <2>1
  <2>3. \A k \in 0..1 : c.nMatchTo - c.anScore[k] - 1 = 0
    BY <1>7, <1>8, <2>2 DEF Away
  <2>4. ASSUME NEW k \in 0..1 PROVE c.anScore[k] = c.nMatchTo - 1
    <3> DEFINE u == c.anScore[k]
               n == c.nMatchTo
    <3>1. u \in Int /\ n \in Int /\ n - u - 1 = 0
      BY <2>1, <2>3
    <3> HIDE DEF u, n
    <3>2. u = n - 1
      BY <3>1
    <3>3. QED
      BY <3>2 DEF u, n
  <2>5. QED
    BY <1>9, <1>10, <2>4 DEF LastGame
<1>12. NoRules(d)
  <2>1. d.nMatchTo = 0
    BY DEF LegalContext
  <2>2. 26 \in Bits /\ 26 >= 7 /\ 26 >= 26 /\ 27 \in Bits /\ 27 >= 7 /\ 27 >= 26
    BY DEF Bits
  <2>3. r[26] = 0 /\ r[27] = 0
    BY <1>2, <1>3, <2>2
  <2>4. d.fCubeful \/ d.fCubefulEquity => ~d.fJacoby /\ ~d.fBeavers
    BY <1>4, <2>3 DEF Flag
  <2>5. QED
    BY <2>1, <2>4 DEF NoRules
<1>13. QED
  BY <1>11, <1>12

(* Contexts that share a packed key ask the same question. *)
LEMMA SameQuestion ==
    ASSUME NoMixing, NEW c \in Contexts, NEW d \in Contexts, Packed[c] = Packed[d],
           NEW pos, NEW t, NEW v
    PROVE  What(pos, c, t, v) = What(pos, d, t, v)
<1>1. LegalContext(c) /\ LegalContext(d) /\ EvalKey(c) = EvalKey(d)
  BY ContextsAssumption DEF Packed
<1>2. /\ c.fCubefulEquity = d.fCubefulEquity /\ c.nPlies = d.nPlies
      /\ c.fCubeful = d.fCubeful
      /\ (c.nPlies > 0 /\ c.fUsePrune) = (d.nPlies > 0 /\ d.fUsePrune)
      /\ Static(c) = Static(d)
      /\ ~Static(c) => \A i \in Bits : i >= 7 => RuleBits(c)[i] = RuleBits(d)[i]
  BY <1>1, SameKey
<1>3. CASE Static(c)
  BY <1>2, <1>3 DEF What
<1>4. CASE ~Static(c)
  <2>1. /\ \A i \in Bits : i >= 7 => RuleBits(c)[i] = RuleBits(d)[i]
        /\ \A i \in Bits : i >= 7 => RuleBits(d)[i] = RuleBits(c)[i]
        /\ ~Static(d)
    BY <1>2, <1>4
  <2>2. (c.nMatchTo > 0) = (d.nMatchTo > 0)
    <3>1. ~(c.nMatchTo > 0 /\ ~(d.nMatchTo > 0))
      BY <1>1, <1>4, <2>1, OneException DEF NoMixing
    <3>2. ~(d.nMatchTo > 0 /\ ~(c.nMatchTo > 0))
      BY <1>1, <1>4, <2>1, OneException DEF NoMixing
    <3>3. QED
      BY <3>1, <3>2
  <2>3. Stakes(c) = Stakes(d)
    <3>1. CASE c.nMatchTo > 0
      BY <1>1, <2>1, <2>2, <3>1, SameMatch
    <3>2. CASE ~(c.nMatchTo > 0)
      BY <1>1, <1>2, <2>1, <2>2, <3>2, SameMoney
    <3>3. QED
      BY <3>1, <3>2
  <2>4. QED
    BY <1>2, <1>4, <2>1, <2>2, <2>3 DEF What
<1>5. QED
  BY <1>3, <1>4

-----------------------------------------------------------------------------
(* The invariant. *)

Node(pos, c, m, t, v, x) ==
    [key |-> pos, nEvalContext |-> Packed[c], ar |-> Value(pos, c, m, t, v, x)]

Nodes(t) ==
    {Empty} \cup {Node(pos, c, m, t, v, x) : pos \in Positions, c \in Contexts,
                   m \in Contexts, v \in Variations, x \in Efficiencies}

(* A cache whose buckets the mask names, filled under table t. *)
Holds(pc, t) ==
    /\ pc = [size |-> pc.size, hashMask |-> pc.hashMask, entries |-> pc.entries]
    /\ pc.size \in Nat /\ pc.size # 1
    /\ pc.hashMask = pc.size \div 2 - 1
    /\ pc.entries \in [0..pc.hashMask -> Nodes(t) \X Nodes(t)]

(* The cube positions of a request are evaluated as the one that moves are
   chosen for. *)
CubePos == Contexts \cup {Unavailable}

Alike(aci, m) ==
    \A k \in 1..Len(aci) :
        aci[k] \in Contexts =>
            aci[k].nPlies = m.nPlies /\ aci[k].fCubefulEquity = m.fCubefulEquity

Good(q) ==
    q.aci \in Seq(CubePos) /\ q.pciMove \in Contexts /\ q.fTop \in BOOLEAN
    /\ Alike(q.aci, q.pciMove)

Calls == {e \in [pos : Positions, aci : Seq(CubePos), pciMove : Contexts, fTop : BOOLEAN] :
              Alike(e.aci, e.pciMove)}

CacheInv ==
    /\ Holds(cEval, met) /\ cCache = cEval.size
    /\ met \in Tables /\ rCubeX \in Efficiencies /\ bgv \in Variations
    /\ calls \in Seq(Calls)

-----------------------------------------------------------------------------
(* cache.c. *)

(* Rounding gives a number of entries that is not less than asked for. *)
LEMMA RoundedUp ==
    ASSUME NEW s \in 0..2^30
    PROVE  Rounded(s) \in Nat /\ s <= Rounded(s) /\ (s = 0 => Rounded(s) = 0)
<1>1. CASE s = 0
  BY <1>1 DEF Rounded
<1>2. CASE s # 0
  <2> DEFINE P == {2^i : i \in 0..30}
  <2>1. /\ 2^0 = 1 /\ 2^1 = 2 /\ 2^2 = 4 /\ 2^3 = 8 /\ 2^4 = 16 /\ 2^5 = 32
        /\ 2^6 = 64 /\ 2^7 = 128 /\ 2^8 = 256 /\ 2^9 = 512 /\ 2^10 = 1024
        /\ 2^11 = 2048 /\ 2^12 = 4096 /\ 2^13 = 8192 /\ 2^14 = 16384
        /\ 2^15 = 32768 /\ 2^16 = 65536 /\ 2^17 = 131072 /\ 2^18 = 262144
        /\ 2^19 = 524288 /\ 2^20 = 1048576 /\ 2^21 = 2097152
        /\ 2^22 = 4194304 /\ 2^23 = 8388608 /\ 2^24 = 16777216
        /\ 2^25 = 33554432 /\ 2^26 = 67108864 /\ 2^27 = 134217728
        /\ 2^28 = 268435456 /\ 2^29 = 536870912 /\ 2^30 = 1073741824
    OBVIOUS
  <2>2. /\ 1 \in P /\ 2 \in P /\ 4 \in P /\ 8 \in P /\ 16 \in P /\ 32 \in P
        /\ 64 \in P /\ 128 \in P /\ 256 \in P /\ 512 \in P /\ 1024 \in P
        /\ 2048 \in P /\ 4096 \in P /\ 8192 \in P /\ 16384 \in P
        /\ 32768 \in P /\ 65536 \in P /\ 131072 \in P /\ 262144 \in P
        /\ 524288 \in P /\ 1048576 \in P /\ 2097152 \in P /\ 4194304 \in P
        /\ 8388608 \in P /\ 16777216 \in P /\ 33554432 \in P
        /\ 67108864 \in P /\ 134217728 \in P /\ 268435456 \in P
        /\ 536870912 \in P /\ 1073741824 \in P
    BY <2>1
  <2> HIDE DEF P
  <2>3. \E p \in P : p \in Nat /\ s <= p /\ p < 2 * s
    <3>1. CASE s <= 1024
      BY <1>2, <2>2, <3>1
    <3>2. CASE s > 1024 /\ s <= 1048576
      BY <1>2, <2>2, <3>2
    <3>3. CASE s > 1048576
      BY <1>2, <2>1, <2>2, <3>3
    <3>4. QED
      BY <1>2, <3>1, <3>2, <3>3
  <2>4. P \subseteq Nat
    BY <2>1 DEF P
  <2>5. Rounded(s) = CHOOSE p \in P : s <= p /\ p < 2 * s
    BY <1>2 DEF Rounded, P
  <2>6. Rounded(s) \in P /\ s <= Rounded(s)
    BY <2>3, <2>5
  <2>7. QED
    BY <1>2, <2>4, <2>6
<1>3. QED
  BY <1>1, <1>2

(* A new cache is empty. *)
LEMMA Created ==
    ASSUME NoSingleEntry, NEW s \in Sizes, NEW t
    PROVE  Holds(CacheCreate(s), t)
<1> DEFINE n == Rounded(s)
<1>1. n \in Nat /\ n # 1
  <2>1. s \in 0..2^30 /\ s # 1
    BY CacheAssumption DEF NoSingleEntry
  <2>2. n \in Nat /\ s <= n /\ (s = 0 => n = 0)
    BY <2>1, RoundedUp
  <2> HIDE DEF n
  <2>3. s = 0 \/ (s \in Nat /\ s >= 2)
    BY <2>1
  <2>4. QED
    BY <2>2, <2>3
<1>2. <<Empty, Empty>> \in Nodes(t) \X Nodes(t)
  BY DEF Nodes
<1> HIDE DEF n
<1>3. [l \in 0..(n \div 2) - 1 |-> <<Empty, Empty>>]
          \in [0..(n \div 2) - 1 -> Nodes(t) \X Nodes(t)]
  BY <1>2
<1>4. CacheCreate(s) =
          [size |-> n, hashMask |-> (n \div 2) - 1,
           entries |-> [l \in 0..(n \div 2) - 1 |-> <<Empty, Empty>>]]
  BY DEF CacheCreate, n
<1>5. QED
  BY <1>1, <1>3, <1>4 DEF Holds

(* A flushed cache is good for every table. *)
LEMMA Flushed ==
    ASSUME NEW pc, NEW t, NEW u, Holds(pc, t)
    PROVE  Holds(CacheFlush(pc), u) /\ CacheFlush(pc).size = pc.size
<1>1. <<Empty, Empty>> \in Nodes(u) \X Nodes(u)
  BY DEF Nodes
<1>2. DOMAIN pc.entries = 0..pc.hashMask
  BY DEF Holds
<1>3. [l \in DOMAIN pc.entries |-> <<Empty, Empty>>]
          \in [0..pc.hashMask -> Nodes(u) \X Nodes(u)]
  BY <1>1, <1>2
<1>4. /\ CacheFlush(pc) = [size |-> pc.size, hashMask |-> pc.hashMask,
                           entries |-> [l \in DOMAIN pc.entries |-> <<Empty, Empty>>]]
  BY DEF Holds, CacheFlush
<1>5. QED
  BY <1>3, <1>4 DEF Holds

(* The masked hash names a bucket. *)
LEMMA Hashed ==
    ASSUME NEW pc, NEW t, Holds(pc, t), pc.size # 0,
           NEW pos \in Positions, NEW c \in Contexts
    PROVE  GetHashKey(pc, pos, Packed[c]) \in 0..pc.hashMask
<1> DEFINE h == Hash[pos, Packed[c]]
           n == pc.hashMask + 1
<1>1. h \in Nat
  BY CacheAssumption
<1> DEFINE k == pc.size
<1>2. n \in Nat /\ n > 0 /\ pc.hashMask = n - 1 /\ pc.hashMask # -1
  <2>1. k \in Nat /\ k # 0 /\ k # 1 /\ pc.hashMask = k \div 2 - 1
    BY DEF Holds
  <2> HIDE DEF k
  <2>2. k >= 2
    BY <2>1
  <2>3. k \div 2 \in Nat /\ k \div 2 >= 1
    BY <2>1, <2>2
  <2>4. QED
    BY <2>1, <2>3
<1>3. GetHashKey(pc, pos, Packed[c]) = h % n
  BY <1>2 DEF GetHashKey
<1> HIDE DEF h, n
<1>4. h % n \in 0..(n - 1)
  BY <1>1, <1>2
<1>5. QED
  BY <1>2, <1>3, <1>4

(* Writing good nodes into a bucket keeps the cache good. *)
LEMMA Written ==
    ASSUME NEW pc, NEW t, Holds(pc, t), NEW l \in 0..pc.hashMask,
           NEW b \in Nodes(t) \X Nodes(t)
    PROVE  /\ Holds([pc EXCEPT !.entries[l] = b], t)
           /\ [pc EXCEPT !.entries[l] = b].size = pc.size
<1> DEFINE f == [pc.entries EXCEPT ![l] = b]
<1>1. f \in [0..pc.hashMask -> Nodes(t) \X Nodes(t)]
  BY DEF Holds
<1>2. [pc EXCEPT !.entries[l] = b]
          = [size |-> pc.size, hashMask |-> pc.hashMask, entries |-> f]
  <2> DEFINE a == pc.size
             m == pc.hashMask
             g == pc.entries
  <2>1. pc = [size |-> a, hashMask |-> m, entries |-> g]
    BY DEF Holds
  <2> HIDE DEF a, m, g
  <2>2. [pc EXCEPT !.entries[l] = b]
          = [size |-> a, hashMask |-> m, entries |-> [g EXCEPT ![l] = b]]
    BY <2>1
  <2>3. QED
    BY <2>2 DEF a, m, g
<1> HIDE DEF f
<1>3. QED
  BY <1>1, <1>2 DEF Holds

(* A node that is found in a bucket. *)
LEMMA Found ==
    ASSUME NEW t, NEW e \in Nodes(t), NEW pos, NEW ctx, Is(e, pos, ctx)
    PROVE  \E d \in Contexts, v \in Variations :
               pos \in Positions /\ Packed[d] = ctx /\ e.ar.what = What(pos, d, t, v)
<1>1. PICK p \in Positions, d \in Contexts, m \in Contexts, v \in Variations,
           x \in Efficiencies : e = Node(p, d, m, t, v, x)
  BY DEF Nodes, Is
<1>2. /\ e.key = p /\ e.nEvalContext = Packed[d] /\ e.ar = Value(p, d, m, t, v, x)
  BY <1>1 DEF Node
<1>3. e.ar.what = What(p, d, t, v)
  BY <1>2 DEF Value
<1>4. QED
  BY <1>2, <1>3 DEF Is

(* A lookup keeps the cache good, and what it finds was computed for a context
   with the same packed key. *)
LEMMA LookedUp ==
    ASSUME NEW pc, NEW t, Holds(pc, t), pc.size # 0,
           NEW pos \in Positions, NEW c \in Contexts
    PROVE  LET r == CacheLookup(pc, pos, Packed[c])
           IN  /\ r.hit \in BOOLEAN
               /\ Holds(r.cache, t) /\ r.cache.size = pc.size
               /\ r.hit => \E d \in Contexts, v \in Variations :
                       Packed[d] = Packed[c] /\ r.ar.what = What(pos, d, t, v)
<1> DEFINE ctx == Packed[c]
           l == GetHashKey(pc, pos, ctx)
           b == pc.entries[l]
           r == CacheLookup(pc, pos, ctx)
<1>1. l \in 0..pc.hashMask
  BY Hashed
<1>2. b \in Nodes(t) \X Nodes(t)
  BY <1>1 DEF Holds
<1>3. b[1] \in Nodes(t) /\ b[2] \in Nodes(t) /\ <<b[2], b[1]>> \in Nodes(t) \X Nodes(t)
  BY <1>2
<1>4. CASE Is(b[1], pos, ctx)
  <2>1. r = [hit |-> TRUE, ar |-> b[1].ar, cache |-> pc]
    BY <1>4 DEF CacheLookup
  <2>2. \E d \in Contexts, v \in Variations :
            Packed[d] = ctx /\ b[1].ar.what = What(pos, d, t, v)
    BY <1>3, <1>4, Found
  <2> HIDE DEF r, b, l, ctx
  <2>3. QED
    BY <2>1, <2>2 DEF r, ctx
<1>5. CASE ~Is(b[1], pos, ctx) /\ Is(b[2], pos, ctx)
  <2> DEFINE q == [pc EXCEPT !.entries[l] = <<b[2], b[1]>>]
  <2>1. r = [hit |-> TRUE, ar |-> b[2].ar, cache |-> q]
    BY <1>5 DEF CacheLookup
  <2>2. \E d \in Contexts, v \in Variations :
            Packed[d] = ctx /\ b[2].ar.what = What(pos, d, t, v)
    BY <1>3, <1>5, Found
  <2> HIDE DEF r, b, l, ctx
  <2>3. Holds(q, t) /\ q.size = pc.size
    BY <1>1, <1>3, Written
  <2> HIDE DEF q
  <2>4. QED
    BY <2>1, <2>2, <2>3 DEF r, ctx
<1>6. CASE ~Is(b[1], pos, ctx) /\ ~Is(b[2], pos, ctx)
  <2>1. r = [hit |-> FALSE, ar |-> <<>>, cache |-> pc]
    BY <1>6 DEF CacheLookup
  <2> HIDE DEF r, b, l, ctx
  <2>2. QED
    BY <2>1 DEF r, ctx
<1>7. QED
  BY <1>4, <1>5, <1>6

(* Adding what a context evaluates to keeps the cache good. *)
LEMMA Added ==
    ASSUME NEW pc, NEW t, Holds(pc, t), pc.size # 0,
           NEW pos \in Positions, NEW c \in Contexts, NEW m \in Contexts,
           NEW v \in Variations, NEW x \in Efficiencies
    PROVE  LET q == CacheAdd(pc, pos, Packed[c], Value(pos, c, m, t, v, x))
           IN  Holds(q, t) /\ q.size = pc.size
<1> DEFINE l == GetHashKey(pc, pos, Packed[c])
           b == pc.entries[l]
           n == Node(pos, c, m, t, v, x)
<1>1. l \in 0..pc.hashMask
  BY Hashed
<1>2. b[1] \in Nodes(t)
  BY <1>1 DEF Holds
<1>3. n \in Nodes(t)
  BY DEF Nodes
<1>4. <<n, b[1]>> \in Nodes(t) \X Nodes(t)
  BY <1>2, <1>3
<1>5. CacheAdd(pc, pos, Packed[c], Value(pos, c, m, t, v, x))
          = [pc EXCEPT !.entries[l] = <<n, b[1]>>]
  BY DEF CacheAdd, Node
<1> HIDE DEF l, b, n
<1>6. QED
  BY <1>1, <1>4, <1>5, Written

-----------------------------------------------------------------------------
(* Requests with several cube positions, by induction on these. *)

(* Contexts and the cube position that does not arise are told apart. *)
LEMMA Available ==
    ASSUME NEW c \in CubePos
    PROVE  /\ c \in Contexts => c.nCube \in Nat /\ c.nCube >= 0 /\ ~(c.nCube < 0)
           /\ c \notin Contexts => c = Unavailable /\ c.nCube < 0 /\ ~(c.nCube >= 0)
           /\ Unavailable \notin Contexts
<1>1. ASSUME NEW d \in Contexts PROVE d.nCube \in Nat
  BY <1>1, ContextsAssumption DEF LegalContext
<1>2. Unavailable.nCube = -1
  BY DEF Unavailable
<1>3. Unavailable \notin Contexts
  BY <1>1, <1>2
<1>4. c \notin Contexts => c = Unavailable
  BY DEF CubePos
<1>5. QED
  BY <1>1, <1>2, <1>3, <1>4

(* What is found and left behind after each of the lookups. *)
Looks(f, pc, pos, aci) ==
    /\ f[0] = [hit |-> TRUE, ar |-> <<>>, cache |-> pc]
    /\ \A k \in 1..Len(aci) :
          f[k] = IF f[k - 1].hit /\ aci[k].nCube >= 0
                 THEN CacheLookup(f[k - 1].cache, pos, Packed[aci[k]])
                 ELSE f[k - 1]

(* LookupAll looks the cube positions up one after the other. *)
LEMMA LookupAllDef ==
    ASSUME NEW pc, NEW pos, NEW aci, Len(aci) \in Nat
    PROVE  \E f : Looks(f, pc, pos, aci) /\ LookupAll(pc, pos, aci) = f[Len(aci)]
<1> DEFINE Start == [hit |-> TRUE, ar |-> <<>>, cache |-> pc]
           After(r, k) == IF r.hit /\ aci[k].nCube >= 0
                          THEN CacheLookup(r.cache, pos, Packed[aci[k]]) ELSE r
           Is0(f, n) == f = [k \in 0..n |-> IF k = 0 THEN Start ELSE After(f[k - 1], k)]
           S == {n \in Nat : \E f : Is0(f, n)}
<1> HIDE DEF Start, After
<1>1. 0 \in S
  <2> DEFINE g == [k \in 0..0 |-> Start]
  <2>1. g = [k \in 0..0 |-> IF k = 0 THEN Start ELSE After(g[k - 1], k)]
    OBVIOUS
  <2>2. QED
    BY <2>1
<1>2. ASSUME NEW n \in Nat, n \in S PROVE n + 1 \in S
  <2>1. PICK f : f = [k \in 0..n |-> IF k = 0 THEN Start ELSE After(f[k - 1], k)]
    BY <1>2
  <2> DEFINE g == [k \in 0..(n + 1) |-> IF k <= n THEN f[k] ELSE After(f[n], n + 1)]
  <2>2. \A k \in 0..(n + 1) : g[k] = IF k = 0 THEN Start ELSE After(g[k - 1], k)
    BY <2>1
  <2>3. g = [k \in 0..(n + 1) |-> IF k = 0 THEN Start ELSE After(g[k - 1], k)]
    BY <2>2
  <2> HIDE DEF g
  <2>4. QED
    BY <2>3
<1> HIDE DEF S
<1>3. Len(aci) \in S
  BY <1>1, <1>2, Induct
<1>4. \E f : Is0(f, Len(aci))
  BY <1>3 DEF S
<1> DEFINE h == CHOOSE f : Is0(f, Len(aci))
<1>5. Is0(h, Len(aci))
  BY <1>4
<1>6. LookupAll(pc, pos, aci) = h[Len(aci)]
  BY DEF LookupAll, Start, After
<1> HIDE DEF h
<1>7. h[0] = Start /\ \A k \in 1..Len(aci) : h[k] = After(h[k - 1], k)
  BY <1>5
<1>8. QED
  BY <1>6, <1>7 DEF Looks, Start, After

(* The lookups of a call keep the cache good. *)
LEMMA AllLookedUp ==
    ASSUME NEW pc, NEW t, Holds(pc, t), pc.size # 0,
           NEW pos \in Positions, NEW aci \in Seq(CubePos)
    PROVE  LET r == LookupAll(pc, pos, aci)
           IN  Holds(r.cache, t) /\ r.cache.size = pc.size
<1>1. PICK f : Looks(f, pc, pos, aci) /\ LookupAll(pc, pos, aci) = f[Len(aci)]
  BY LookupAllDef
<1> DEFINE Fine(r) == Holds(r.cache, t) /\ r.cache.size = pc.size
           S == {n \in Nat : n <= Len(aci) => Fine(f[n])}
<1>2. Len(aci) \in Nat /\ 0 <= Len(aci)
  OBVIOUS
<1>3. 0 \in S
  <2>1. f[0] = [hit |-> TRUE, ar |-> <<>>, cache |-> pc]
    BY <1>1 DEF Looks
  <2>2. QED
    BY <2>1
<1>4. ASSUME NEW n \in Nat, n \in S PROVE n + 1 \in S
  <2> SUFFICES ASSUME n + 1 <= Len(aci) PROVE Fine(f[n + 1])
    OBVIOUS
  <2>1. n + 1 \in 1..Len(aci) /\ (n + 1) - 1 = n /\ n <= Len(aci)
        /\ aci[n + 1] \in CubePos
    BY <1>2
  <2>2. f[n + 1] = IF f[n].hit /\ aci[n + 1].nCube >= 0
                   THEN CacheLookup(f[n].cache, pos, Packed[aci[n + 1]]) ELSE f[n]
    BY <1>1, <2>1 DEF Looks
  <2>3. Holds(f[n].cache, t) /\ f[n].cache.size = pc.size
    BY <1>4, <2>1
  <2>4. aci[n + 1] \in Contexts => Fine(CacheLookup(f[n].cache, pos, Packed[aci[n + 1]]))
    BY <2>1, <2>3, LookedUp
  <2>5. QED
    BY <2>1, <2>2, <2>3, <2>4, Available
<1> HIDE DEF S
<1>5. Len(aci) \in S
  BY <1>2, <1>3, <1>4, Induct
<1>6. QED
  BY <1>1, <1>2, <1>5 DEF S

(* AddAll adds the results one after the other. *)
LEMMA AddAllDef ==
    ASSUME NEW pc, NEW pos, NEW e, NEW t, NEW v, NEW x, Len(e.aci) \in Nat
    PROVE  \E f : /\ f[0] = pc
                  /\ \A k \in 1..Len(e.aci) :
                        f[k] = IF e.aci[k].nCube < 0 THEN f[k - 1]
                               ELSE CacheAdd(f[k - 1], pos, Packed[e.aci[k]],
                                             Value(pos, e.aci[k], e.pciMove, t, v, x))
                  /\ AddAll(pc, pos, e, t, v, x) = f[Len(e.aci)]
<1> DEFINE After(q, k) == IF e.aci[k].nCube < 0 THEN q
                          ELSE CacheAdd(q, pos, Packed[e.aci[k]],
                                        Value(pos, e.aci[k], e.pciMove, t, v, x))
           Is0(f, n) == f = [k \in 0..n |-> IF k = 0 THEN pc ELSE After(f[k - 1], k)]
           S == {n \in Nat : \E f : Is0(f, n)}
<1> HIDE DEF After
<1>1. 0 \in S
  <2> DEFINE g == [k \in 0..0 |-> pc]
  <2>1. g = [k \in 0..0 |-> IF k = 0 THEN pc ELSE After(g[k - 1], k)]
    OBVIOUS
  <2>2. QED
    BY <2>1
<1>2. ASSUME NEW n \in Nat, n \in S PROVE n + 1 \in S
  <2>1. PICK f : f = [k \in 0..n |-> IF k = 0 THEN pc ELSE After(f[k - 1], k)]
    BY <1>2
  <2> DEFINE g == [k \in 0..(n + 1) |-> IF k <= n THEN f[k] ELSE After(f[n], n + 1)]
  <2>2. \A k \in 0..(n + 1) : g[k] = IF k = 0 THEN pc ELSE After(g[k - 1], k)
    BY <2>1
  <2>3. g = [k \in 0..(n + 1) |-> IF k = 0 THEN pc ELSE After(g[k - 1], k)]
    BY <2>2
  <2> HIDE DEF g
  <2>4. QED
    BY <2>3
<1> HIDE DEF S
<1>3. Len(e.aci) \in S
  BY <1>1, <1>2, Induct
<1>4. \E f : Is0(f, Len(e.aci))
  BY <1>3 DEF S
<1> DEFINE h == CHOOSE f : Is0(f, Len(e.aci))
<1>5. Is0(h, Len(e.aci))
  BY <1>4
<1>6. AddAll(pc, pos, e, t, v, x) = h[Len(e.aci)]
  BY DEF AddAll, After
<1> HIDE DEF h
<1>7. h[0] = pc /\ \A k \in 1..Len(e.aci) : h[k] = After(h[k - 1], k)
  <2> DEFINE n == Len(e.aci)
  <2>1. n \in Nat /\ h = [k \in 0..n |-> IF k = 0 THEN pc ELSE After(h[k - 1], k)]
    BY <1>5
  <2> HIDE DEF n
  <2>2. h[0] = pc /\ \A k \in 1..n : h[k] = After(h[k - 1], k)
    BY <2>1
  <2>3. QED
    BY <2>2 DEF n
<1>8. QED
  BY <1>6, <1>7 DEF After

(* The results of an evaluation keep the cache good. *)
LEMMA AllAdded ==
    ASSUME NEW pc, NEW t, Holds(pc, t), pc.size # 0, NEW e \in Calls,
           NEW v \in Variations, NEW x \in Efficiencies
    PROVE  LET q == AddAll(pc, e.pos, e, t, v, x)
           IN  Holds(q, t) /\ q.size = pc.size
<1> DEFINE pos == e.pos
           aci == e.aci
           m == e.pciMove
<1>1. pos \in Positions /\ aci \in Seq(CubePos) /\ m \in Contexts
  BY DEF Calls
<1>2. Len(aci) \in Nat /\ 0 <= Len(aci)
  BY <1>1
<1>3. PICK f :
          /\ f[0] = pc
          /\ \A k \in 1..Len(aci) :
                f[k] = IF aci[k].nCube < 0 THEN f[k - 1]
                       ELSE CacheAdd(f[k - 1], pos, Packed[aci[k]],
                                     Value(pos, aci[k], m, t, v, x))
          /\ AddAll(pc, pos, e, t, v, x) = f[Len(aci)]
  BY <1>2, AddAllDef
<1> HIDE DEF pos, aci, m
<1> DEFINE Fine(q) == Holds(q, t) /\ q.size = pc.size
           S == {n \in Nat : n <= Len(aci) => Fine(f[n])}
<1>4. 0 \in S
  BY <1>3
<1>5. ASSUME NEW n \in Nat, n \in S PROVE n + 1 \in S
  <2> SUFFICES ASSUME n + 1 <= Len(aci) PROVE Fine(f[n + 1])
    OBVIOUS
  <2>1. n + 1 \in 1..Len(aci) /\ (n + 1) - 1 = n /\ n <= Len(aci)
        /\ aci[n + 1] \in CubePos
    BY <1>1, <1>2
  <2>2. f[n + 1] = IF aci[n + 1].nCube < 0 THEN f[n]
                   ELSE CacheAdd(f[n], pos, Packed[aci[n + 1]],
                                 Value(pos, aci[n + 1], m, t, v, x))
    BY <1>3, <2>1
  <2>3. Holds(f[n], t) /\ f[n].size = pc.size
    BY <1>5, <2>1
  <2>4. aci[n + 1] \in Contexts =>
            Fine(CacheAdd(f[n], pos, Packed[aci[n + 1]], Value(pos, aci[n + 1], m, t, v, x)))
    BY <1>1, <2>3, Added
  <2>5. QED
    BY <2>1, <2>2, <2>3, <2>4, Available
<1> HIDE DEF S
<1>6. Len(aci) \in S
  BY <1>2, <1>4, <1>5, Induct
<1>7. QED
  BY <1>2, <1>3, <1>6 DEF S, pos, aci

-----------------------------------------------------------------------------
(* Requests. *)

(* The evaluation of a position by itself. *)
LEMMA SingleGood ==
    ASSUME NEW c \in Contexts
    PROVE  Good(Single(c))
<1> DEFINE s == <<c>>
<1>1. c \in CubePos
  BY DEF CubePos
<1>2. s \in Seq(CubePos) /\ Len(s) = 1 /\ s[1] = c
  BY <1>1
<1>3. Single(c) = [aci |-> s, pciMove |-> c, fTop |-> FALSE]
  BY DEF Single
<1> HIDE DEF s
<1>4. Alike(s, c)
  <2>1. \A k \in 1..Len(s) : s[k] = c
    BY <1>2
  <2>2. QED
    BY <2>1 DEF Alike
<1>5. QED
  BY <1>2, <1>3, <1>4 DEF Good

(* A cube decision. *)
LEMMA DecisionGood ==
    ASSUME NEW c \in Decisions
    PROVE  Good(CubeDecision(c))
<1> DEFINE d == Doubled(c)
           s == <<c, d>>
<1>1. c \in Contexts /\ d \in Contexts
  BY ContextsAssumption
<1>2. c \in CubePos /\ d \in CubePos
  BY <1>1 DEF CubePos
<1>3. d.nPlies = c.nPlies /\ d.fCubefulEquity = c.fCubefulEquity
  <2>1. LegalContext(c)
    BY <1>1, ContextsAssumption
  <2>2. QED
    BY <2>1 DEF Doubled, LegalContext
<1>4. CubeDecision(c) = [aci |-> s, pciMove |-> c, fTop |-> TRUE]
  BY DEF CubeDecision
<1> HIDE DEF d
<1>5. s \in Seq(CubePos) /\ Len(s) = 2 /\ s[1] = c /\ s[2] = d
  BY <1>2
<1> HIDE DEF s
<1>6. Alike(s, c)
  <2>1. \A k \in 1..Len(s) : s[k] = c \/ s[k] = d
    BY <1>5
  <2>2. QED
    BY <1>3, <2>1 DEF Alike
<1>7. QED
  BY <1>1, <1>4, <1>5, <1>6 DEF Good

(* A ply less, for the cube position after it. *)
LEMMA NextContext ==
    ASSUME NEW c \in Contexts, c.nPlies > 0
    PROVE  LET d == Shallower(Opponents(c))
               e == Shallower(Opponents(Doubled(c)))
           IN  /\ d \in Contexts /\ d.nPlies = c.nPlies - 1
               /\ d.fCubefulEquity = c.fCubefulEquity
               /\ c.fCubefulEquity /\ GetDPEq(c) =>
                      /\ e \in Contexts /\ e.nPlies = c.nPlies - 1
                      /\ e.fCubefulEquity = c.fCubefulEquity
<1>1. LegalContext(c) /\ Below(c) \subseteq Contexts
  BY ContextsAssumption
<1>2. /\ Shallower(Opponents(c)) \in Contexts
      /\ c.fCubefulEquity /\ GetDPEq(c) => Shallower(Opponents(Doubled(c))) \in Contexts
  BY <1>1 DEF Below
<1> DEFINE T == [nPlies : 0..15, fCubeful : BOOLEAN, fUsePrune : BOOLEAN,
                 fCubefulEquity : BOOLEAN, fMove : 0..1, nMatchTo : 0..64,
                 anScore : [0..1 -> Nat], nCube : Nat, fCubeOwner : -1..1,
                 fCrawford : BOOLEAN, fJacoby : BOOLEAN, fBeavers : BOOLEAN]
<1>3. c \in T
  BY <1>1 DEF LegalContext
<1>4. \A e \in T : /\ Opponents(e) \in T
                   /\ Opponents(e).nPlies = e.nPlies /\ Opponents(e).nCube = e.nCube
                   /\ Opponents(e).fCubefulEquity = e.fCubefulEquity
  BY DEF Opponents
<1>5. /\ Doubled(c) \in T /\ Doubled(c).nPlies = c.nPlies
      /\ Doubled(c).fCubefulEquity = c.fCubefulEquity
  <2> DEFINE a == 2 * c.nCube
             b == 1 - c.fMove
  <2>1. a \in Nat /\ b \in -1..1
    BY <1>3
  <2>2. Doubled(c) = [c EXCEPT !.nCube = a, !.fCubeOwner = b]
    BY <1>3 DEF Doubled
  <2> HIDE DEF a, b
  <2>3. QED
    BY <1>3, <2>1, <2>2
<1>6. \A e \in T : /\ Shallower(e).nPlies = e.nPlies - 1
                   /\ Shallower(e).fCubefulEquity = e.fCubefulEquity
  BY DEF Shallower
<1>7. QED
  <2> HIDE DEF T
  <2>1. QED
    BY <1>2, <1>3, <1>4, <1>5, <1>6

(* The positions of the next ply. *)
LEMMA NextPlyGood ==
    ASSUME NEW e \in Calls, e.pciMove.nPlies > 0
    PROVE  Good(NextPly(e))
<1> DEFINE m == e.pciMove
           d == Shallower(Opponents(m))
           aci == e.aci
           mcp == MakeCubePos(aci, e.fTop)
           s == [i \in DOMAIN mcp |-> Shallower(mcp[i])]
<1>1. m \in Contexts /\ aci \in Seq(CubePos) /\ Alike(aci, m) /\ e.fTop \in BOOLEAN
  BY DEF Calls
<1>2. d \in Contexts /\ d.nPlies = m.nPlies - 1 /\ d.fCubefulEquity = m.fCubefulEquity
  BY <1>1, NextContext
<1>3. NextPly(e) = IF m.fCubefulEquity THEN [aci |-> s, pciMove |-> d, fTop |-> FALSE]
                   ELSE Single(d)
  BY DEF NextPly
<1>4. CASE ~m.fCubefulEquity
  BY <1>2, <1>3, <1>4, SingleGood
<1>5. CASE m.fCubefulEquity
  <2> DEFINE n == 2 * Len(aci)
  <2>1. n \in Nat /\ Len(aci) \in Nat
    BY <1>1
  <2>2. DOMAIN mcp = 1..n
    BY DEF MakeCubePos
  <2>3. ASSUME NEW i \in 1..n
        PROVE  \/ s[i] = Unavailable
               \/ /\ s[i] \in Contexts /\ s[i].nPlies = d.nPlies
                  /\ s[i].fCubefulEquity = d.fCubefulEquity
    <3> DEFINE k == (i + 1) \div 2
               c == aci[k]
    <3>1. k \in 1..Len(aci)
      BY <2>1
    <3>2. c \in CubePos
      BY <1>1, <3>1
    <3>3. s[i] = Shallower(mcp[i])
      BY <2>2
    <3>4. mcp[i] = IF c.nCube < 0 THEN Unavailable
                   ELSE IF i % 2 = 1 THEN Opponents(c)
                   ELSE IF ~ e.fTop /\ GetDPEq(c) THEN Opponents(Doubled(c))
                   ELSE Unavailable
      BY DEF MakeCubePos
    <3>5. Shallower(Unavailable) = Unavailable
      BY DEF Shallower, Unavailable
    <3>6. CASE c \notin Contexts
      BY <3>2, <3>3, <3>4, <3>5, <3>6, Available
    <3>7. CASE c \in Contexts
      <4>1. c.nPlies = m.nPlies /\ c.fCubefulEquity = m.fCubefulEquity
        BY <1>1, <3>1, <3>7 DEF Alike
      <4>2. ~(c.nCube < 0) /\ c.nPlies > 0
        BY <3>2, <3>7, <4>1, Available
      <4>3. /\ Shallower(Opponents(c)) \in Contexts
            /\ Shallower(Opponents(c)).nPlies = c.nPlies - 1
            /\ Shallower(Opponents(c)).fCubefulEquity = c.fCubefulEquity
            /\ GetDPEq(c) => /\ Shallower(Opponents(Doubled(c))) \in Contexts
                             /\ Shallower(Opponents(Doubled(c))).nPlies = c.nPlies - 1
                             /\ Shallower(Opponents(Doubled(c))).fCubefulEquity
                                    = c.fCubefulEquity
        BY <1>5, <3>7, <4>1, <4>2, NextContext
      <4> HIDE DEF c, k, s, mcp, d, m, n
      <4>4. QED
        BY <1>2, <3>3, <3>4, <3>5, <4>1, <4>2, <4>3
    <3>8. QED
      BY <3>6, <3>7
  <2>4. s = [i \in 1..n |-> s[i]]
    BY <2>2
  <2> HIDE DEF s, mcp, n
  <2>5. \A i \in 1..n : s[i] \in CubePos
    BY <2>3 DEF CubePos
  <2>6. s \in Seq(CubePos) /\ Len(s) = n
    BY <2>1, <2>4, <2>5
  <2>7. Unavailable \notin Contexts
    BY <1>1, Available DEF CubePos
  <2>8. Alike(s, d)
    BY <2>3, <2>6, <2>7 DEF Alike
  <2>9. QED
    BY <1>2, <1>3, <1>5, <2>6, <2>8 DEF Good
<1>6. QED
  BY <1>4, <1>5

(* Whatever is asked for is good. *)
LEMMA RequestsGood ==
    ASSUME CacheInv, NEW q \in Requests
    PROVE  Good(q)
<1>1. CASE calls = <<>>
  BY <1>1, SingleGood, DecisionGood DEF Requests
<1>2. CASE calls # <<>>
  <2> DEFINE e == Last(calls)
             m == e.pciMove
  <2>1. e \in Calls
    <3>1. calls \in Seq(Calls)
      BY DEF CacheInv
    <3> DEFINE n == Len(calls)
    <3>2. n \in Nat /\ n >= 1 /\ \A i \in 1..n : calls[i] \in Calls
      BY <1>2, <3>1
    <3>3. QED
      BY <3>2 DEF Last
  <2>2. m \in Contexts
    BY <2>1 DEF Calls
  <2>3. LegalContext(m) /\ Below(m) \subseteq Contexts
    BY <2>2, ContextsAssumption
  <2>4. m.nPlies > 0 => Scored(m) \in Contexts
    BY <2>3 DEF Below
  <2>5. m.fCubefulEquity => Basic(m) \in Contexts
    BY <2>3 DEF Below
  <2>6. \/ m.nPlies > 0 /\ (q = NextPly(e) \/ q = Single(Scored(m)))
        \/ m.fCubefulEquity /\ q = Single(Basic(m))
    BY <1>2 DEF Requests
  <2> HIDE DEF e
  <2>7. QED
    BY <2>1, <2>4, <2>5, <2>6, SingleGood, NextPlyGood
<1>3. QED
  BY <1>1, <1>2

-----------------------------------------------------------------------------
(* Evaluations and commands. *)

(* The beginning of an evaluation keeps the invariant. *)
LEMMA EvaluateInv ==
    ASSUME CacheInv, NEW pos \in Positions, NEW q \in Requests, Evaluate(pos, q)
    PROVE  CacheInv'
<1> DEFINE r == LookupAll(cEval, pos, q.aci)
           e == [pos |-> pos, aci |-> q.aci, pciMove |-> q.pciMove, fTop |-> q.fTop]
<1>1. cCache' = cCache /\ met' = met /\ bgv' = bgv /\ rCubeX' = rCubeX
  BY DEF Evaluate, settings
<1>2. Good(q)
  BY RequestsGood
<1>3. cCache # 0 => Holds(r.cache, met) /\ r.cache.size = cEval.size
  BY <1>2, AllLookedUp DEF CacheInv, Good
<1>4. cEval' = cEval \/ (cCache # 0 /\ cEval' = r.cache)
  BY DEF Evaluate
<1>5. Holds(cEval', met) /\ cEval'.size = cEval.size
  BY <1>3, <1>4 DEF CacheInv
<1>6. calls' = calls \/ calls' = Append(calls, e)
  BY DEF Evaluate
<1>7. e \in Calls
  BY <1>2 DEF Calls, Good
<1>8. calls' \in Seq(Calls)
  <2> HIDE DEF e
  <2>1. calls \in Seq(Calls)
    BY DEF CacheInv
  <2>2. Append(calls, e) \in Seq(Calls)
    BY <1>7, <2>1
  <2>3. QED
    BY <1>6, <2>1, <2>2
<1>9. Holds(cEval, met)' <=> Holds(cEval', met')
  BY DEF Holds, Nodes
<1>10. QED
  BY <1>1, <1>5, <1>8, <1>9 DEF CacheInv

(* The end of an evaluation keeps the invariant. *)
LEMMA EvaluatedInv ==
    ASSUME CacheInv, Evaluated
    PROVE  CacheInv'
<1> DEFINE e == Last(calls)
           q == AddAll(cEval, e.pos, e, met, bgv, rCubeX)
<1>1. cCache' = cCache /\ met' = met /\ bgv' = bgv /\ rCubeX' = rCubeX
      /\ calls' = Front(calls)
  BY DEF Evaluated, settings
<1>2. calls \in Seq(Calls) /\ calls # <<>>
  BY DEF Evaluated, CacheInv
<1>3. e \in Calls /\ Front(calls) \in Seq(Calls)
  <2> DEFINE k == Len(calls)
  <2>1. k \in Nat /\ k >= 1 /\ \A i \in 1..k : calls[i] \in Calls
    BY <1>2
  <2>2. SubSeq(calls, 1, k - 1) \in Seq(Calls)
    BY <1>2, <2>1
  <2>3. QED
    BY <2>1, <2>2 DEF Last, Front
<1>4. cCache # 0 => Holds(q, met) /\ q.size = cEval.size
  BY <1>3, AllAdded DEF CacheInv
<1>5. cEval' = cEval \/ (cCache # 0 /\ cEval' = q)
  BY DEF Evaluated
<1>6. Holds(cEval', met) /\ cEval'.size = cEval.size
  BY <1>4, <1>5 DEF CacheInv
<1>7. Holds(cEval, met)' <=> Holds(cEval', met')
  BY DEF Holds, Nodes
<1>8. QED
  BY <1>1, <1>3, <1>6, <1>7 DEF CacheInv

(* Every step keeps the invariant. *)
LEMMA CacheStep ==
    ASSUME NoSingleEntry, CacheInv, [CacheNext]_cvars
    PROVE  CacheInv'
<1>0. Holds(cEval, met)' <=> Holds(cEval', met')
  BY DEF Holds, Nodes
<1>1. ASSUME NEW pos \in Positions,
             EvaluatePositionCache(pos) \/ EvaluatePositionCubeful3(pos)
      PROVE  CacheInv'
  <2>1. PICK q \in Requests : Evaluate(pos, q)
    BY <1>1 DEF EvaluatePositionCache, EvaluatePositionCubeful3
  <2>2. QED
    BY <2>1, EvaluateInv
<1>2. CASE Interrupted
  <2>1. <<>> \in Seq(Calls)
    OBVIOUS
  <2>2. QED
    BY <1>0, <1>2, <2>1 DEF Interrupted, CacheInv, settings
<1>3. ASSUME NEW t \in Tables, CommandSetMET(t)
      PROVE  CacheInv'
  <2>1. Holds(CacheFlush(cEval), t) /\ CacheFlush(cEval).size = cEval.size
    BY Flushed DEF CacheInv
  <2>2. QED
    BY <1>0, <1>3, <2>1 DEF CommandSetMET, CacheInv
<1>4. ASSUME NEW x \in Efficiencies, SetEfficiency(x)
      PROVE  CacheInv'
  BY <1>0, <1>4 DEF SetEfficiency, CacheInv
<1>5. ASSUME NEW n \in Sizes, CommandSetCache(n)
      PROVE  CacheInv'
  <2>1. Holds(CacheResize(cEval, n), met)
    BY Created DEF CacheResize, CacheInv
  <2>2. QED
    BY <1>0, <1>5, <2>1 DEF CommandSetCache, CacheInv, settings
<1>6. CASE CommandClearCache
  <2>1. Holds(CacheFlush(cEval), met) /\ CacheFlush(cEval).size = cEval.size
    BY Flushed DEF CacheInv
  <2>2. QED
    BY <1>0, <1>6, <2>1 DEF CommandClearCache, CacheInv, settings
<1>7. ASSUME NEW v \in Variations, NewVariation(v)
      PROVE  CacheInv'
  BY <1>0, <1>7 DEF NewVariation, CacheInv
<1>8. CASE UNCHANGED cvars
  BY <1>0, <1>8 DEF cvars, CacheInv
<1>9. QED
  BY <1>1, <1>2, <1>3, <1>4, <1>5, <1>6, <1>7, <1>8, EvaluatedInv DEF CacheNext

(* The cache is good in every reachable state. *)
LEMMA CacheInvariant ==
    ASSUME NoSingleEntry
    PROVE  CacheSpec => []CacheInv
<1>1. CacheInit => CacheInv
  <2>1. <<>> \in Seq(Calls)
    OBVIOUS
  <2>2. QED
    BY <2>1, Created DEF CacheInit, CacheInv
<1>2. CacheInv /\ [CacheNext]_cvars => CacheInv'
  BY CacheStep
<1>3. QED
  BY <1>1, <1>2, PTL DEF CacheSpec

-----------------------------------------------------------------------------

(* The mask that CacheCreate derives from the rounded size names a bucket for
   every position and context, through every `set cache' of up to 2^30 entries
   and whatever the hash function: the bucket CacheLookup and CacheAdd read and
   write is one of the table. *)
THEOREM BucketsExist ==
    ASSUME NoSingleEntry
    PROVE  CacheSpec => []LookupsInTable
<1>1. ASSUME CacheInv PROVE LookupsInTable
  <2>1. Holds(cEval, met) /\ cCache = cEval.size
    BY <1>1 DEF CacheInv
  <2>2. DOMAIN cEval.entries = 0..cEval.hashMask
    BY <2>1 DEF Holds
  <2>3. QED
    BY <2>1, <2>2, Hashed DEF LookupsInTable
<1>2. QED
  BY <1>1, CacheInvariant, PTL

(* A hit is a value of the position asked for, at the plies, for the score, the
   cube and the rules asked for, by the match equity table now in use: through
   nested and interrupted evaluations, evaluations for several cube positions
   whose results are added one after the other, promotion in a bucket, eviction
   from it, flushing and resizing, for all legal contexts and every hash
   function.  EvalKey keeps stakes apart but for the last game of a match and a
   session without rules. *)
THEOREM HitsAnswer ==
    ASSUME NoSingleEntry, NoMixing, OneVariation
    PROVE  CacheSpec => []CacheAnswers
<1>1. ASSUME CacheInv PROVE CacheAnswers
  <2> SUFFICES ASSUME cCache # 0, NEW pos \in Positions, NEW c \in Contexts,
                      CacheLookup(cEval, pos, Packed[c]).hit
               PROVE  CacheLookup(cEval, pos, Packed[c]).ar.what = What(pos, c, met, bgv)
    BY DEF CacheAnswers
  <2>1. Holds(cEval, met) /\ cEval.size # 0 /\ met \in Tables /\ bgv \in Variations
    BY <1>1 DEF CacheInv
  <2>2. PICK d \in Contexts, v \in Variations :
            /\ Packed[d] = Packed[c]
            /\ CacheLookup(cEval, pos, Packed[c]).ar.what = What(pos, d, met, v)
    BY <2>1, LookedUp
  <2>3. v = bgv
    BY <2>1 DEF OneVariation
  <2>4. What(pos, d, met, v) = What(pos, c, met, v)
    BY <2>2, SameQuestion
  <2>5. QED
    BY <2>2, <2>3, <2>4
<1>2. QED
  BY <1>1, CacheInvariant, PTL
=============================================================================
