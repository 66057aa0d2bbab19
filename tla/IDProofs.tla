------------------------------- MODULE IDProofs -------------------------------
(***************************************************************************)
(* Proofs about IDs: for every position and every match state, the packed  *)
(* key, the position ID and the match ID give back what they were made     *)
(* from.                                                                   *)
(***************************************************************************)
EXTENDS IDs, Induction, FiniteSetTheorems, SequenceTheorems

-----------------------------------------------------------------------------
(* Sums. *)

(* The sum of n + 1 values is the sum of n and the next one. *)
LEMMA TotalDef ==
    ASSUME NEW f
    PROVE  /\ Total(f, 0) = 0
           /\ \A n \in Nat : Total(f, n + 1) = Total(f, n) + f[n]
<1> DEFINE Onward(x, k) == x + f[k - 1]
           Is0(g, n) == g = [k \in 0..n |-> IF k = 0 THEN 0 ELSE Onward(g[k - 1], k)]
           S == {n \in Nat : \E g : Is0(g, n)}
           h(n) == CHOOSE g : Is0(g, n)
<1>0. ASSUME NEW n PROVE Total(f, n) = h(n)[n]
  BY DEF Total
<1> HIDE DEF Onward
<1>1. 0 \in S
  <2> DEFINE g == [k \in 0..0 |-> 0]
  <2>1. g = [k \in 0..0 |-> IF k = 0 THEN 0 ELSE Onward(g[k - 1], k)]
    OBVIOUS
  <2>2. QED
    BY <2>1
<1>2. ASSUME NEW n \in Nat, n \in S PROVE n + 1 \in S
  <2>1. PICK g : g = [k \in 0..n |-> IF k = 0 THEN 0 ELSE Onward(g[k - 1], k)]
    BY <1>2
  <2> DEFINE e == [k \in 0..(n + 1) |-> IF k <= n THEN g[k] ELSE Onward(g[n], n + 1)]
  <2>2. \A k \in 0..(n + 1) : e[k] = IF k = 0 THEN 0 ELSE Onward(e[k - 1], k)
    BY <2>1
  <2>3. e = [k \in 0..(n + 1) |-> IF k = 0 THEN 0 ELSE Onward(e[k - 1], k)]
    BY <2>2
  <2> HIDE DEF e
  <2>4. QED
    BY <2>3
<1> HIDE DEF S
<1>3. \A n \in Nat : n \in S
  BY <1>1, <1>2, Induct
<1>4. ASSUME NEW n \in Nat PROVE Is0(h(n), n)
  BY <1>3 DEF S
<1> HIDE DEF h
<1>5. ASSUME NEW n \in Nat
      PROVE  h(n)[0] = 0 /\ \A k \in 1..n : h(n)[k] = Onward(h(n)[k - 1], k)
  BY <1>4
<1> HIDE DEF Is0
<1>6. ASSUME NEW n \in Nat PROVE h(n + 1)[n] = h(n)[n]
  <2> DEFINE g == h(n)
             e == h(n + 1)
             T == {k \in Nat : k <= n => e[k] = g[k]}
  <2>1. g[0] = 0 /\ \A k \in 1..n : g[k] = Onward(g[k - 1], k)
    BY <1>5
  <2>2. e[0] = 0 /\ \A k \in 1..(n + 1) : e[k] = Onward(e[k - 1], k)
    <3>1. n + 1 \in Nat
      OBVIOUS
    <3>2. QED
      BY <1>5, <3>1
  <2> HIDE DEF g, e
  <2>3. 0 \in T
    BY <2>1, <2>2
  <2>4. ASSUME NEW k \in Nat, k \in T PROVE k + 1 \in T
    <3> SUFFICES ASSUME k + 1 <= n PROVE e[k + 1] = g[k + 1]
      OBVIOUS
    <3>1. /\ k + 1 \in 1..n /\ k + 1 \in 1..(n + 1) /\ (k + 1) - 1 = k
          /\ k <= n
      OBVIOUS
    <3>2. e[k] = g[k]
      BY <2>4, <3>1
    <3>3. QED
      BY <2>1, <2>2, <3>1, <3>2
  <2> HIDE DEF T
  <2>5. n \in T
    BY <2>3, <2>4, Induct
  <2>6. QED
    BY <2>5 DEF T, g, e
<1>7. Total(f, 0) = 0
  BY <1>0, <1>5
<1>8. ASSUME NEW n \in Nat PROVE Total(f, n + 1) = Total(f, n) + f[n]
  <2>1. n + 1 \in Nat /\ n + 1 \in 1..(n + 1) /\ (n + 1) - 1 = n
    OBVIOUS
  <2>2. h(n + 1)[n + 1] = Onward(h(n + 1)[n], n + 1)
    BY <1>5, <2>1
  <2>3. Onward(h(n)[n], n + 1) = h(n)[n] + f[n]
    BY <2>1 DEF Onward
  <2>4. QED
    BY <1>0, <1>6, <2>2, <2>3
<1>9. QED
  BY <1>7, <1>8

(* Sums of numbers are numbers, and grow. *)
LEMMA TotalGrows ==
    ASSUME NEW f, NEW n \in Nat, \A k \in 0..n-1 : f[k] \in Nat
    PROVE  /\ \A k \in 0..n : Total(f, k) \in Nat
           /\ \A k \in 0..n, j \in 0..n : j < k => Total(f, j) + f[j] <= Total(f, k)
<1> DEFINE T(k) == Total(f, k)
           R == {k \in Nat : k <= n => T(k) \in Nat}
           S == {k \in Nat : k <= n => \A j \in 0..k-1 : T(j) + f[j] <= T(k)}
<1>1. T(0) = 0 /\ \A k \in Nat : T(k + 1) = T(k) + f[k]
  BY TotalDef
<1> HIDE DEF T
<1>2. \A k \in Nat : k \in R
  <2>1. 0 \in R
    BY <1>1
  <2>2. ASSUME NEW k \in Nat, k \in R PROVE k + 1 \in R
    BY <1>1, <2>2
  <2> HIDE DEF R
  <2>3. QED
    BY <2>1, <2>2, Induct
<1>3. \A k \in Nat : k <= n => T(k) \in Nat
  BY <1>2
<1>4. 0 \in S
  OBVIOUS
<1>5. ASSUME NEW k \in Nat, k \in S PROVE k + 1 \in S
  <2> SUFFICES ASSUME k + 1 <= n, NEW j \in 0..(k+1)-1
               PROVE  T(j) + f[j] <= T(k + 1)
    OBVIOUS
  <2>1. /\ T(k) \in Nat /\ f[k] \in Nat /\ T(k + 1) = T(k) + f[k]
        /\ j \in Nat /\ j <= n /\ j \in 0..n-1
    BY <1>1, <1>3
  <2>2. T(j) \in Nat /\ f[j] \in Nat
    BY <1>3, <2>1
  <2>3. CASE j = k
    BY <2>1, <2>3
  <2>4. CASE j # k
    <3>1. j \in 0..k-1
      BY <2>4
    <3>2. T(j) + f[j] <= T(k)
      BY <1>5, <3>1
    <3>3. QED
      BY <2>1, <2>2, <3>2
  <2>5. QED
    BY <2>3, <2>4
<1> HIDE DEF S
<1>6. \A k \in Nat : k \in S
  BY <1>4, <1>5, Induct
<1>7. QED
  BY <1>3, <1>6 DEF S, T

(* A sum depends on the values that are added only. *)
LEMMA TotalSame ==
    ASSUME NEW f, NEW g, NEW n \in Nat, \A k \in 0..n-1 : f[k] = g[k]
    PROVE  Total(f, n) = Total(g, n)
<1> DEFINE S == {k \in Nat : k <= n => Total(f, k) = Total(g, k)}
<1>1. 0 \in S
  BY TotalDef
<1>2. ASSUME NEW k \in Nat, k \in S PROVE k + 1 \in S
  BY <1>2, TotalDef
<1> HIDE DEF S
<1>3. \A k \in Nat : k \in S
  BY <1>1, <1>2, Induct
<1>4. QED
  BY <1>3 DEF S

-----------------------------------------------------------------------------
(* The packed key. *)

(* Four points from k on, as a half word. *)
Quad(f, k) == f[k] + 16 * f[k+1] + 256 * f[k+2] + 4096 * f[k+3]

(* The four bits of point r in half word h. *)
Nibble(h, r) == (h \div 16^r) % 16

(* A half word holds its four points. *)
LEMMA QuadHolds ==
    ASSUME NEW f \in [Slot -> 0..15], NEW k \in Nat, k <= 20
    PROVE  /\ Quad(f, k) \in Nat /\ Quad(f, k) < 65536
           /\ \A r \in 0..3 : Nibble(Quad(f, k), r) = f[k + r]
<1> DEFINE a == f[k]
           b == f[k + 1]
           c == f[k + 2]
           d == f[k + 3]
           h == Quad(f, k)
<1>1. a \in 0..15 /\ b \in 0..15 /\ c \in 0..15 /\ d \in 0..15
  BY DEF Slot
<1>2. /\ a \in Nat /\ b \in Nat /\ c \in Nat /\ d \in Nat
      /\ a < 16 /\ b < 16 /\ c < 16 /\ d < 16
  BY <1>1
<1>3. h = a + 16 * b + 256 * c + 4096 * d
  BY DEF Quad
<1> HIDE DEF h, a, b, c, d
<1>4. h \in Nat /\ h < 65536 /\ h % 16 = a
  BY ONLY <1>2, <1>3
<1>5. h \div 16 = b + 16 * c + 256 * d /\ (b + 16 * c + 256 * d) % 16 = b
  BY ONLY <1>2, <1>3
<1>6. h \div 256 = c + 16 * d /\ (c + 16 * d) % 16 = c
  BY ONLY <1>2, <1>3
<1>7. h \div 4096 = d /\ d % 16 = d
  BY ONLY <1>2, <1>3
<1>8. ASSUME NEW r \in 0..3 PROVE Nibble(h, r) = f[k + r]
  <2>1. r = 0 \/ r = 1 \/ r = 2 \/ r = 3
    OBVIOUS
  <2>2. CASE r = 0
    <3>1. 16^r = 1 /\ k + r = k /\ h \div 1 = h
      BY <1>4, <2>2
    <3>2. QED
      BY <1>4, <3>1 DEF a, Nibble
  <2>3. CASE r = 1
    <3>1. 16^r = 16
      BY <2>3
    <3>2. QED
      BY ONLY <1>5, <2>3, <3>1 DEF b, Nibble
  <2>4. CASE r = 2
    <3>1. 16^r = 256
      BY <2>4
    <3>2. QED
      BY ONLY <1>6, <2>4, <3>1 DEF c, Nibble
  <2>5. CASE r = 3
    <3>1. 16^r = 4096
      BY <2>5
    <3>2. QED
      BY ONLY <1>7, <2>5, <3>1 DEF d, Nibble
  <2>6. QED
    BY <2>1, <2>2, <2>3, <2>4, <2>5
<1>9. QED
  BY <1>4, <1>8 DEF h

(* Nothing is carried from one half of a word to the other. *)
LEMMA WordHalves ==
    ASSUME NEW f \in [Slot -> 0..15], NEW j \in Nat, j <= 16
    PROVE  Word(f, j) = <<Quad(f, j), Quad(f, j + 4)>>
<1> DEFINE x == Quad(f, j)
           y == Quad(f, j + 4)
<1>1. j <= 20 /\ j + 4 \in Nat /\ j + 4 <= 20
  OBVIOUS
<1>2. x \in Nat /\ x < 65536 /\ y \in Nat /\ y < 65536
  BY <1>1, QuadHolds
<1>3. Word(f, j) = <<x % 65536, (y + x \div 65536) % 65536>>
  BY DEF Word, Quad
<1> HIDE DEF x, y
<1>4. x % 65536 = x /\ x \div 65536 = 0
  BY <1>2
<1>5. (y + 0) % 65536 = y
  BY <1>2
<1>6. QED
  BY <1>3, <1>4, <1>5 DEF x, y

(* Every point of a side is in its word. *)
LEMMA WordHolds ==
    ASSUME NEW f \in [Slot -> 0..15], NEW i \in Nat, i < 24
    PROVE  Nibble(Word(f, 8 * (i \div 8))[1 + (i % 8) \div 4], i % 4) = f[i]
<1> DEFINE j == 8 * (i \div 8)
           r == i % 4
           q == (i % 8) \div 4
           k == j + 4 * q
<1>1. /\ j \in Nat /\ j <= 16 /\ r \in 0..3 /\ q \in 0..1
      /\ k \in Nat /\ k <= 20 /\ i = k + r
  OBVIOUS
<1> HIDE DEF j, r, q
<1>2. Word(f, j)[1 + q] = Quad(f, k)
  <2>1. Word(f, j) = <<Quad(f, j), Quad(f, j + 4)>>
    BY <1>1, WordHalves
  <2>2. \/ q = 0 /\ 1 + q = 1 /\ k = j
        \/ q = 1 /\ 1 + q = 2 /\ k = j + 4
    BY <1>1
  <2>3. QED
    BY <2>1, <2>2
<1> HIDE DEF k
<1>3. Nibble(Quad(f, k), r) = f[i]
  BY <1>1, QuadHolds
<1>4. QED
  BY <1>2, <1>3 DEF j, r, q

(* For every board, what is unpacked from its key is the board, and with the
   sides exchanged if it is unpacked so. *)
LEMMA KeyHolds ==
    ASSUME NEW b \in Board
    PROVE  /\ PositionFromKey(PositionKey(b)) = b
           /\ PositionFromKeySwapped(PositionKey(b)) = [s \in 0..1 |-> b[1 - s]]
<1> DEFINE key == PositionKey(b)
           Unpacked(s, i) == (key.words[s][i \div 8][1 + (i % 8) \div 4] \div 16^(i % 4)) % 16
<1>1. /\ b[0] \in [Slot -> 0..15] /\ b[1] \in [Slot -> 0..15]
      /\ \A s \in 0..1 : b[s] \in [Slot -> 0..15]
  BY DEF Board
<1>2. /\ key.words = [s \in 0..1 |-> [w \in 0..2 |-> Word(b[s], 8 * w)]]
      /\ key.bars = b[0][24] + 16 * b[1][24]
  BY DEF PositionKey
<1> HIDE DEF key
<1>3. ASSUME NEW s \in 0..1, NEW i \in 0..23 PROVE Unpacked(s, i) = b[s][i]
  <2>1. i \in Nat /\ i < 24 /\ i \div 8 \in 0..2
    OBVIOUS
  <2>2. key.words[s][i \div 8] = Word(b[s], 8 * (i \div 8))
    BY <1>2, <2>1
  <2>3. Nibble(Word(b[s], 8 * (i \div 8))[1 + (i % 8) \div 4], i % 4) = b[s][i]
    BY <1>1, <2>1, WordHolds
  <2>4. QED
    BY <2>2, <2>3, Zenon DEF Nibble
<1> HIDE DEF Unpacked
<1>4. (key.bars \div 16^0) % 16 = b[0][24] /\ (key.bars \div 16^1) % 16 = b[1][24]
  <2> DEFINE x == b[0][24]
             y == b[1][24]
  <2>1. x \in 0..15 /\ y \in 0..15
    BY <1>1 DEF Slot
  <2>2. key.bars = x + 16 * y
    BY <1>2
  <2> HIDE DEF x, y
  <2>3. 16^0 = 1 /\ 16^1 = 16
    OBVIOUS
  <2>4. (x + 16 * y) \div 1 = x + 16 * y /\ (x + 16 * y) % 16 = x
    BY <2>1
  <2>5. (x + 16 * y) \div 16 = y /\ y % 16 = y
    BY <2>1
  <2>6. QED
    BY ONLY <2>2, <2>3, <2>4, <2>5 DEF x, y
<1>5. ASSUME NEW s \in 0..1 PROVE (key.bars \div 16^s) % 16 = b[s][24]
  <2>1. s = 0 \/ s = 1
    OBVIOUS
  <2>2. QED
    BY ONLY <1>4, <2>1
<1>6. Slot = 0..23 \cup {24} /\ 24 \notin 0..23
  BY DEF Slot
<1>7. ASSUME NEW s \in 0..1
      PROVE  [i \in Slot |-> IF i = 24 THEN (key.bars \div 16^s) % 16
                             ELSE Unpacked(s, i)] = b[s]
  <2>1. \A i \in Slot : b[s][i] = IF i = 24 THEN (key.bars \div 16^s) % 16
                                  ELSE Unpacked(s, i)
    <3> SUFFICES ASSUME NEW i \in Slot
                 PROVE b[s][i] = IF i = 24 THEN (key.bars \div 16^s) % 16
                                 ELSE Unpacked(s, i)
      OBVIOUS
    <3>1. CASE i = 24
      BY <1>5, <3>1
    <3>2. CASE i # 24
      <4>1. i \in 0..23
        BY <1>6, <3>2
      <4>2. Unpacked(s, i) = b[s][i]
        BY <1>3, <4>1
      <4>3. QED
        BY <3>2, <4>2, Zenon
    <3>3. QED
      BY <3>1, <3>2
  <2> DEFINE e(i) == IF i = 24 THEN (key.bars \div 16^s) % 16 ELSE Unpacked(s, i)
  <2>2. \A i \in Slot : b[s][i] = e(i)
    BY <2>1
  <2>3. b[s] \in [Slot -> 0..15]
    BY <1>1
  <2> HIDE DEF e
  <2>4. [i \in Slot |-> e(i)] = b[s]
    BY <2>2, <2>3
  <2>5. QED
    BY <2>4 DEF e
<1> DEFINE Row(s) == [i \in Slot |-> IF i = 24 THEN (key.bars \div 16^s) % 16
                                     ELSE Unpacked(s, i)]
<1>8. PositionFromKey(key) = [s \in 0..1 |-> Row(s)]
  BY DEF PositionFromKey, Unpacked
<1>9. PositionFromKeySwapped(key) = [s \in 0..1 |-> Row(1 - s)]
  BY DEF PositionFromKeySwapped, Unpacked
<1>10. \A s \in 0..1 : Row(s) = b[s]
  BY <1>7
<1> HIDE DEF Row
<1>11. [s \in 0..1 |-> Row(s)] = b
  BY <1>10 DEF Board
<1>12. \A s \in 0..1 : 1 - s \in 0..1
  OBVIOUS
<1>13. [s \in 0..1 |-> Row(1 - s)] = [s \in 0..1 |-> b[1 - s]]
  BY <1>10, <1>12
<1>14. QED
  BY <1>8, <1>9, <1>11, <1>13 DEF key

-----------------------------------------------------------------------------
(* Strings of bits and their bytes. *)

(* Bit i of v. *)
Bit(v, i) == (v \div 2^i) % 2 = 1

(* A byte of a string has the bits of the string. *)
LEMMA ByteHolds ==
    ASSUME NEW bits, NEW k \in Nat
    PROVE  /\ Byte(bits, k) \in Nat /\ Byte(bits, k) < 256
           /\ \A i \in 0..7 : Bit(Byte(bits, k), i) <=> 8 * k + i \in bits
<1> DEFINE w(i) == IF 8 * k + i \in bits THEN 2^i ELSE 0
           f == [i \in 0..8-1 |-> w(i)]
           v == Byte(bits, k)
<1>1. v = Total(f, 8)
  BY DEF Byte, GetBits
<1>2. 2^0 = 1 /\ 2^1 = 2 /\ 2^2 = 4 /\ 2^3 = 8 /\ 2^4 = 16 /\ 2^5 = 32
      /\ 2^6 = 64 /\ 2^7 = 128
  OBVIOUS
<1>3. /\ w(0) \in {0, 1} /\ (w(0) # 0 <=> 8 * k + 0 \in bits)
      /\ w(1) \in {0, 2} /\ (w(1) # 0 <=> 8 * k + 1 \in bits)
      /\ w(2) \in {0, 4} /\ (w(2) # 0 <=> 8 * k + 2 \in bits)
      /\ w(3) \in {0, 8} /\ (w(3) # 0 <=> 8 * k + 3 \in bits)
      /\ w(4) \in {0, 16} /\ (w(4) # 0 <=> 8 * k + 4 \in bits)
      /\ w(5) \in {0, 32} /\ (w(5) # 0 <=> 8 * k + 5 \in bits)
      /\ w(6) \in {0, 64} /\ (w(6) # 0 <=> 8 * k + 6 \in bits)
      /\ w(7) \in {0, 128} /\ (w(7) # 0 <=> 8 * k + 7 \in bits)
  BY <1>2
<1>4. /\ f[0] = w(0) /\ f[1] = w(1) /\ f[2] = w(2) /\ f[3] = w(3)
      /\ f[4] = w(4) /\ f[5] = w(5) /\ f[6] = w(6) /\ f[7] = w(7)
  <2> HIDE DEF w
  <2>1. QED
    OBVIOUS
<1> HIDE DEF w, f, v
<1>5. Total(f, 0) = 0 /\ \A n \in Nat : Total(f, n + 1) = Total(f, n) + f[n]
  BY TotalDef
<1>6. /\ Total(f, 1) = Total(f, 0) + w(0) /\ Total(f, 2) = Total(f, 1) + w(1)
      /\ Total(f, 3) = Total(f, 2) + w(2) /\ Total(f, 4) = Total(f, 3) + w(3)
      /\ Total(f, 5) = Total(f, 4) + w(4) /\ Total(f, 6) = Total(f, 5) + w(5)
      /\ Total(f, 7) = Total(f, 6) + w(6) /\ Total(f, 8) = Total(f, 7) + w(7)
  <2>1. ASSUME NEW n \in 0..7 PROVE Total(f, n + 1) = Total(f, n) + f[n]
    BY <1>5
  <2>2. /\ 0 + 1 = 1 /\ 1 + 1 = 2 /\ 2 + 1 = 3 /\ 3 + 1 = 4
        /\ 4 + 1 = 5 /\ 5 + 1 = 6 /\ 6 + 1 = 7 /\ 7 + 1 = 8
    OBVIOUS
  <2>3. QED
    BY <1>4, <2>1, <2>2
<1>7. v = w(0) + w(1) + w(2) + w(3) + w(4) + w(5) + w(6) + w(7)
  BY <1>1, <1>3, <1>5, <1>6
<1>8. /\ v \in Nat /\ v < 256
      /\ (v \div 1) % 2 = 1 <=> w(0) # 0
      /\ (v \div 2) % 2 = 1 <=> w(1) # 0
      /\ (v \div 4) % 2 = 1 <=> w(2) # 0
      /\ (v \div 8) % 2 = 1 <=> w(3) # 0
      /\ (v \div 16) % 2 = 1 <=> w(4) # 0
      /\ (v \div 32) % 2 = 1 <=> w(5) # 0
      /\ (v \div 64) % 2 = 1 <=> w(6) # 0
      /\ (v \div 128) % 2 = 1 <=> w(7) # 0
  <2>0. /\ w(0) \in {0, 1} /\ w(1) \in {0, 2} /\ w(2) \in {0, 4}
        /\ w(3) \in {0, 8} /\ w(4) \in {0, 16} /\ w(5) \in {0, 32}
        /\ w(6) \in {0, 64} /\ w(7) \in {0, 128}
    BY <1>3
  <2>1. v \in Nat /\ v < 256
    BY ONLY <1>7, <2>0
  <2>2. (v \div 1) % 2 = 1 <=> w(0) # 0
    BY ONLY <1>7, <2>0
  <2>3. (v \div 2) % 2 = 1 <=> w(1) # 0
    BY ONLY <1>7, <2>0
  <2>4. (v \div 4) % 2 = 1 <=> w(2) # 0
    BY ONLY <1>7, <2>0
  <2>5. (v \div 8) % 2 = 1 <=> w(3) # 0
    BY ONLY <1>7, <2>0
  <2>6. (v \div 16) % 2 = 1 <=> w(4) # 0
    BY ONLY <1>7, <2>0
  <2>7. (v \div 32) % 2 = 1 <=> w(5) # 0
    BY ONLY <1>7, <2>0
  <2>8. (v \div 64) % 2 = 1 <=> w(6) # 0
    BY ONLY <1>7, <2>0
  <2>9. (v \div 128) % 2 = 1 <=> w(7) # 0
    BY ONLY <1>7, <2>0
  <2>10. QED
    BY <2>1, <2>2, <2>3, <2>4, <2>5, <2>6, <2>7, <2>8, <2>9
<1>9. ASSUME NEW i \in 0..7 PROVE Bit(v, i) <=> 8 * k + i \in bits
  <2>1. i \in {0, 1, 2, 3, 4, 5, 6, 7}
    OBVIOUS
  <2>2. ASSUME NEW p, 2^i = p, (v \div p) % 2 = 1 <=> w(i) # 0,
               w(i) # 0 <=> 8 * k + i \in bits
        PROVE  Bit(v, i) <=> 8 * k + i \in bits
    BY <2>2 DEF Bit
  <2>3. \E p : /\ 2^i = p /\ ((v \div p) % 2 = 1 <=> w(i) # 0)
               /\ (w(i) # 0 <=> 8 * k + i \in bits)
    <3>0. CASE i = 0
      BY ONLY <1>2, <1>3, <1>8, <3>0
    <3>1. CASE i = 1
      BY ONLY <1>2, <1>3, <1>8, <3>1
    <3>2. CASE i = 2
      BY ONLY <1>2, <1>3, <1>8, <3>2
    <3>3. CASE i = 3
      BY ONLY <1>2, <1>3, <1>8, <3>3
    <3>4. CASE i = 4
      BY ONLY <1>2, <1>3, <1>8, <3>4
    <3>5. CASE i = 5
      BY ONLY <1>2, <1>3, <1>8, <3>5
    <3>6. CASE i = 6
      BY ONLY <1>2, <1>3, <1>8, <3>6
    <3>7. CASE i = 7
      BY ONLY <1>2, <1>3, <1>8, <3>7
    <3>8. QED
      BY <2>1, <3>0, <3>1, <3>2, <3>3, <3>4, <3>5, <3>6, <3>7
  <2>4. QED
    BY <2>2, <2>3
<1>10. QED
  BY <1>8, <1>9 DEF v

(* The bytes of a string have the places of its ones. *)
LEMMA PlacesOfBytes ==
    ASSUME NEW bits, NEW bytes, NEW N \in Nat, Len(bytes) = N,
           bits \subseteq 0..8*N-1,
           \A k \in 0..N-1 : bytes[1 + k] = Byte(bits, k)
    PROVE  Places(bytes) = bits
<1>1. Places(bytes) = {n \in 0..8*N-1 : Bit(bytes[1 + n \div 8], n % 8)}
  BY DEF Places, Bit
<1>2. ASSUME NEW n \in 0..8*N-1
      PROVE  Bit(bytes[1 + n \div 8], n % 8) <=> n \in bits
  <2>1. /\ n \div 8 \in 0..N-1 /\ n \div 8 \in Nat /\ n % 8 \in 0..7
        /\ 8 * (n \div 8) + (n % 8) = n
    <3>1. n \in Nat /\ n < 8 * N
      OBVIOUS
    <3>2. 8 * (n \div 8) + (n % 8) = n /\ n \div 8 \in Nat /\ n % 8 \in 0..7
      BY ONLY <3>1
    <3>3. QED
      BY <3>1, <3>2
  <2>2. bytes[1 + n \div 8] = Byte(bits, n \div 8)
    BY <2>1
  <2> DEFINE k == n \div 8
             i == n % 8
  <2>3. k \in Nat /\ i \in 0..7 /\ 8 * k + i = n
    BY <2>1
  <2> HIDE DEF k, i
  <2>4. Bit(Byte(bits, k), i) <=> 8 * k + i \in bits
    BY <2>3, ByteHolds
  <2>5. QED
    BY <2>2, <2>3, <2>4 DEF k, i
<1>3. QED
  BY <1>1, <1>2

-----------------------------------------------------------------------------
(* Base 64. *)

(* The last byte of a position ID takes two characters. *)
LEMMA LastByteHolds ==
    ASSUME NEW x \in Nat, x < 256
    PROVE  (((x \div 4) * 4) % 256) + ((x % 4) * 16) \div 16 = x
OBVIOUS

(* What is put together can be taken apart. *)
LEMMA Joined ==
    ASSUME NEW s \in Seq(Nat), NEW u \in Seq(Nat)
    PROVE  /\ s \o u \in Seq(Nat) /\ Len(s) \in Nat /\ Len(u) \in Nat
           /\ Len(s \o u) = Len(s) + Len(u)
           /\ \A i \in 1..Len(s) : (s \o u)[i] = s[i]
           /\ \A i \in 1..Len(u) : (s \o u)[Len(s) + i] = u[i]
<1>1. Len(s) \in Nat /\ Len(u) \in Nat
  OBVIOUS
<1>2. /\ s \o u \in Seq(Nat) /\ Len(s \o u) = Len(s) + Len(u)
      /\ \A i \in 1..(Len(s) + Len(u)) : (s \o u)[i] =
             IF i <= Len(s) THEN s[i] ELSE u[i - Len(s)]
  BY ConcatProperties
<1>3. ASSUME NEW i \in 1..Len(s) PROVE (s \o u)[i] = s[i]
  <2>1. i \in 1..(Len(s) + Len(u)) /\ i <= Len(s)
    BY <1>1
  <2>2. QED
    BY <1>2, <2>1
<1>4. ASSUME NEW i \in 1..Len(u) PROVE (s \o u)[Len(s) + i] = u[i]
  <2>1. /\ Len(s) + i \in 1..(Len(s) + Len(u)) /\ ~(Len(s) + i <= Len(s))
        /\ (Len(s) + i) - Len(s) = i
    BY <1>1
  <2>2. (s \o u)[Len(s) + i] = u[(Len(s) + i) - Len(s)]
    BY <1>2, <2>1
  <2>3. QED
    BY <2>1, <2>2
<1>5. QED
  BY <1>1, <1>2, <1>3, <1>4

(* A sequence of three pieces of n elements. *)
LEMMA ThreePieces ==
    ASSUME NEW n \in Nat, NEW a \in Seq(Nat), NEW b \in Seq(Nat), NEW c \in Seq(Nat),
           Len(a) = n, Len(b) = n, Len(c) = n
    PROVE  /\ a \o b \o c \in Seq(Nat) /\ Len(a \o b \o c) = 3 * n
           /\ \A i \in 1..n : /\ (a \o b \o c)[i] = a[i]
                              /\ (a \o b \o c)[n + i] = b[i]
                              /\ (a \o b \o c)[2 * n + i] = c[i]
<1> DEFINE ab == a \o b
           abc == ab \o c
<1>1. /\ ab \in Seq(Nat) /\ Len(ab) = Len(a) + Len(b)
      /\ \A i \in 1..Len(a) : ab[i] = a[i]
      /\ \A i \in 1..Len(b) : ab[Len(a) + i] = b[i]
  BY Joined
<1> HIDE DEF ab
<1>2. /\ abc \in Seq(Nat) /\ Len(abc) = Len(ab) + Len(c)
      /\ \A i \in 1..Len(ab) : abc[i] = ab[i]
      /\ \A i \in 1..Len(c) : abc[Len(ab) + i] = c[i]
  BY <1>1, Joined
<1> HIDE DEF abc
<1>3. Len(ab) = 2 * n /\ Len(abc) = 3 * n
  BY <1>1, <1>2
<1>4. ASSUME NEW i \in 1..n
      PROVE  abc[i] = a[i] /\ abc[n + i] = b[i] /\ abc[2 * n + i] = c[i]
  <2>1. i \in 1..(2 * n) /\ n + i \in 1..(2 * n)
    OBVIOUS
  <2>2. ab[i] = a[i] /\ ab[n + i] = b[i]
    BY <1>1
  <2>3. QED
    BY <1>2, <1>3, <2>1, <2>2
<1>5. QED
  BY <1>2, <1>3, <1>4 DEF abc, ab

(* Four characters make three bytes. *)
LEMMA CharsOfBytes ==
    ASSUME NEW bits, NEW k \in Nat
    PROVE  /\ ToBase64(bits, k) \in Seq(Nat) /\ Len(ToBase64(bits, k)) = 4
           /\ \A id, i : (\A j \in 1..4 : id[i + j] = ToBase64(bits, k)[j])
                 => FromBase64(id, i) = <<Byte(bits, k), Byte(bits, k + 1), Byte(bits, k + 2)>>
<1> DEFINE x == Byte(bits, k)
           y == Byte(bits, k + 1)
           z == Byte(bits, k + 2)
           c1 == x \div 4
           c2 == (x % 4) * 16 + y \div 16
           c3 == (y % 16) * 4 + z \div 64
           c4 == z % 64
<1>0. /\ x \in Nat /\ x < 256 /\ y \in Nat /\ y < 256 /\ z \in Nat /\ z < 256
  <2>1. k + 1 \in Nat /\ k + 2 \in Nat
    OBVIOUS
  <2>2. QED
    BY <2>1, ByteHolds
<1>2. ToBase64(bits, k) = <<c1, c2, c3, c4>>
  <2>1. k + 0 = k
    OBVIOUS
  <2>2. QED
    BY <2>1 DEF ToBase64
<1> HIDE DEF x, y, z
<1>1. c1 \in Nat /\ c2 \in Nat /\ c3 \in Nat /\ c4 \in Nat
  BY <1>0
<1>3. ((c1 * 4) % 256) + c2 \div 16 = x
  BY <1>0
<1>4. ((c2 * 16) % 256) + c3 \div 4 = y
  BY <1>0
<1>5. ((c3 * 64) % 256) + c4 = z
  BY <1>0
<1> HIDE DEF c1, c2, c3, c4
<1>6. ASSUME NEW id, NEW i, \A j \in 1..4 : id[i + j] = <<c1, c2, c3, c4>>[j]
      PROVE  FromBase64(id, i) = <<x, y, z>>
  <2>1. id[i+1] = c1 /\ id[i+2] = c2 /\ id[i+3] = c3 /\ id[i+4] = c4
    BY <1>6
  <2>2. QED
    BY ONLY <1>3, <1>4, <1>5, <2>1 DEF FromBase64
<1>7. <<c1, c2, c3, c4>> \in Seq(Nat) /\ Len(<<c1, c2, c3, c4>>) = 4
  BY <1>1
<1>8. QED
  BY <1>2, <1>6, <1>7 DEF x, y, z

(* Twelve characters make nine bytes. *)
LEMMA TwelveForNine ==
    ASSUME NEW bits, NEW id, \A j \in 1..12 : id[j] = TwelveChars(bits)[j]
    PROVE  /\ TwelveChars(bits) \in Seq(Nat) /\ Len(TwelveChars(bits)) = 12
           /\ NineBytes(id) \in Seq(Nat) /\ Len(NineBytes(id)) = 9
           /\ \A k \in 0..8 : NineBytes(id)[1 + k] = Byte(bits, k)
<1> DEFINE u == ToBase64(bits, 0)
           v == ToBase64(bits, 3)
           w == ToBase64(bits, 6)
           chars == TwelveChars(bits)
<1>0. 0 \in Nat /\ 3 \in Nat /\ 6 \in Nat /\ 4 \in Nat
  OBVIOUS
<1>1. /\ u \in Seq(Nat) /\ v \in Seq(Nat) /\ w \in Seq(Nat)
      /\ Len(u) = 4 /\ Len(v) = 4 /\ Len(w) = 4
  BY <1>0, CharsOfBytes
<1>2. chars = u \o v \o w
  BY DEF TwelveChars
<1> HIDE DEF u, v, w
<1>3. /\ u \o v \o w \in Seq(Nat) /\ Len(u \o v \o w) = 3 * 4
      /\ \A i \in 1..4 : /\ (u \o v \o w)[i] = u[i]
                         /\ (u \o v \o w)[4 + i] = v[i]
                         /\ (u \o v \o w)[2 * 4 + i] = w[i]
  <2> DEFINE n == 4
  <2>1. n \in Nat /\ Len(u) = n /\ Len(v) = n /\ Len(w) = n
    BY <1>1
  <2> HIDE DEF n
  <2>2. /\ u \o v \o w \in Seq(Nat) /\ Len(u \o v \o w) = 3 * n
        /\ \A i \in 1..n : /\ (u \o v \o w)[i] = u[i]
                           /\ (u \o v \o w)[n + i] = v[i]
                           /\ (u \o v \o w)[2 * n + i] = w[i]
    BY ONLY <1>1, <2>1, ThreePieces
  <2>3. QED
    BY <2>2 DEF n
<1> HIDE DEF chars
<1>4. \A j \in 1..12 : id[j] = chars[j]
  BY DEF chars
<1>5. ASSUME NEW j \in 1..4
      PROVE  id[0 + j] = u[j] /\ id[4 + j] = v[j] /\ id[8 + j] = w[j]
  <2>1. 0 + j = j /\ j \in 1..12 /\ 4 + j \in 1..12 /\ 8 + j \in 1..12 /\ 2 * 4 = 8
    OBVIOUS
  <2>2. chars[j] = u[j] /\ chars[4 + j] = v[j] /\ chars[8 + j] = w[j]
    BY ONLY <1>2, <1>3, <1>5, <2>1
  <2>3. QED
    BY ONLY <1>4, <2>1, <2>2
<1> DEFINE B(k) == Byte(bits, k)
           r == <<B(0), B(1), B(2)>>
           s == <<B(3), B(4), B(5)>>
           t == <<B(6), B(7), B(8)>>
<1>6. /\ 0 + 1 = 1 /\ 0 + 2 = 2 /\ 3 + 1 = 4 /\ 3 + 2 = 5 /\ 6 + 1 = 7 /\ 6 + 2 = 8
  OBVIOUS
<1>7. FromBase64(id, 0) = r
  <2> DEFINE k == 0
             i == 0
  <2>1. k \in Nat /\ \A j \in 1..4 : id[i + j] = ToBase64(bits, k)[j]
    BY <1>5 DEF u
  <2> HIDE DEF k, i
  <2>2. FromBase64(id, i) = <<Byte(bits, k), Byte(bits, k + 1), Byte(bits, k + 2)>>
    BY ONLY <2>1, CharsOfBytes
  <2>3. QED
    BY <1>6, <2>2 DEF k, i
<1>8. FromBase64(id, 4) = s
  <2> DEFINE k == 3
             i == 4
  <2>1. k \in Nat /\ \A j \in 1..4 : id[i + j] = ToBase64(bits, k)[j]
    BY <1>5 DEF v
  <2> HIDE DEF k, i
  <2>2. FromBase64(id, i) = <<Byte(bits, k), Byte(bits, k + 1), Byte(bits, k + 2)>>
    BY ONLY <2>1, CharsOfBytes
  <2>3. QED
    BY <1>6, <2>2 DEF k, i
<1>9. FromBase64(id, 8) = t
  <2> DEFINE k == 6
             i == 8
  <2>1. k \in Nat /\ \A j \in 1..4 : id[i + j] = ToBase64(bits, k)[j]
    BY <1>5 DEF w
  <2> HIDE DEF k, i
  <2>2. FromBase64(id, i) = <<Byte(bits, k), Byte(bits, k + 1), Byte(bits, k + 2)>>
    BY ONLY <2>1, CharsOfBytes
  <2>3. QED
    BY <1>6, <2>2 DEF k, i
<1>10. NineBytes(id) = r \o s \o t
  BY ONLY <1>7, <1>8, <1>9 DEF NineBytes
<1>11. \A k \in 0..8 : B(k) \in Nat
  BY ByteHolds
<1> HIDE DEF B
<1>12. /\ r \in Seq(Nat) /\ s \in Seq(Nat) /\ t \in Seq(Nat)
       /\ Len(r) = 3 /\ Len(s) = 3 /\ Len(t) = 3
  BY ONLY <1>11
<1>13. /\ r[1] = B(0) /\ r[2] = B(1) /\ r[3] = B(2)
       /\ s[1] = B(3) /\ s[2] = B(4) /\ s[3] = B(5)
       /\ t[1] = B(6) /\ t[2] = B(7) /\ t[3] = B(8)
  OBVIOUS
<1> HIDE DEF r, s, t
<1> DEFINE e == r \o s \o t
<1>14. /\ e \in Seq(Nat) /\ Len(e) = 3 * 3
       /\ \A i \in 1..3 : e[i] = r[i] /\ e[3 + i] = s[i] /\ e[2 * 3 + i] = t[i]
  <2> DEFINE n == 3
  <2>1. n \in Nat /\ Len(r) = n /\ Len(s) = n /\ Len(t) = n
    BY <1>12
  <2> HIDE DEF n
  <2>2. /\ r \o s \o t \in Seq(Nat) /\ Len(r \o s \o t) = 3 * n
        /\ \A i \in 1..n : /\ (r \o s \o t)[i] = r[i]
                           /\ (r \o s \o t)[n + i] = s[i]
                           /\ (r \o s \o t)[2 * n + i] = t[i]
    BY ONLY <1>12, <2>1, ThreePieces
  <2>3. QED
    BY <2>2 DEF n
<1> HIDE DEF e
<1>15. /\ e[1] = B(0) /\ e[2] = B(1) /\ e[3] = B(2)
       /\ e[4] = B(3) /\ e[5] = B(4) /\ e[6] = B(5)
       /\ e[7] = B(6) /\ e[8] = B(7) /\ e[9] = B(8)
  <2>1. ASSUME NEW i \in 1..3
        PROVE  e[i] = r[i] /\ e[3 + i] = s[i] /\ e[6 + i] = t[i]
    <3>1. 2 * 3 = 6
      OBVIOUS
    <3>2. QED
      BY <1>14, <3>1
  <2>2. e[1] = r[1] /\ e[3 + 1] = s[1] /\ e[6 + 1] = t[1]
    BY <2>1
  <2>3. e[2] = r[2] /\ e[3 + 2] = s[2] /\ e[6 + 2] = t[2]
    BY <2>1
  <2>4. e[3] = r[3] /\ e[3 + 3] = s[3] /\ e[6 + 3] = t[3]
    BY <2>1
  <2>5. QED
    BY ONLY <1>13, <2>2, <2>3, <2>4
<1>16. ASSUME NEW k \in 0..8 PROVE e[1 + k] = B(k)
  <2>1. k \in {0, 1, 2, 3, 4, 5, 6, 7, 8}
    OBVIOUS
  <2>2. QED
    BY ONLY <1>15, <2>1
<1>17. NineBytes(id) = e /\ Len(e) = 9
  BY <1>10, <1>14 DEF e
<1>18. chars \in Seq(Nat) /\ Len(chars) = 12
  BY <1>2, <1>3
<1>19. QED
  BY <1>14, <1>16, <1>17, <1>18 DEF chars, B

-----------------------------------------------------------------------------
(* Runs of ones. *)

(* Where the run of p begins, its places, and the places of the runs before q. *)
First(c, p) == p + Total(c, p)
Ones(c, p)  == First(c, p)..(First(c, p) + c[p] - 1)
Before(c, q) == UNION {Ones(c, p) : p \in 0..q-1}

(* A run ends before the next one begins. *)
LEMMA RunsApart ==
    ASSUME NEW N \in Nat, NEW c, \A p \in 0..N-1 : c[p] \in Nat
    PROVE  /\ \A p \in 0..N : First(c, p) \in Nat /\ Total(c, p) \in Nat
           /\ \A p \in 0..N, q \in 0..N : p < q => First(c, p) + c[p] < First(c, q)
<1>1. /\ \A k \in 0..N : Total(c, k) \in Nat
      /\ \A k \in 0..N, j \in 0..N : j < k => Total(c, j) + c[j] <= Total(c, k)
  BY TotalGrows
<1>2. ASSUME NEW p \in 0..N PROVE First(c, p) \in Nat
  BY <1>1 DEF First
<1>3. ASSUME NEW p \in 0..N, NEW q \in 0..N, p < q
      PROVE  First(c, p) + c[p] < First(c, q)
  <2>1. /\ Total(c, p) \in Nat /\ Total(c, q) \in Nat
        /\ Total(c, p) + c[p] <= Total(c, q)
    BY <1>1, <1>3
  <2>2. c[p] \in Nat
    BY <1>3
  <2>3. QED
    BY <1>3, <2>1, <2>2 DEF First
<1>4. QED
  BY <1>1, <1>2, <1>3

(* Before run q there are as many ones as the counts before it add up to. *)
LEMMA OnesBefore ==
    ASSUME NEW N \in Nat, NEW c, \A p \in 0..N-1 : c[p] \in Nat
    PROVE  \A q \in 0..N : /\ IsFiniteSet(Before(c, q))
                           /\ Cardinality(Before(c, q)) = Total(c, q)
                           /\ Before(c, q) \subseteq 0..(First(c, q) - 1)
<1> DEFINE Good(q) == /\ IsFiniteSet(Before(c, q))
                      /\ Cardinality(Before(c, q)) = Total(c, q)
                      /\ Before(c, q) \subseteq 0..(First(c, q) - 1)
           S == {q \in Nat : q <= N => Good(q)}
<1>1. /\ \A p \in 0..N : First(c, p) \in Nat /\ Total(c, p) \in Nat
      /\ \A p \in 0..N, q \in 0..N : p < q => First(c, p) + c[p] < First(c, q)
  BY RunsApart
<1>2. 0 \in S
  <2>1. Before(c, 0) = {}
    BY DEF Before
  <2>2. QED
    BY <2>1, FS_EmptySet, TotalDef
<1>3. ASSUME NEW q \in Nat, q \in S PROVE q + 1 \in S
  <2> SUFFICES ASSUME q + 1 <= N PROVE Good(q + 1)
    OBVIOUS
  <2> DEFINE A == Before(c, q)
             B == Ones(c, q)
  <2>1. q \in 0..N /\ q \in 0..N-1 /\ q + 1 \in 0..N /\ q < q + 1 /\ q <= N
    OBVIOUS
  <2>2. /\ First(c, q) \in Nat /\ c[q] \in Nat /\ First(c, q + 1) \in Nat
        /\ Total(c, q) \in Nat /\ First(c, q) + c[q] < First(c, q + 1)
        /\ Total(c, q + 1) = Total(c, q) + c[q]
    BY <1>1, <2>1, TotalDef
  <2>3. Good(q)
    BY <1>3, <2>1
  <2>4. IsFiniteSet(B) /\ Cardinality(B) = c[q]
    <3> DEFINE a == First(c, q)
               b == First(c, q) + c[q] - 1
    <3>1. a \in Int /\ b \in Int /\ (IF a > b THEN 0 ELSE b - a + 1) = c[q]
      BY <2>2
    <3>2. IsFiniteSet(a..b) /\ Cardinality(a..b) = IF a > b THEN 0 ELSE b - a + 1
      BY <3>1, FS_Interval
    <3>3. QED
      BY <3>1, <3>2 DEF Ones
  <2>5. Before(c, q + 1) = A \cup B
    <3>1. 0..(q + 1) - 1 = (0..q-1) \cup {q}
      OBVIOUS
    <3>2. QED
      BY <3>1 DEF Before
  <2>6. A \cap B = {}
    BY <2>2, <2>3 DEF Ones
  <2>7. Before(c, q + 1) \subseteq 0..(First(c, q + 1) - 1)
    BY <2>2, <2>3, <2>5 DEF Ones
  <2> HIDE DEF A, B
  <2>8. IsFiniteSet(A) /\ Cardinality(A) = Total(c, q)
    BY <2>3 DEF A
  <2>9. /\ IsFiniteSet(A \cup B)
        /\ Cardinality(A \cup B) = Cardinality(A) + Cardinality(B) - Cardinality(A \cap B)
    BY <2>4, <2>8, FS_Union
  <2>10. Cardinality(A \cap B) = 0
    BY <2>6, FS_EmptySet
  <2>11. Cardinality(A \cup B) = Total(c, q + 1)
    BY ONLY <2>2, <2>4, <2>8, <2>9, <2>10
  <2>12. QED
    BY <2>5, <2>7, <2>9, <2>11, Zenon
<1> HIDE DEF S
<1>4. \A q \in Nat : q \in S
  BY <1>2, <1>3, Induct
<1>5. QED
  BY <1>4 DEF S

(* The number of places of a run. *)
LEMMA OnesCount ==
    ASSUME NEW N \in Nat, NEW c, \A p \in 0..N-1 : c[p] \in Nat, NEW q \in 0..N-1
    PROVE  IsFiniteSet(Ones(c, q)) /\ Cardinality(Ones(c, q)) = c[q]
<1> DEFINE a == First(c, q)
           b == First(c, q) + c[q] - 1
<1>0. First(c, q) \in Nat
  <2>1. q \in 0..N
    OBVIOUS
  <2>2. QED
    BY <2>1, RunsApart
<1>1. a \in Int /\ b \in Int /\ (IF a > b THEN 0 ELSE b - a + 1) = c[q]
  BY <1>0
<1>2. IsFiniteSet(a..b) /\ Cardinality(a..b) = IF a > b THEN 0 ELSE b - a + 1
  BY <1>1, FS_Interval
<1>3. QED
  BY <1>1, <1>2 DEF Ones

(* A one of run q has q zeros before it. *)
LEMMA ZerosBefore ==
    ASSUME NEW N \in Nat, NEW c, \A p \in 0..N-1 : c[p] \in Nat,
           NEW q \in 0..N-1, NEW n \in Ones(c, q)
    PROVE  n - Cardinality({k \in Before(c, N) : k < n}) = q
<1> DEFINE A == Before(c, q)
           a == First(c, q)
           B == a..n-1
<1>1. /\ \A p \in 0..N : First(c, p) \in Nat /\ Total(c, p) \in Nat
      /\ \A p \in 0..N, r \in 0..N : p < r => First(c, p) + c[p] < First(c, r)
  BY RunsApart
<1>2. q \in 0..N /\ q \in Nat /\ c[q] \in Nat /\ a \in Nat /\ Total(c, q) \in Nat
  BY <1>1
<1>3. n \in Int /\ a <= n /\ n < a + c[q]
  BY <1>2 DEF Ones
<1>4. IsFiniteSet(A) /\ Cardinality(A) = Total(c, q) /\ A \subseteq 0..(a - 1)
  BY <1>2, OnesBefore
<1>5. IsFiniteSet(B) /\ Cardinality(B) = n - a
  <2>1. a \in Int /\ n - 1 \in Int /\ (IF a > n - 1 THEN 0 ELSE n - 1 - a + 1) = n - a
    BY <1>2, <1>3
  <2>2. QED
    BY <2>1, FS_Interval
<1>6. A \cap B = {}
  BY <1>2, <1>3, <1>4
<1>7. {k \in Before(c, N) : k < n} = A \cup B
  <2>1. ASSUME NEW k \in Before(c, N), k < n PROVE k \in A \cup B
    <3>1. PICK p \in 0..N-1 : k \in Ones(c, p)
      BY DEF Before
    <3>2. p \in 0..N /\ c[p] \in Nat /\ First(c, p) \in Nat
      BY <1>1
    <3>3. k \in Int /\ First(c, p) <= k /\ k < First(c, p) + c[p]
      BY <3>1, <3>2 DEF Ones
    <3>4. CASE p < q
      <4>1. p \in 0..q-1
        BY <3>4
      <4>2. QED
        BY <3>1, <4>1 DEF Before
    <3>5. CASE p = q
      BY <1>2, <1>3, <2>1, <3>3, <3>5
    <3>6. CASE q < p
      <4>1. a + c[q] < First(c, p)
        BY <1>1, <1>2, <3>2, <3>6
      <4>2. QED
        BY <1>2, <1>3, <2>1, <3>2, <3>3, <4>1
    <3>7. QED
      BY <3>4, <3>5, <3>6
  <2>2. ASSUME NEW k \in A PROVE k \in Before(c, N) /\ k < n
    <3>1. k < n
      BY <1>2, <1>3, <1>4
    <3>2. 0..q-1 \subseteq 0..N-1
      OBVIOUS
    <3>3. QED
      BY <3>1, <3>2 DEF Before
  <2>3. ASSUME NEW k \in B PROVE k \in Before(c, N) /\ k < n
    <3>1. k \in Ones(c, q)
      BY <1>2, <1>3 DEF Ones
    <3>2. QED
      BY <1>2, <1>3, <3>1 DEF Before
  <2> HIDE DEF A, B
  <2>4. QED
    BY <2>1, <2>2, <2>3
<1> HIDE DEF A, B
<1>8. /\ IsFiniteSet(A \cup B)
      /\ Cardinality(A \cup B) = Cardinality(A) + Cardinality(B) - Cardinality(A \cap B)
  BY <1>4, <1>5, FS_Union
<1>9. Cardinality(A \cap B) = 0
  BY <1>6, FS_EmptySet
<1>10. Cardinality(A \cup B) = Total(c, q) + (n - a)
  BY ONLY <1>2, <1>3, <1>4, <1>5, <1>8, <1>9
<1>11. n - (Total(c, q) + (n - a)) = q
  BY <1>2, <1>3 DEF First
<1>12. QED
  BY ONLY <1>7, <1>10, <1>11

(* The ones with q zeros before them are the run of q. *)
LEMMA RunFound ==
    ASSUME NEW N \in Nat, NEW c, \A p \in 0..N-1 : c[p] \in Nat, NEW q \in 0..N-1
    PROVE  {n \in Before(c, N) : n - Cardinality({k \in Before(c, N) : k < n}) = q} = Ones(c, q)
<1> DEFINE bits == Before(c, N)
           At(n) == n - Cardinality({k \in bits : k < n})
<1>1. \A p \in 0..N-1 : \A n \in Ones(c, p) : At(n) = p
  BY ZerosBefore
<1>2. bits = UNION {Ones(c, p) : p \in 0..N-1}
  BY DEF Before
<1> HIDE DEF bits, At
<1>3. ASSUME NEW n \in bits, At(n) = q PROVE n \in Ones(c, q)
  <2>1. PICK p \in 0..N-1 : n \in Ones(c, p)
    BY <1>2
  <2>2. QED
    BY <1>1, <1>3, <2>1
<1>4. ASSUME NEW n \in Ones(c, q) PROVE n \in bits /\ At(n) = q
  BY <1>1, <1>2
<1>5. {n \in bits : At(n) = q} = Ones(c, q)
  BY <1>3, <1>4
<1>6. QED
  BY <1>5 DEF At, bits

(* A sum in two parts. *)
LEMMA TotalSplit ==
    ASSUME NEW f, NEW g, NEW n \in Nat, NEW m \in Nat,
           \A k \in 0..(n+m)-1 : f[k] \in Nat, \A k \in 0..m-1 : f[n + k] = g[k]
    PROVE  Total(f, n + m) = Total(f, n) + Total(g, m)
<1> DEFINE S == {k \in Nat : k <= m => Total(f, n + k) = Total(f, n) + Total(g, k)}
<1>0. /\ \A k \in 0..(n+m) : Total(f, k) \in Nat
      /\ \A k \in 0..m : Total(g, k) \in Nat
  <2>1. n + m \in Nat /\ \A k \in 0..m-1 : n + k \in 0..(n+m)-1
    OBVIOUS
  <2>2. \A k \in 0..m-1 : g[k] \in Nat
    BY <2>1
  <2>3. \A k \in 0..(n+m) : Total(f, k) \in Nat
    BY <2>1, TotalGrows
  <2>4. QED
    BY <2>2, <2>3, TotalGrows
<1>1. 0 \in S
  <2>1. n + 0 = n /\ n \in 0..(n+m)
    OBVIOUS
  <2>2. Total(f, n) \in Nat /\ Total(g, 0) = 0
    BY <1>0, <2>1, TotalDef
  <2>3. QED
    BY <2>1, <2>2
<1>2. ASSUME NEW k \in Nat, k \in S PROVE k + 1 \in S
  <2> SUFFICES ASSUME k + 1 <= m PROVE Total(f, n + (k + 1)) = Total(f, n) + Total(g, k + 1)
    OBVIOUS
  <2>1. /\ n + k \in Nat /\ n + (k + 1) = (n + k) + 1 /\ k \in 0..m-1 /\ k <= m
        /\ n + k \in 0..(n+m)-1 /\ k \in 0..m /\ n \in 0..(n+m)
    OBVIOUS
  <2>2. Total(f, (n + k) + 1) = Total(f, n + k) + f[n + k]
    BY <2>1, TotalDef
  <2>3. Total(g, k + 1) = Total(g, k) + g[k]
    BY TotalDef
  <2>4. /\ Total(f, n) \in Nat /\ Total(g, k) \in Nat /\ f[n + k] = g[k]
        /\ f[n + k] \in Nat /\ Total(f, n + k) = Total(f, n) + Total(g, k)
    BY <1>0, <1>2, <2>1
  <2>5. QED
    BY ONLY <2>1, <2>2, <2>3, <2>4
<1> HIDE DEF S
<1>3. m \in S
  BY <1>1, <1>2, Induct
<1>4. QED
  BY <1>3 DEF S

-----------------------------------------------------------------------------
(* The position ID. *)

(* The chequers of the points, side after side. *)
LEMMA Counts ==
    ASSUME NEW b \in Board
    PROVE  /\ \A p \in 0..50-1 : nc(b)[p] \in 0..15
           /\ \A s \in 0..1, i \in Slot : /\ 25 * s + i \in 0..49
                                          /\ nc(b)[25 * s + i] = b[s][i]
           /\ \A p \in 0..49 : iBit(b, p) = First(nc(b), p)
           /\ Total(nc(b), 50) = SideCount(b[0]) + SideCount(b[1])
<1> DEFINE c == nc(b)
<1>1. \A s \in 0..1, i \in Slot : b[s][i] \in 0..15
  BY DEF Board
<1>2. ASSUME NEW p \in 0..49
      PROVE  c[p] = b[p \div 25][p % 25] /\ p \div 25 \in 0..1 /\ p % 25 \in Slot
  BY DEF nc, Slot
<1>3. ASSUME NEW s \in 0..1, NEW i \in Slot
      PROVE  25 * s + i \in 0..49 /\ c[25 * s + i] = b[s][i]
  <2>1. /\ 25 * s + i \in 0..49 /\ (25 * s + i) \div 25 = s /\ (25 * s + i) % 25 = i
    BY DEF Slot
  <2>2. c[25 * s + i] = b[(25 * s + i) \div 25][(25 * s + i) % 25]
    BY <1>2, <2>1
  <2>3. QED
    BY ONLY <2>1, <2>2
<1>4. \A p \in 0..50-1 : c[p] \in 0..15
  <2>1. 50 - 1 = 49
    OBVIOUS
  <2>2. ASSUME NEW p \in 0..49 PROVE c[p] \in 0..15
    BY <1>1, <1>2, Zenon
  <2>3. QED
    BY ONLY <2>1, <2>2
<1>5. \A p \in 0..49 : iBit(b, p) = First(c, p)
  BY DEF iBit, First
<1> HIDE DEF c
<1>6. Total(c, 50) = SideCount(b[0]) + SideCount(b[1])
  <2> DEFINE n == 25
             f == b[0]
             g == b[1]
  <2>1. n \in Nat /\ n + n = 50
    OBVIOUS
  <2>2. \A k \in 0..(n+n)-1 : c[k] \in Nat
    BY <1>4
  <2>3. \A k \in 0..n-1 : c[k] = f[k] /\ c[n + k] = g[k]
    <3>1. ASSUME NEW k \in 0..n-1 PROVE c[k] = f[k] /\ c[n + k] = g[k]
      <4>1. k \in Slot /\ 0 \in 0..1 /\ 1 \in 0..1 /\ 25 * 0 + k = k /\ 25 * 1 + k = n + k
        BY DEF Slot
      <4>2. c[25 * 0 + k] = b[0][k] /\ c[25 * 1 + k] = b[1][k]
        BY <1>3, <4>1
      <4>3. QED
        BY <4>1, <4>2
    <3>2. QED
      BY <3>1
  <2>4. SideCount(b[0]) = Total(f, n) /\ SideCount(b[1]) = Total(g, n)
    BY DEF SideCount
  <2> HIDE DEF n, f, g
  <2>5. Total(c, n + n) = Total(c, n) + Total(g, n)
    BY <2>1, <2>2, <2>3, TotalSplit
  <2>6. Total(c, n) = Total(f, n)
    BY <2>1, <2>3, TotalSame
  <2>7. QED
    BY ONLY <2>1, <2>4, <2>5, <2>6
<1>7. QED
  BY <1>3, <1>4, <1>5, <1>6 DEF c

(* The key of a board with at most 15 chequers a side is the runs of its
   points, and they end within its 80 bits. *)
LEMMA KeyIsRuns ==
    ASSUME NEW b \in Board, SideCount(b[0]) <= 15, SideCount(b[1]) <= 15
    PROVE  oldPositionKey(b) = Before(nc(b), 50) /\ Before(nc(b), 50) \subseteq 0..79
<1> DEFINE c == nc(b)
           N == 50
<1>1. /\ \A p \in 0..N-1 : c[p] \in 0..15
      /\ \A p \in 0..49 : iBit(b, p) = First(c, p)
      /\ Total(c, N) = SideCount(b[0]) + SideCount(b[1])
  BY Counts
<1>2. N \in Nat /\ N = 50 /\ \A p \in 0..N-1 : c[p] \in Nat
  BY <1>1
<1> HIDE DEF c, N
<1>3. /\ \A p \in 0..N : First(c, p) \in Nat /\ Total(c, p) \in Nat
      /\ \A p \in 0..N, q \in 0..N : p < q => First(c, p) + c[p] < First(c, q)
  BY <1>2, RunsApart
<1>4. First(c, N) <= 80 /\ First(c, N) \in Nat
  <2>1. SideCount(b[0]) \in Int /\ SideCount(b[1]) \in Int
    <3>1. ASSUME NEW s \in 0..1 PROVE SideCount(b[s]) \in Int
      <4> DEFINE f == b[s]
                 n == 25
      <4>1. \A k \in 0..n-1 : f[k] \in Nat
        BY DEF Board, Slot
      <4>2. n \in Nat /\ n \in 0..n
        OBVIOUS
      <4> HIDE DEF f, n
      <4>3. Total(f, n) \in Nat
        BY <4>1, <4>2, TotalGrows
      <4>4. QED
        BY <4>3 DEF f, n, SideCount
    <3>2. QED
      BY <3>1
  <2>2. N \in 0..N /\ First(c, N) \in Nat
    BY <1>2, <1>3
  <2>3. QED
    BY ONLY <1>1, <1>2, <2>1, <2>2, SideCount(b[0]) <= 15, SideCount(b[1]) <= 15 DEF First
<1>5. ASSUME NEW p \in 0..49
      PROVE  addBits(iBit(b, p), c[p]) = Ones(c, p)
  <2>1. p \in 0..N /\ p \in 0..N-1 /\ N \in 0..N /\ p < N
    BY <1>2
  <2>2. /\ First(c, p) \in Nat /\ c[p] \in Nat /\ c[p] <= 15
        /\ First(c, p) + c[p] < First(c, N)
    BY <1>1, <1>3, <2>1
  <2> DEFINE a == First(c, p)
             d == c[p]
  <2>3. a \in Nat /\ d \in Nat /\ d <= 15 /\ a + d < 80
    BY <1>4, <2>2
  <2>4. Ones(c, p) = a..a+d-1 /\ iBit(b, p) = a
    BY <1>1, <1>2 DEF Ones
  <2> HIDE DEF a, d
  <2>5. ASSUME NEW n \in a..a+d-1 PROVE n \div 8 <= a \div 8 + 2 /\ n < 80
    BY <2>3
  <2>6. addBits(a, d) = a..a+d-1
    BY <2>5 DEF addBits
  <2>7. QED
    BY ONLY <2>4, <2>6 DEF d
<1>6. ASSUME NEW p \in 0..49, ~(c[p] > 0) PROVE Ones(c, p) = {}
  <2>1. c[p] = 0 /\ First(c, p) \in Nat
    BY <1>1, <1>2, <1>3, <1>6
  <2>2. QED
    BY <2>1 DEF Ones
<1>7. oldPositionKey(b) = UNION {addBits(iBit(b, p), c[p]) : p \in {q \in 0..49 : c[q] > 0}}
  BY DEF oldPositionKey, c
<1>8. Before(c, N) = UNION {Ones(c, p) : p \in 0..49}
  <2>1. N - 1 = 49
    BY <1>2
  <2>2. QED
    BY ONLY <2>1 DEF Before
<1>9. oldPositionKey(b) = Before(c, N)
  <2>1. ASSUME NEW n \in oldPositionKey(b) PROVE n \in Before(c, N)
    <3>1. PICK p \in 0..49 : n \in addBits(iBit(b, p), c[p])
      BY <1>7
    <3>2. n \in Ones(c, p)
      BY <1>5, <3>1
    <3>3. QED
      BY <1>8, <3>2
  <2>2. ASSUME NEW n \in Before(c, N) PROVE n \in oldPositionKey(b)
    <3>1. PICK p \in 0..49 : n \in Ones(c, p)
      BY <1>8
    <3>2. c[p] > 0 /\ n \in addBits(iBit(b, p), c[p])
      BY <1>5, <1>6, <3>1
    <3>3. QED
      BY <1>7, <3>2
  <2>3. QED
    BY <2>1, <2>2
<1>10. Before(c, N) \subseteq 0..79
  <2>1. N \in 0..N
    BY <1>2
  <2>2. Before(c, N) \subseteq 0..(First(c, N) - 1)
    <3>1. N \in Nat /\ \A p \in 0..N-1 : c[p] \in Nat
      BY <1>2
    <3>2. \A q \in 0..N : Before(c, q) \subseteq 0..(First(c, q) - 1)
      BY ONLY <3>1, OnesBefore
    <3>3. QED
      BY ONLY <2>1, <3>2
  <2>3. QED
    BY <1>4, <2>2
<1>11. QED
  BY <1>9, <1>10 DEF c, N

(* The board is read back from the runs. *)
LEMMA BoardFromRuns ==
    ASSUME NEW b \in Board
    PROVE  oldPositionFromKey(Before(nc(b), 50)) = b
<1> DEFINE c == nc(b)
           N == 50
           bits == Before(c, N)
           At(n) == n - Cardinality({k \in bits : k < n})
           at == [n \in bits |-> At(n)]
<1>1. /\ \A p \in 0..N-1 : c[p] \in 0..15
      /\ \A s \in 0..1, i \in Slot : 25 * s + i \in 0..49 /\ c[25 * s + i] = b[s][i]
  BY Counts
<1>2. N \in Nat /\ N = 50 /\ N - 1 = 49 /\ \A p \in 0..N-1 : c[p] \in Nat
  BY <1>1
<1>3. oldPositionFromKey(bits) =
          [s \in 0..1 |-> [i \in Slot |-> Cardinality({n \in bits : at[n] = 25 * s + i})]]
  BY DEF oldPositionFromKey
<1> HIDE DEF c, N
<1>4. ASSUME NEW q \in 0..N-1 PROVE Cardinality({n \in bits : at[n] = q}) = c[q]
  <2>0. N \in Nat /\ \A p \in 0..N-1 : c[p] \in Nat
    BY <1>2
  <2>1. {n \in bits : At(n) = q} = Ones(c, q)
    BY ONLY <2>0, <1>4, RunFound
  <2>2. Cardinality(Ones(c, q)) = c[q]
    BY ONLY <2>0, <1>4, OnesCount
  <2> HIDE DEF bits, At
  <2>3. {n \in bits : at[n] = q} = {n \in bits : At(n) = q}
    OBVIOUS
  <2>4. QED
    BY ONLY <2>1, <2>2, <2>3
<1> HIDE DEF bits, at
<1> DEFINE Read(s, i) == Cardinality({n \in bits : at[n] = 25 * s + i})
<1>5. ASSUME NEW s \in 0..1, NEW i \in Slot PROVE Read(s, i) = b[s][i]
  <2> DEFINE q == 25 * s + i
  <2>1. q \in 0..N-1 /\ c[q] = b[s][i]
    BY <1>1, <1>2
  <2> HIDE DEF q
  <2>2. Cardinality({n \in bits : at[n] = q}) = c[q]
    BY <1>4, <2>1
  <2>3. QED
    BY ONLY <2>1, <2>2 DEF q
<1> HIDE DEF Read
<1>6. ASSUME NEW s \in 0..1 PROVE [i \in Slot |-> Read(s, i)] = b[s]
  <2>1. b[s] \in [Slot -> 0..15]
    BY DEF Board
  <2>2. QED
    BY <1>5, <2>1
<1>7. [s \in 0..1 |-> [i \in Slot |-> Read(s, i)]] = b
  BY <1>6 DEF Board
<1>8. QED
  BY <1>3, <1>7 DEF Read, bits, c, N

(* The ID of a position that CheckPosition accepts gives the position back. *)
LEMMA PositionIDHolds ==
    ASSUME NEW b \in Board, CheckPosition(b)
    PROVE  PositionFromID(PositionID(b)) = [ok |-> TRUE, board |-> b]
<1> DEFINE bits == oldPositionKey(b)
           x == Byte(bits, 9)
           chars == TwelveChars(bits)
           d == <<x \div 4, (x % 4) * 16>>
           id == PositionID(b)
           nine == NineBytes(id)
           bytes == nine \o <<((id[13] * 4) % 256) + id[14] \div 16>>
<1>1. bits = Before(nc(b), 50) /\ bits \subseteq 0..79
  <2>1. SideCount(b[0]) <= 15 /\ SideCount(b[1]) <= 15
    BY DEF CheckPosition
  <2>2. QED
    BY <2>1, KeyIsRuns
<1>2. oldPositionFromKey(bits) = b
  BY <1>1, BoardFromRuns
<1>3. id = chars \o d
  BY DEF PositionID
<1>4. PositionFromID(id) = [ok |-> CheckPosition(oldPositionFromKey(Places(bytes))),
                            board |-> oldPositionFromKey(Places(bytes))]
  BY DEF PositionFromID
<1>5. x \in Nat /\ x < 256
  <2> DEFINE k == 9
  <2>1. k \in Nat
    OBVIOUS
  <2> HIDE DEF k, bits
  <2>2. Byte(bits, k) \in Nat /\ Byte(bits, k) < 256
    BY <2>1, ByteHolds
  <2>3. QED
    BY <2>2 DEF k
<1> HIDE DEF bits, id
<1>6. chars \in Seq(Nat) /\ Len(chars) = 12
  <2>1. \A j \in 1..12 : chars[j] = TwelveChars(bits)[j]
    OBVIOUS
  <2> HIDE DEF chars
  <2>2. QED
    BY <2>1, TwelveForNine DEF chars
<1> HIDE DEF x, chars
<1>7. d \in Seq(Nat) /\ Len(d) = 2 /\ d[1] = x \div 4 /\ d[2] = (x % 4) * 16
  BY <1>5
<1> HIDE DEF d
<1>8. /\ \A i \in 1..12 : id[i] = chars[i]
      /\ id[13] = x \div 4 /\ id[14] = (x % 4) * 16
  <2>1. /\ \A i \in 1..Len(chars) : (chars \o d)[i] = chars[i]
        /\ \A i \in 1..Len(d) : (chars \o d)[Len(chars) + i] = d[i]
    BY <1>6, <1>7, Joined
  <2>2. ASSUME NEW i \in 1..2 PROVE id[12 + i] = d[i]
    BY ONLY <1>3, <1>6, <1>7, <2>1, <2>2
  <2>3. 12 + 1 = 13 /\ 12 + 2 = 14 /\ id[12 + 1] = d[1] /\ id[12 + 2] = d[2]
    BY <2>2
  <2>4. QED
    BY ONLY <1>3, <1>6, <1>7, <2>1, <2>3
<1>9. /\ nine \in Seq(Nat) /\ Len(nine) = 9
      /\ \A k \in 0..8 : nine[1 + k] = Byte(bits, k)
  <2>1. \A j \in 1..12 : id[j] = TwelveChars(bits)[j]
    BY <1>8 DEF chars
  <2>2. QED
    BY <2>1, TwelveForNine
<1> HIDE DEF nine
<1>10. ((id[13] * 4) % 256) + id[14] \div 16 = x
  BY ONLY <1>5, <1>8, LastByteHolds
<1>11. bytes = nine \o <<x>>
  BY <1>10
<1> HIDE DEF bytes
<1>12. Len(bytes) = 10 /\ \A k \in 0..9 : bytes[1 + k] = Byte(bits, k)
  <2> DEFINE t == <<x>>
  <2>1. t \in Seq(Nat) /\ Len(t) = 1 /\ t[1] = x
    BY <1>5
  <2> HIDE DEF t
  <2>2. /\ Len(nine \o t) = Len(nine) + Len(t)
        /\ \A i \in 1..Len(nine) : (nine \o t)[i] = nine[i]
        /\ \A i \in 1..Len(t) : (nine \o t)[Len(nine) + i] = t[i]
    BY <1>9, <2>1, Joined
  <2>3. bytes = nine \o t
    BY <1>11 DEF t
  <2>4. ASSUME NEW k \in 0..8 PROVE bytes[1 + k] = Byte(bits, k)
    <3>1. 1 + k \in 1..9
      OBVIOUS
    <3>2. bytes[1 + k] = nine[1 + k]
      BY ONLY <1>9, <2>2, <2>3, <3>1
    <3>3. QED
      BY <1>9, <3>2
  <2>5. bytes[1 + 9] = x
    <3>1. 1 \in 1..1 /\ 9 + 1 = 1 + 9
      OBVIOUS
    <3>2. QED
      BY ONLY <1>9, <2>1, <2>2, <2>3, <3>1
  <2>6. ASSUME NEW k \in 0..9 PROVE bytes[1 + k] = Byte(bits, k)
    <3>1. k \in 0..8 \/ k = 9
      OBVIOUS
    <3>2. QED
      BY ONLY <2>4, <2>5, <3>1 DEF x
  <2>7. Len(bytes) = 10
    BY ONLY <1>9, <2>1, <2>2, <2>3
  <2>8. QED
    BY ONLY <2>6, <2>7
<1>13. Places(bytes) = bits
  <2> DEFINE N == 10
  <2>1. /\ N \in Nat /\ Len(bytes) = N /\ bits \subseteq 0..8*N-1
        /\ \A k \in 0..N-1 : bytes[1 + k] = Byte(bits, k)
    BY <1>1, <1>12
  <2> HIDE DEF N
  <2>2. QED
    BY ONLY <2>1, PlacesOfBytes
<1>14. QED
  BY <1>2, <1>4, <1>13 DEF id

-----------------------------------------------------------------------------
(* The match ID. *)

(* One more bit of v. *)
LEMMA OneMoreBit ==
    ASSUME NEW v \in Nat, NEW k \in 0..14
    PROVE  v % 2^(k + 1) = (v % 2^k) + (IF Bit(v, k) THEN 2^k ELSE 0)
<1>0. k \in {0, 1, 2, 3, 4, 5, 6, 7, 8, 9, 10, 11, 12, 13, 14}
  OBVIOUS
<1>1. CASE k = 0
  <2>1. v % 2 = (v % 1) + (IF (v \div 1) % 2 = 1 THEN 1 ELSE 0)
    OBVIOUS
  <2>2. 2^0 = 1 /\ 2^(0 + 1) = 2
    OBVIOUS
  <2>3. QED
    BY ONLY <1>1, <2>1, <2>2 DEF Bit
<1>2. CASE k = 1
  <2>1. v % 4 = (v % 2) + (IF (v \div 2) % 2 = 1 THEN 2 ELSE 0)
    OBVIOUS
  <2>2. 2^1 = 2 /\ 2^(1 + 1) = 4
    OBVIOUS
  <2>3. QED
    BY ONLY <1>2, <2>1, <2>2 DEF Bit
<1>3. CASE k = 2
  <2>1. v % 8 = (v % 4) + (IF (v \div 4) % 2 = 1 THEN 4 ELSE 0)
    OBVIOUS
  <2>2. 2^2 = 4 /\ 2^(2 + 1) = 8
    OBVIOUS
  <2>3. QED
    BY ONLY <1>3, <2>1, <2>2 DEF Bit
<1>4. CASE k = 3
  <2>1. v % 16 = (v % 8) + (IF (v \div 8) % 2 = 1 THEN 8 ELSE 0)
    OBVIOUS
  <2>2. 2^3 = 8 /\ 2^(3 + 1) = 16
    OBVIOUS
  <2>3. QED
    BY ONLY <1>4, <2>1, <2>2 DEF Bit
<1>5. CASE k = 4
  <2>1. v % 32 = (v % 16) + (IF (v \div 16) % 2 = 1 THEN 16 ELSE 0)
    OBVIOUS
  <2>2. 2^4 = 16 /\ 2^(4 + 1) = 32
    OBVIOUS
  <2>3. QED
    BY ONLY <1>5, <2>1, <2>2 DEF Bit
<1>6. CASE k = 5
  <2>1. v % 64 = (v % 32) + (IF (v \div 32) % 2 = 1 THEN 32 ELSE 0)
    OBVIOUS
  <2>2. 2^5 = 32 /\ 2^(5 + 1) = 64
    OBVIOUS
  <2>3. QED
    BY ONLY <1>6, <2>1, <2>2 DEF Bit
<1>7. CASE k = 6
  <2>1. v % 128 = (v % 64) + (IF (v \div 64) % 2 = 1 THEN 64 ELSE 0)
    OBVIOUS
  <2>2. 2^6 = 64 /\ 2^(6 + 1) = 128
    OBVIOUS
  <2>3. QED
    BY ONLY <1>7, <2>1, <2>2 DEF Bit
<1>8. CASE k = 7
  <2>1. v % 256 = (v % 128) + (IF (v \div 128) % 2 = 1 THEN 128 ELSE 0)
    OBVIOUS
  <2>2. 2^7 = 128 /\ 2^(7 + 1) = 256
    OBVIOUS
  <2>3. QED
    BY ONLY <1>8, <2>1, <2>2 DEF Bit
<1>9. CASE k = 8
  <2>1. v % 512 = (v % 256) + (IF (v \div 256) % 2 = 1 THEN 256 ELSE 0)
    OBVIOUS
  <2>2. 2^8 = 256 /\ 2^(8 + 1) = 512
    OBVIOUS
  <2>3. QED
    BY ONLY <1>9, <2>1, <2>2 DEF Bit
<1>10. CASE k = 9
  <2>1. v % 1024 = (v % 512) + (IF (v \div 512) % 2 = 1 THEN 512 ELSE 0)
    OBVIOUS
  <2>2. 2^9 = 512 /\ 2^(9 + 1) = 1024
    OBVIOUS
  <2>3. QED
    BY ONLY <1>10, <2>1, <2>2 DEF Bit
<1>11. CASE k = 10
  <2>1. v % 2048 = (v % 1024) + (IF (v \div 1024) % 2 = 1 THEN 1024 ELSE 0)
    OBVIOUS
  <2>2. 2^10 = 1024 /\ 2^(10 + 1) = 2048
    OBVIOUS
  <2>3. QED
    BY ONLY <1>11, <2>1, <2>2 DEF Bit
<1>12. CASE k = 11
  <2>1. v % 4096 = (v % 2048) + (IF (v \div 2048) % 2 = 1 THEN 2048 ELSE 0)
    OBVIOUS
  <2>2. 2^11 = 2048 /\ 2^(11 + 1) = 4096
    OBVIOUS
  <2>3. QED
    BY ONLY <1>12, <2>1, <2>2 DEF Bit
<1>13. CASE k = 12
  <2>1. v % 8192 = (v % 4096) + (IF (v \div 4096) % 2 = 1 THEN 4096 ELSE 0)
    OBVIOUS
  <2>2. 2^12 = 4096 /\ 2^(12 + 1) = 8192
    OBVIOUS
  <2>3. QED
    BY ONLY <1>13, <2>1, <2>2 DEF Bit
<1>14. CASE k = 13
  <2>1. v % 16384 = (v % 8192) + (IF (v \div 8192) % 2 = 1 THEN 8192 ELSE 0)
    OBVIOUS
  <2>2. 2^13 = 8192 /\ 2^(13 + 1) = 16384
    OBVIOUS
  <2>3. QED
    BY ONLY <1>14, <2>1, <2>2 DEF Bit
<1>15. CASE k = 14
  <2>1. v % 32768 = (v % 16384) + (IF (v \div 16384) % 2 = 1 THEN 16384 ELSE 0)
    OBVIOUS
  <2>2. 2^14 = 16384 /\ 2^(14 + 1) = 32768
    OBVIOUS
  <2>3. QED
    BY ONLY <1>15, <2>1, <2>2 DEF Bit
<1>16. QED
  BY ONLY <1>0, <1>1, <1>2, <1>3, <1>4, <1>5, <1>6, <1>7, <1>8, <1>9, <1>10, <1>11, <1>12, <1>13, <1>14, <1>15

(* The bits of a number below 2^n, taken together, are the number. *)
LEMMA FieldHolds ==
    ASSUME NEW bits, NEW p \in Nat, NEW n \in 0..15, NEW v \in Nat, v < 2^n,
           \A i \in 0..n-1 : p + i \in bits <=> Bit(v, i)
    PROVE  GetBits(bits, p, n) = v
<1> DEFINE W(i) == IF p + i \in bits THEN 2^i ELSE 0
           f == [i \in 0..n-1 |-> W(i)]
           S == {k \in Nat : k <= n => Total(f, k) = v % 2^k}
<1>2. 0 \in S
  <2>1. 2^0 = 1 /\ v % 1 = 0 /\ Total(f, 0) = 0
    BY TotalDef
  <2>2. QED
    BY ONLY <2>1
<1>3. ASSUME NEW k \in Nat, k \in S PROVE k + 1 \in S
  <2> SUFFICES ASSUME k + 1 <= n PROVE Total(f, k + 1) = v % 2^(k + 1)
    OBVIOUS
  <2>1. k \in 0..14 /\ k \in 0..n-1 /\ k <= n
    OBVIOUS
  <2>2. Total(f, k + 1) = Total(f, k) + f[k]
    BY TotalDef
  <2>3. Total(f, k) = v % 2^k
    BY <1>3, <2>1
  <2>4. f[k] = W(k)
    <3> HIDE DEF W
    <3>1. QED
      BY <2>1
  <2>5. W(k) = IF Bit(v, k) THEN 2^k ELSE 0
    BY <2>1
  <2>6. v % 2^(k + 1) = (v % 2^k) + (IF Bit(v, k) THEN 2^k ELSE 0)
    BY <2>1, OneMoreBit
  <2> HIDE DEF W, f
  <2>7. QED
    BY ONLY <2>2, <2>3, <2>4, <2>5, <2>6
<1> HIDE DEF S
<1>4. n \in S
  BY <1>2, <1>3, Induct
<1>5. Total(f, n) = v % 2^n
  BY <1>4 DEF S
<1>6. v % 2^n = v
  <2> DEFINE w == 2^n
  <2>1. v < w
    OBVIOUS
  <2>2. w \in Nat
    OBVIOUS
  <2> HIDE DEF w
  <2>3. v % w = v
    BY ONLY v \in Nat, <2>1, <2>2
  <2>4. QED
    BY <2>3 DEF w
<1>7. GetBits(bits, p, n) = Total(f, n)
  BY DEF GetBits
<1>8. QED
  BY ONLY <1>5, <1>6, <1>7

(* Where SetBits puts the bits of a number. *)
LEMMA FieldSet ==
    ASSUME NEW p \in Nat, NEW n \in Nat, NEW v
    PROVE  /\ \A k \in SetBits(p, n, v) : k \in Nat /\ p <= k /\ k < p + n
           /\ \A i \in 0..n-1 : p + i \in SetBits(p, n, v) <=> Bit(v, i)
<1>1. SetBits(p, n, v) = {k \in p..p+n-1 : Bit(v, k - p)}
  BY DEF SetBits, Bit
<1>2. ASSUME NEW i \in 0..n-1 PROVE p + i \in p..p+n-1 /\ (p + i) - p = i
  OBVIOUS
<1>3. QED
  BY <1>1, <1>2

(* The cube is a power of two that LogCube finds. *)
LEMMA LogCubeHolds ==
    ASSUME NEW i \in 0..12
    PROVE  LogCube(2^i) = i
<1>1. i \in 0..30
  OBVIOUS
<1>2. QED
  BY <1>1, Logarithm DEF LogCube

(* The numbers that fields of 1, 2, 3, 4 and 15 bits hold. *)
LEMMA Widths ==
    ASSUME NEW n
    PROVE  /\ n = 1 => 2^n = 2
           /\ n = 2 => 2^n = 4
           /\ n = 3 => 2^n = 8
           /\ n = 4 => 2^n = 16
           /\ n = 15 => 2^n = 32768
<1> DEFINE w == 2^n
<1>1. n = 1 => w = 2
  OBVIOUS
<1>2. n = 2 => w = 4
  OBVIOUS
<1>3. n = 3 => w = 8
  OBVIOUS
<1>4. n = 4 => w = 16
  OBVIOUS
<1>5. n = 15 => w = 32768
  OBVIOUS
<1> HIDE DEF w
<1>6. /\ n = 1 => w = 2
      /\ n = 2 => w = 4
      /\ n = 3 => w = 8
      /\ n = 4 => w = 16
      /\ n = 15 => w = 32768
  BY ONLY <1>1, <1>2, <1>3, <1>4, <1>5
<1>7. QED
  BY ONLY <1>6 DEF w

(* The bits of one field of a key are those that SetBits has put there, if no
   other field has a bit there. *)
LEMMA FieldOf ==
    ASSUME NEW bits, NEW p \in Nat, NEW n, NEW v \in Nat,
           \/ n = 1 /\ v < 2
           \/ n = 2 /\ v < 4
           \/ n = 3 /\ v < 8
           \/ n = 4 /\ v < 16
           \/ n = 15 /\ v < 32768,
           \A k \in bits : p <= k /\ k < p + n => k \in SetBits(p, n, v),
           SetBits(p, n, v) \subseteq bits
    PROVE  GetBits(bits, p, n) = v
<1> DEFINE w == 2^n
<1>1. /\ n = 1 => w = 2
      /\ n = 2 => w = 4
      /\ n = 3 => w = 8
      /\ n = 4 => w = 16
      /\ n = 15 => w = 32768
  BY Widths
<1> HIDE DEF w
<1>2. n \in 0..15 /\ n \in Nat
  OBVIOUS
<1>3. v < w
  <2>1. \/ n = 1 /\ v < 2
        \/ n = 2 /\ v < 4
        \/ n = 3 /\ v < 8
        \/ n = 4 /\ v < 16
        \/ n = 15 /\ v < 32768
    OBVIOUS
  <2>2. QED
    BY ONLY <1>1, <2>1
<1>4. \A i \in 0..n-1 : p + i \in SetBits(p, n, v) <=> Bit(v, i)
  BY <1>2, FieldSet
<1>5. ASSUME NEW i \in 0..n-1 PROVE p + i \in bits <=> Bit(v, i)
  <2>1. p <= p + i /\ p + i < p + n
    BY <1>2
  <2>2. QED
    BY <1>4, <2>1
<1>6. QED
  BY <1>2, <1>3, <1>5, FieldHolds DEF w

(* The numbers that MatchID writes fit their fields. *)
LEMMA MatchNumbers ==
    ASSUME NEW m \in MatchFields, NEW high \in {1, 2}
    PROVE  /\ LogCube(m.nCube) \in Nat /\ LogCube(m.nCube) < 16 /\ 2^LogCube(m.nCube) = m.nCube
           /\ m.fCubeOwner % 4 \in Nat /\ m.fCubeOwner % 4 < 4
           /\ m.fMove \in Nat /\ m.fMove < 2
           /\ m.gs \in Nat /\ m.gs < 8
           /\ m.fTurn \in Nat /\ m.fTurn < 2
           /\ m.fResigned \in Nat /\ m.fResigned < 4
           /\ m.anDice[high] \in 0..6 /\ m.anDice[3 - high] \in 0..6
           /\ m.nMatchTo \in Nat /\ m.nMatchTo < 32768
           /\ m.nMatchTo % 32768 = m.nMatchTo
           /\ \A p \in 0..1 : /\ m.anScore[p] \in Nat /\ m.anScore[p] < 32768
                              /\ m.anScore[p] % 32768 = m.anScore[p]
<1>0. m.nCube \in {2^i : i \in 0..12} /\ m.anScore \in [0..1 -> 0..2^15-1]
  BY Zenon DEF MatchFields
<1>a. m.fCubeOwner \in {-1, 0, 1}
  BY Zenon DEF MatchFields
<1>b. m.fMove \in 0..1 /\ m.gs \in 0..4 /\ m.fTurn \in 0..1 /\ m.fResigned \in 0..3
  BY Zenon DEF MatchFields
<1>c. m.anDice \in (0..6) \X (0..6) /\ m.nMatchTo \in 0..MAXSCORE
  BY Zenon DEF MatchFields
<1>1. 2^15 = 32768
  OBVIOUS
<1>2. LogCube(m.nCube) \in Nat /\ LogCube(m.nCube) < 16 /\ 2^LogCube(m.nCube) = m.nCube
  <2>1. PICK i \in 0..12 : m.nCube = 2^i
    BY <1>0, Zenon
  <2>2. LogCube(m.nCube) = i
    BY <2>1, LogCubeHolds, Zenon
  <2>3. i \in Nat /\ i < 16
    OBVIOUS
  <2>4. QED
    BY ONLY <2>1, <2>2, <2>3
<1>3. m.fCubeOwner % 4 \in Nat /\ m.fCubeOwner % 4 < 4
  BY ONLY <1>a
<1>4. /\ m.fMove \in Nat /\ m.fMove < 2 /\ m.gs \in Nat /\ m.gs < 8
      /\ m.fTurn \in Nat /\ m.fTurn < 2 /\ m.fResigned \in Nat /\ m.fResigned < 4
  BY ONLY <1>b
<1>5. m.anDice[high] \in 0..6 /\ m.anDice[3 - high] \in 0..6
  <2>1. m.anDice[1] \in 0..6 /\ m.anDice[2] \in 0..6
    BY ONLY <1>c
  <2>2. (high = 1 /\ 3 - high = 2) \/ (high = 2 /\ 3 - high = 1)
    OBVIOUS
  <2>3. QED
    BY ONLY <2>1, <2>2
<1>6. m.nMatchTo \in Nat /\ m.nMatchTo < 32768 /\ m.nMatchTo % 32768 = m.nMatchTo
  <2> DEFINE x == m.nMatchTo
  <2>1. x \in Nat /\ x < 32768
    <3>1. MAXSCORE \in 0..2^15-1
      BY LengthAssumption DEF LengthAssumption
    <3>2. MAXSCORE \in Nat /\ MAXSCORE < 32768
      BY ONLY <1>1, <3>1
    <3>3. QED
      BY ONLY <1>c, <3>2
  <2> HIDE DEF x
  <2>2. x % 32768 = x
    BY <2>1
  <2>3. QED
    BY <2>1, <2>2 DEF x
<1>7. ASSUME NEW p \in 0..1
      PROVE  /\ m.anScore[p] \in Nat /\ m.anScore[p] < 32768
             /\ m.anScore[p] % 32768 = m.anScore[p]
  <2> DEFINE x == m.anScore[p]
  <2>1. x \in 0..2^15-1
    BY <1>0, Zenon
  <2> HIDE DEF x
  <2>2. x \in Nat /\ x < 32768
    BY ONLY <1>1, <2>1
  <2>3. x % 32768 = x
    BY <2>2
  <2>4. QED
    BY <2>2, <2>3 DEF x
<1>8. \A p \in 0..1 : /\ m.anScore[p] \in Nat /\ m.anScore[p] < 32768
                       /\ m.anScore[p] % 32768 = m.anScore[p]
  BY <1>7
<1>9. QED
  BY ONLY <1>2, <1>3, <1>4, <1>5, <1>6, <1>8

(* Each field of the key of a match holds its number. *)
LEMMA MatchKeyHolds ==
    ASSUME NEW m \in MatchFields, NEW high \in {1, 2},
           high = IF m.anDice[1] >= m.anDice[2] THEN 1 ELSE 2
    PROVE  /\ MatchBits(m) \subseteq 0..71
           /\ GetBits(MatchBits(m), 0, 4) = LogCube(m.nCube)
           /\ GetBits(MatchBits(m), 4, 2) = m.fCubeOwner % 4
           /\ GetBits(MatchBits(m), 6, 1) = m.fMove
           /\ GetBits(MatchBits(m), 7, 1) = Flag(m.fCrawford)
           /\ GetBits(MatchBits(m), 8, 3) = m.gs
           /\ GetBits(MatchBits(m), 11, 1) = m.fTurn
           /\ GetBits(MatchBits(m), 12, 1) = Flag(m.fDoubled)
           /\ GetBits(MatchBits(m), 13, 2) = m.fResigned
           /\ GetBits(MatchBits(m), 15, 3) = m.anDice[high]
           /\ GetBits(MatchBits(m), 18, 3) = m.anDice[3 - high]
           /\ GetBits(MatchBits(m), 21, 15) = m.nMatchTo
           /\ GetBits(MatchBits(m), 36, 15) = m.anScore[0]
           /\ GetBits(MatchBits(m), 51, 15) = m.anScore[1]
           /\ GetBits(MatchBits(m), 66, 1) = Flag(~ m.fJacoby)
<1> DEFINE bits == MatchBits(m)
           v1 == LogCube(m.nCube)
           v2 == m.fCubeOwner % 4
           v3 == m.fMove
           v4 == Flag(m.fCrawford)
           v5 == m.gs
           v6 == m.fTurn
           v7 == Flag(m.fDoubled)
           v8 == m.fResigned
           v9 == m.anDice[high]
           v10 == m.anDice[3 - high]
           v11 == m.nMatchTo % 32768
           v12 == m.anScore[0] % 32768
           v13 == m.anScore[1] % 32768
           v14 == Flag(~ m.fJacoby)
           F1 == SetBits(0, 4, v1)
           F2 == SetBits(4, 2, v2)
           F3 == SetBits(6, 1, v3)
           F4 == SetBits(7, 1, v4)
           F5 == SetBits(8, 3, v5)
           F6 == SetBits(11, 1, v6)
           F7 == SetBits(12, 1, v7)
           F8 == SetBits(13, 2, v8)
           F9 == SetBits(15, 3, v9)
           F10 == SetBits(18, 3, v10)
           F11 == SetBits(21, 15, v11)
           F12 == SetBits(36, 15, v12)
           F13 == SetBits(51, 15, v13)
           F14 == SetBits(66, 1, v14)
<1>1. bits = F1 \cup F2 \cup F3 \cup F4 \cup F5 \cup F6 \cup F7 \cup F8 \cup F9
             \cup F10 \cup F11 \cup F12 \cup F13 \cup F14
  BY DEF MatchBits
<1>2. /\ v1 \in Nat /\ v1 < 16
      /\ v2 \in Nat /\ v2 < 4
      /\ v3 \in Nat /\ v3 < 2
      /\ v4 \in Nat /\ v4 < 2
      /\ v5 \in Nat /\ v5 < 8
      /\ v6 \in Nat /\ v6 < 2
      /\ v7 \in Nat /\ v7 < 2
      /\ v8 \in Nat /\ v8 < 4
      /\ v9 \in Nat /\ v9 < 8
      /\ v10 \in Nat /\ v10 < 8
      /\ v11 \in Nat /\ v11 < 32768
      /\ v12 \in Nat /\ v12 < 32768
      /\ v13 \in Nat /\ v13 < 32768
      /\ v14 \in Nat /\ v14 < 2
  <2>1. \A f : Flag(f) \in Nat /\ Flag(f) < 2
    BY DEF Flag
  <2>2. v4 \in Nat /\ v4 < 2 /\ v7 \in Nat /\ v7 < 2 /\ v14 \in Nat /\ v14 < 2
    BY ONLY <2>1
  <2>3. 0 \in 0..1 /\ 1 \in 0..1
    OBVIOUS
  <2>4. /\ v1 \in Nat /\ v1 < 16 /\ v2 \in Nat /\ v2 < 4 /\ v3 \in Nat /\ v3 < 2
        /\ v5 \in Nat /\ v5 < 8 /\ v6 \in Nat /\ v6 < 2 /\ v8 \in Nat /\ v8 < 4
        /\ v9 \in 0..6 /\ v10 \in 0..6 /\ v11 \in Nat /\ v11 < 32768
    BY MatchNumbers
  <2>5. v12 \in Nat /\ v12 < 32768 /\ v13 \in Nat /\ v13 < 32768
    BY <2>3, MatchNumbers
  <2> HIDE DEF v1, v2, v3, v4, v5, v6, v7, v8, v9, v10, v11, v12, v13, v14
  <2>6. v9 \in Nat /\ v9 < 8 /\ v10 \in Nat /\ v10 < 8
    BY ONLY <2>4
  <2>7. QED
    BY ONLY <2>2, <2>4, <2>5, <2>6
<1>3. v11 = m.nMatchTo /\ v12 = m.anScore[0] /\ v13 = m.anScore[1]
  <2>1. 0 \in 0..1 /\ 1 \in 0..1
    OBVIOUS
  <2>2. QED
    BY <2>1, MatchNumbers
<1> HIDE DEF v1, v2, v3, v4, v5, v6, v7, v8, v9, v10, v11, v12, v13, v14
<1>4. /\ \A k \in F1 : k \in Nat /\ 0 <= k /\ k < 4
      /\ \A k \in F2 : k \in Nat /\ 4 <= k /\ k < 6
      /\ \A k \in F3 : k \in Nat /\ 6 <= k /\ k < 7
      /\ \A k \in F4 : k \in Nat /\ 7 <= k /\ k < 8
      /\ \A k \in F5 : k \in Nat /\ 8 <= k /\ k < 11
      /\ \A k \in F6 : k \in Nat /\ 11 <= k /\ k < 12
      /\ \A k \in F7 : k \in Nat /\ 12 <= k /\ k < 13
      /\ \A k \in F8 : k \in Nat /\ 13 <= k /\ k < 15
      /\ \A k \in F9 : k \in Nat /\ 15 <= k /\ k < 18
      /\ \A k \in F10 : k \in Nat /\ 18 <= k /\ k < 21
      /\ \A k \in F11 : k \in Nat /\ 21 <= k /\ k < 36
      /\ \A k \in F12 : k \in Nat /\ 36 <= k /\ k < 51
      /\ \A k \in F13 : k \in Nat /\ 51 <= k /\ k < 66
      /\ \A k \in F14 : k \in Nat /\ 66 <= k /\ k < 67
  <2>1. \A k \in F1 : k \in Nat /\ 0 <= k /\ k < 4
    <3> DEFINE p == 0
               n == 4
    <3>1. p \in Nat /\ n \in Nat /\ p + n = 4
      OBVIOUS
    <3> HIDE DEF p, n
    <3>2. \A k \in SetBits(p, n, v1) : k \in Nat /\ p <= k /\ k < p + n
      BY <3>1, FieldSet
    <3>3. QED
      BY ONLY <3>1, <3>2 DEF p, n
  <2>2. \A k \in F2 : k \in Nat /\ 4 <= k /\ k < 6
    <3> DEFINE p == 4
               n == 2
    <3>1. p \in Nat /\ n \in Nat /\ p + n = 6
      OBVIOUS
    <3> HIDE DEF p, n
    <3>2. \A k \in SetBits(p, n, v2) : k \in Nat /\ p <= k /\ k < p + n
      BY <3>1, FieldSet
    <3>3. QED
      BY ONLY <3>1, <3>2 DEF p, n
  <2>3. \A k \in F3 : k \in Nat /\ 6 <= k /\ k < 7
    <3> DEFINE p == 6
               n == 1
    <3>1. p \in Nat /\ n \in Nat /\ p + n = 7
      OBVIOUS
    <3> HIDE DEF p, n
    <3>2. \A k \in SetBits(p, n, v3) : k \in Nat /\ p <= k /\ k < p + n
      BY <3>1, FieldSet
    <3>3. QED
      BY ONLY <3>1, <3>2 DEF p, n
  <2>4. \A k \in F4 : k \in Nat /\ 7 <= k /\ k < 8
    <3> DEFINE p == 7
               n == 1
    <3>1. p \in Nat /\ n \in Nat /\ p + n = 8
      OBVIOUS
    <3> HIDE DEF p, n
    <3>2. \A k \in SetBits(p, n, v4) : k \in Nat /\ p <= k /\ k < p + n
      BY <3>1, FieldSet
    <3>3. QED
      BY ONLY <3>1, <3>2 DEF p, n
  <2>5. \A k \in F5 : k \in Nat /\ 8 <= k /\ k < 11
    <3> DEFINE p == 8
               n == 3
    <3>1. p \in Nat /\ n \in Nat /\ p + n = 11
      OBVIOUS
    <3> HIDE DEF p, n
    <3>2. \A k \in SetBits(p, n, v5) : k \in Nat /\ p <= k /\ k < p + n
      BY <3>1, FieldSet
    <3>3. QED
      BY ONLY <3>1, <3>2 DEF p, n
  <2>6. \A k \in F6 : k \in Nat /\ 11 <= k /\ k < 12
    <3> DEFINE p == 11
               n == 1
    <3>1. p \in Nat /\ n \in Nat /\ p + n = 12
      OBVIOUS
    <3> HIDE DEF p, n
    <3>2. \A k \in SetBits(p, n, v6) : k \in Nat /\ p <= k /\ k < p + n
      BY <3>1, FieldSet
    <3>3. QED
      BY ONLY <3>1, <3>2 DEF p, n
  <2>7. \A k \in F7 : k \in Nat /\ 12 <= k /\ k < 13
    <3> DEFINE p == 12
               n == 1
    <3>1. p \in Nat /\ n \in Nat /\ p + n = 13
      OBVIOUS
    <3> HIDE DEF p, n
    <3>2. \A k \in SetBits(p, n, v7) : k \in Nat /\ p <= k /\ k < p + n
      BY <3>1, FieldSet
    <3>3. QED
      BY ONLY <3>1, <3>2 DEF p, n
  <2>8. \A k \in F8 : k \in Nat /\ 13 <= k /\ k < 15
    <3> DEFINE p == 13
               n == 2
    <3>1. p \in Nat /\ n \in Nat /\ p + n = 15
      OBVIOUS
    <3> HIDE DEF p, n
    <3>2. \A k \in SetBits(p, n, v8) : k \in Nat /\ p <= k /\ k < p + n
      BY <3>1, FieldSet
    <3>3. QED
      BY ONLY <3>1, <3>2 DEF p, n
  <2>9. \A k \in F9 : k \in Nat /\ 15 <= k /\ k < 18
    <3> DEFINE p == 15
               n == 3
    <3>1. p \in Nat /\ n \in Nat /\ p + n = 18
      OBVIOUS
    <3> HIDE DEF p, n
    <3>2. \A k \in SetBits(p, n, v9) : k \in Nat /\ p <= k /\ k < p + n
      BY <3>1, FieldSet
    <3>3. QED
      BY ONLY <3>1, <3>2 DEF p, n
  <2>10. \A k \in F10 : k \in Nat /\ 18 <= k /\ k < 21
    <3> DEFINE p == 18
               n == 3
    <3>1. p \in Nat /\ n \in Nat /\ p + n = 21
      OBVIOUS
    <3> HIDE DEF p, n
    <3>2. \A k \in SetBits(p, n, v10) : k \in Nat /\ p <= k /\ k < p + n
      BY <3>1, FieldSet
    <3>3. QED
      BY ONLY <3>1, <3>2 DEF p, n
  <2>11. \A k \in F11 : k \in Nat /\ 21 <= k /\ k < 36
    <3> DEFINE p == 21
               n == 15
    <3>1. p \in Nat /\ n \in Nat /\ p + n = 36
      OBVIOUS
    <3> HIDE DEF p, n
    <3>2. \A k \in SetBits(p, n, v11) : k \in Nat /\ p <= k /\ k < p + n
      BY <3>1, FieldSet
    <3>3. QED
      BY ONLY <3>1, <3>2 DEF p, n
  <2>12. \A k \in F12 : k \in Nat /\ 36 <= k /\ k < 51
    <3> DEFINE p == 36
               n == 15
    <3>1. p \in Nat /\ n \in Nat /\ p + n = 51
      OBVIOUS
    <3> HIDE DEF p, n
    <3>2. \A k \in SetBits(p, n, v12) : k \in Nat /\ p <= k /\ k < p + n
      BY <3>1, FieldSet
    <3>3. QED
      BY ONLY <3>1, <3>2 DEF p, n
  <2>13. \A k \in F13 : k \in Nat /\ 51 <= k /\ k < 66
    <3> DEFINE p == 51
               n == 15
    <3>1. p \in Nat /\ n \in Nat /\ p + n = 66
      OBVIOUS
    <3> HIDE DEF p, n
    <3>2. \A k \in SetBits(p, n, v13) : k \in Nat /\ p <= k /\ k < p + n
      BY <3>1, FieldSet
    <3>3. QED
      BY ONLY <3>1, <3>2 DEF p, n
  <2>14. \A k \in F14 : k \in Nat /\ 66 <= k /\ k < 67
    <3> DEFINE p == 66
               n == 1
    <3>1. p \in Nat /\ n \in Nat /\ p + n = 67
      OBVIOUS
    <3> HIDE DEF p, n
    <3>2. \A k \in SetBits(p, n, v14) : k \in Nat /\ p <= k /\ k < p + n
      BY <3>1, FieldSet
    <3>3. QED
      BY ONLY <3>1, <3>2 DEF p, n
  <2>15. QED
    BY ONLY <2>1, <2>2, <2>3, <2>4, <2>5, <2>6, <2>7, <2>8, <2>9, <2>10, <2>11, <2>12, <2>13, <2>14
<1> HIDE DEF bits, F1, F2, F3, F4, F5, F6, F7, F8, F9, F10, F11, F12, F13, F14
<1>5. bits \subseteq 0..71
  <2>1. ASSUME NEW k \in bits PROVE k \in Nat /\ k <= 71
    BY ONLY <1>1, <1>4, <2>1
  <2>2. QED
    BY ONLY <2>1
<1>6. GetBits(bits, 0, 4) = v1
  <2>1. \A k \in bits : 0 <= k /\ k < 4 => k \in F1
    BY ONLY <1>1, <1>4
  <2>2. F1 \subseteq bits
    BY ONLY <1>1
  <2> DEFINE p == 0
             n == 4
             v == v1
             F == F1
  <2>3. p \in Nat /\ p + n = 4 /\ n = 4 /\ F = SetBits(p, n, v)
    BY DEF F1
  <2>4. v \in Nat /\ v < 16
    BY <1>2
  <2>5. (\A k \in bits : p <= k /\ k < p + n => k \in F) /\ F \subseteq bits
    BY ONLY <2>1, <2>2, <2>3
  <2> HIDE DEF p, n, v, F
  <2>6. GetBits(bits, p, n) = v
    BY ONLY <2>3, <2>4, <2>5, FieldOf
  <2>7. QED
    BY ONLY <2>6 DEF p, n, v
<1>7. GetBits(bits, 4, 2) = v2
  <2>1. \A k \in bits : 4 <= k /\ k < 6 => k \in F2
    BY ONLY <1>1, <1>4
  <2>2. F2 \subseteq bits
    BY ONLY <1>1
  <2> DEFINE p == 4
             n == 2
             v == v2
             F == F2
  <2>3. p \in Nat /\ p + n = 6 /\ n = 2 /\ F = SetBits(p, n, v)
    BY DEF F2
  <2>4. v \in Nat /\ v < 4
    BY <1>2
  <2>5. (\A k \in bits : p <= k /\ k < p + n => k \in F) /\ F \subseteq bits
    BY ONLY <2>1, <2>2, <2>3
  <2> HIDE DEF p, n, v, F
  <2>6. GetBits(bits, p, n) = v
    BY ONLY <2>3, <2>4, <2>5, FieldOf
  <2>7. QED
    BY ONLY <2>6 DEF p, n, v
<1>8. GetBits(bits, 6, 1) = v3
  <2>1. \A k \in bits : 6 <= k /\ k < 7 => k \in F3
    BY ONLY <1>1, <1>4
  <2>2. F3 \subseteq bits
    BY ONLY <1>1
  <2> DEFINE p == 6
             n == 1
             v == v3
             F == F3
  <2>3. p \in Nat /\ p + n = 7 /\ n = 1 /\ F = SetBits(p, n, v)
    BY DEF F3
  <2>4. v \in Nat /\ v < 2
    BY <1>2
  <2>5. (\A k \in bits : p <= k /\ k < p + n => k \in F) /\ F \subseteq bits
    BY ONLY <2>1, <2>2, <2>3
  <2> HIDE DEF p, n, v, F
  <2>6. GetBits(bits, p, n) = v
    BY ONLY <2>3, <2>4, <2>5, FieldOf
  <2>7. QED
    BY ONLY <2>6 DEF p, n, v
<1>9. GetBits(bits, 7, 1) = v4
  <2>1. \A k \in bits : 7 <= k /\ k < 8 => k \in F4
    BY ONLY <1>1, <1>4
  <2>2. F4 \subseteq bits
    BY ONLY <1>1
  <2> DEFINE p == 7
             n == 1
             v == v4
             F == F4
  <2>3. p \in Nat /\ p + n = 8 /\ n = 1 /\ F = SetBits(p, n, v)
    BY DEF F4
  <2>4. v \in Nat /\ v < 2
    BY <1>2
  <2>5. (\A k \in bits : p <= k /\ k < p + n => k \in F) /\ F \subseteq bits
    BY ONLY <2>1, <2>2, <2>3
  <2> HIDE DEF p, n, v, F
  <2>6. GetBits(bits, p, n) = v
    BY ONLY <2>3, <2>4, <2>5, FieldOf
  <2>7. QED
    BY ONLY <2>6 DEF p, n, v
<1>10. GetBits(bits, 8, 3) = v5
  <2>1. \A k \in bits : 8 <= k /\ k < 11 => k \in F5
    BY ONLY <1>1, <1>4
  <2>2. F5 \subseteq bits
    BY ONLY <1>1
  <2> DEFINE p == 8
             n == 3
             v == v5
             F == F5
  <2>3. p \in Nat /\ p + n = 11 /\ n = 3 /\ F = SetBits(p, n, v)
    BY DEF F5
  <2>4. v \in Nat /\ v < 8
    BY <1>2
  <2>5. (\A k \in bits : p <= k /\ k < p + n => k \in F) /\ F \subseteq bits
    BY ONLY <2>1, <2>2, <2>3
  <2> HIDE DEF p, n, v, F
  <2>6. GetBits(bits, p, n) = v
    BY ONLY <2>3, <2>4, <2>5, FieldOf
  <2>7. QED
    BY ONLY <2>6 DEF p, n, v
<1>11. GetBits(bits, 11, 1) = v6
  <2>1. \A k \in bits : 11 <= k /\ k < 12 => k \in F6
    BY ONLY <1>1, <1>4
  <2>2. F6 \subseteq bits
    BY ONLY <1>1
  <2> DEFINE p == 11
             n == 1
             v == v6
             F == F6
  <2>3. p \in Nat /\ p + n = 12 /\ n = 1 /\ F = SetBits(p, n, v)
    BY DEF F6
  <2>4. v \in Nat /\ v < 2
    BY <1>2
  <2>5. (\A k \in bits : p <= k /\ k < p + n => k \in F) /\ F \subseteq bits
    BY ONLY <2>1, <2>2, <2>3
  <2> HIDE DEF p, n, v, F
  <2>6. GetBits(bits, p, n) = v
    BY ONLY <2>3, <2>4, <2>5, FieldOf
  <2>7. QED
    BY ONLY <2>6 DEF p, n, v
<1>12. GetBits(bits, 12, 1) = v7
  <2>1. \A k \in bits : 12 <= k /\ k < 13 => k \in F7
    BY ONLY <1>1, <1>4
  <2>2. F7 \subseteq bits
    BY ONLY <1>1
  <2> DEFINE p == 12
             n == 1
             v == v7
             F == F7
  <2>3. p \in Nat /\ p + n = 13 /\ n = 1 /\ F = SetBits(p, n, v)
    BY DEF F7
  <2>4. v \in Nat /\ v < 2
    BY <1>2
  <2>5. (\A k \in bits : p <= k /\ k < p + n => k \in F) /\ F \subseteq bits
    BY ONLY <2>1, <2>2, <2>3
  <2> HIDE DEF p, n, v, F
  <2>6. GetBits(bits, p, n) = v
    BY ONLY <2>3, <2>4, <2>5, FieldOf
  <2>7. QED
    BY ONLY <2>6 DEF p, n, v
<1>13. GetBits(bits, 13, 2) = v8
  <2>1. \A k \in bits : 13 <= k /\ k < 15 => k \in F8
    BY ONLY <1>1, <1>4
  <2>2. F8 \subseteq bits
    BY ONLY <1>1
  <2> DEFINE p == 13
             n == 2
             v == v8
             F == F8
  <2>3. p \in Nat /\ p + n = 15 /\ n = 2 /\ F = SetBits(p, n, v)
    BY DEF F8
  <2>4. v \in Nat /\ v < 4
    BY <1>2
  <2>5. (\A k \in bits : p <= k /\ k < p + n => k \in F) /\ F \subseteq bits
    BY ONLY <2>1, <2>2, <2>3
  <2> HIDE DEF p, n, v, F
  <2>6. GetBits(bits, p, n) = v
    BY ONLY <2>3, <2>4, <2>5, FieldOf
  <2>7. QED
    BY ONLY <2>6 DEF p, n, v
<1>14. GetBits(bits, 15, 3) = v9
  <2>1. \A k \in bits : 15 <= k /\ k < 18 => k \in F9
    BY ONLY <1>1, <1>4
  <2>2. F9 \subseteq bits
    BY ONLY <1>1
  <2> DEFINE p == 15
             n == 3
             v == v9
             F == F9
  <2>3. p \in Nat /\ p + n = 18 /\ n = 3 /\ F = SetBits(p, n, v)
    BY DEF F9
  <2>4. v \in Nat /\ v < 8
    BY <1>2
  <2>5. (\A k \in bits : p <= k /\ k < p + n => k \in F) /\ F \subseteq bits
    BY ONLY <2>1, <2>2, <2>3
  <2> HIDE DEF p, n, v, F
  <2>6. GetBits(bits, p, n) = v
    BY ONLY <2>3, <2>4, <2>5, FieldOf
  <2>7. QED
    BY ONLY <2>6 DEF p, n, v
<1>15. GetBits(bits, 18, 3) = v10
  <2>1. \A k \in bits : 18 <= k /\ k < 21 => k \in F10
    BY ONLY <1>1, <1>4
  <2>2. F10 \subseteq bits
    BY ONLY <1>1
  <2> DEFINE p == 18
             n == 3
             v == v10
             F == F10
  <2>3. p \in Nat /\ p + n = 21 /\ n = 3 /\ F = SetBits(p, n, v)
    BY DEF F10
  <2>4. v \in Nat /\ v < 8
    BY <1>2
  <2>5. (\A k \in bits : p <= k /\ k < p + n => k \in F) /\ F \subseteq bits
    BY ONLY <2>1, <2>2, <2>3
  <2> HIDE DEF p, n, v, F
  <2>6. GetBits(bits, p, n) = v
    BY ONLY <2>3, <2>4, <2>5, FieldOf
  <2>7. QED
    BY ONLY <2>6 DEF p, n, v
<1>16. GetBits(bits, 21, 15) = v11
  <2>1. \A k \in bits : 21 <= k /\ k < 36 => k \in F11
    BY ONLY <1>1, <1>4
  <2>2. F11 \subseteq bits
    BY ONLY <1>1
  <2> DEFINE p == 21
             n == 15
             v == v11
             F == F11
  <2>3. p \in Nat /\ p + n = 36 /\ n = 15 /\ F = SetBits(p, n, v)
    BY DEF F11
  <2>4. v \in Nat /\ v < 32768
    BY <1>2
  <2>5. (\A k \in bits : p <= k /\ k < p + n => k \in F) /\ F \subseteq bits
    BY ONLY <2>1, <2>2, <2>3
  <2> HIDE DEF p, n, v, F
  <2>6. GetBits(bits, p, n) = v
    BY ONLY <2>3, <2>4, <2>5, FieldOf
  <2>7. QED
    BY ONLY <2>6 DEF p, n, v
<1>17. GetBits(bits, 36, 15) = v12
  <2>1. \A k \in bits : 36 <= k /\ k < 51 => k \in F12
    BY ONLY <1>1, <1>4
  <2>2. F12 \subseteq bits
    BY ONLY <1>1
  <2> DEFINE p == 36
             n == 15
             v == v12
             F == F12
  <2>3. p \in Nat /\ p + n = 51 /\ n = 15 /\ F = SetBits(p, n, v)
    BY DEF F12
  <2>4. v \in Nat /\ v < 32768
    BY <1>2
  <2>5. (\A k \in bits : p <= k /\ k < p + n => k \in F) /\ F \subseteq bits
    BY ONLY <2>1, <2>2, <2>3
  <2> HIDE DEF p, n, v, F
  <2>6. GetBits(bits, p, n) = v
    BY ONLY <2>3, <2>4, <2>5, FieldOf
  <2>7. QED
    BY ONLY <2>6 DEF p, n, v
<1>18. GetBits(bits, 51, 15) = v13
  <2>1. \A k \in bits : 51 <= k /\ k < 66 => k \in F13
    BY ONLY <1>1, <1>4
  <2>2. F13 \subseteq bits
    BY ONLY <1>1
  <2> DEFINE p == 51
             n == 15
             v == v13
             F == F13
  <2>3. p \in Nat /\ p + n = 66 /\ n = 15 /\ F = SetBits(p, n, v)
    BY DEF F13
  <2>4. v \in Nat /\ v < 32768
    BY <1>2
  <2>5. (\A k \in bits : p <= k /\ k < p + n => k \in F) /\ F \subseteq bits
    BY ONLY <2>1, <2>2, <2>3
  <2> HIDE DEF p, n, v, F
  <2>6. GetBits(bits, p, n) = v
    BY ONLY <2>3, <2>4, <2>5, FieldOf
  <2>7. QED
    BY ONLY <2>6 DEF p, n, v
<1>19. GetBits(bits, 66, 1) = v14
  <2>1. \A k \in bits : 66 <= k /\ k < 67 => k \in F14
    BY ONLY <1>1, <1>4
  <2>2. F14 \subseteq bits
    BY ONLY <1>1
  <2> DEFINE p == 66
             n == 1
             v == v14
             F == F14
  <2>3. p \in Nat /\ p + n = 67 /\ n = 1 /\ F = SetBits(p, n, v)
    BY DEF F14
  <2>4. v \in Nat /\ v < 2
    BY <1>2
  <2>5. (\A k \in bits : p <= k /\ k < p + n => k \in F) /\ F \subseteq bits
    BY ONLY <2>1, <2>2, <2>3
  <2> HIDE DEF p, n, v, F
  <2>6. GetBits(bits, p, n) = v
    BY ONLY <2>3, <2>4, <2>5, FieldOf
  <2>7. QED
    BY ONLY <2>6 DEF p, n, v
<1>20. QED
  BY <1>3, <1>5, <1>6, <1>7, <1>8, <1>9, <1>10, <1>11, <1>12, <1>13, <1>14, <1>15, <1>16, <1>17, <1>18, <1>19 DEF bits, v1, v2, v3, v4, v5, v6, v7, v8, v9, v10, v11, v12, v13, v14

(* A field of one bit. *)
LEMMA OneBit ==
    ASSUME NEW bits, NEW p \in Nat
    PROVE  GetBits(bits, p, 1) = IF p \in bits THEN 1 ELSE 0
<1> DEFINE f == [i \in 0..1-1 |-> IF p + i \in bits THEN 2^i ELSE 0]
<1>1. GetBits(bits, p, 1) = Total(f, 1)
  BY DEF GetBits
<1>2. f[0] = IF p \in bits THEN 1 ELSE 0
  <2>1. 2^0 = 1 /\ p + 0 = p /\ 0 \in 0..1-1
    OBVIOUS
  <2>2. f[0] = IF p + 0 \in bits THEN 2^0 ELSE 0
    BY ONLY <2>1
  <2>3. QED
    BY ONLY <2>1, <2>2
<1> HIDE DEF f
<1>3. Total(f, 0) = 0 /\ Total(f, 0 + 1) = Total(f, 0) + f[0] /\ 0 + 1 = 1
  <2>1. 0 \in Nat
    OBVIOUS
  <2>2. QED
    BY <2>1, TotalDef
<1>4. QED
  BY <1>1, <1>2, <1>3

(* Reading the ID of a match reads its key. *)
LEMMA MatchIDRead ==
    ASSUME NEW m, MatchBits(m) \subseteq 0..71
    PROVE  MatchFromID(MatchID(m)) = MatchFromKey(MatchBits(m))
<1> DEFINE bits == MatchBits(m)
           id == MatchID(m)
           bytes == NineBytes(id)
<1>1. \A j \in 1..12 : id[j] = TwelveChars(bits)[j]
  BY DEF MatchID
<1>2. MatchFromID(id) = MatchFromKey(Places(bytes))
  BY DEF MatchFromID
<1> HIDE DEF bits, id
<1>3. Len(bytes) = 9 /\ \A k \in 0..8 : bytes[1 + k] = Byte(bits, k)
  BY <1>1, TwelveForNine
<1> HIDE DEF bytes
<1>4. Places(bytes) = bits
  <2> DEFINE N == 9
  <2>1. /\ N \in Nat /\ Len(bytes) = N /\ bits \subseteq 0..8*N-1
        /\ \A k \in 0..N-1 : bytes[1 + k] = Byte(bits, k)
    BY <1>3 DEF bits
  <2> HIDE DEF N
  <2>2. QED
    BY ONLY <2>1, PlacesOfBytes
<1>5. QED
  BY <1>2, <1>4 DEF bits, id

(* The dice with the higher one first, as MatchID writes them. *)
Ordered(m) == IF m.anDice[1] >= m.anDice[2] THEN m.anDice ELSE <<m.anDice[2], m.anDice[1]>>

(* Loading the ID of a match gives the match back, unless it is refused. *)
LEMMA MatchIDHolds ==
    ASSUME NEW m \in MatchFields, m.fCrawford => m.nMatchTo > 0
    PROVE  /\ MatchFromID(MatchID(m)).match = [m EXCEPT !.anDice = Ordered(m)]
           /\ MatchFromID(MatchID(m)).ok
                  <=> (m.nMatchTo > 0 => \A p \in 0..1 : m.anScore[p] <= m.nMatchTo)
           /\ [m EXCEPT !.anDice = Ordered(m)] \in MatchFields
           /\ [m EXCEPT !.anDice = Ordered(m)].fCrawford = m.fCrawford
           /\ [m EXCEPT !.anDice = Ordered(m)].nMatchTo = m.nMatchTo
<1> DEFINE bits == MatchBits(m)
           high == IF m.anDice[1] >= m.anDice[2] THEN 1 ELSE 2
           r == MatchFromKey(bits)
           x == r.match
           y == [m EXCEPT !.anDice = Ordered(m)]
<1>1. high \in {1, 2} /\ high = IF m.anDice[1] >= m.anDice[2] THEN 1 ELSE 2
  OBVIOUS
<1> HIDE DEF high
<1>2. bits \subseteq 0..71
  BY <1>1, MatchKeyHolds
<1>3. /\ GetBits(bits, 0, 4) = LogCube(m.nCube)
      /\ GetBits(bits, 4, 2) = m.fCubeOwner % 4
      /\ GetBits(bits, 6, 1) = m.fMove
      /\ GetBits(bits, 7, 1) = Flag(m.fCrawford)
      /\ GetBits(bits, 8, 3) = m.gs
      /\ GetBits(bits, 11, 1) = m.fTurn
      /\ GetBits(bits, 12, 1) = Flag(m.fDoubled)
      /\ GetBits(bits, 13, 2) = m.fResigned
      /\ GetBits(bits, 15, 3) = m.anDice[high]
      /\ GetBits(bits, 18, 3) = m.anDice[3 - high]
      /\ GetBits(bits, 21, 15) = m.nMatchTo
      /\ GetBits(bits, 36, 15) = m.anScore[0]
      /\ GetBits(bits, 51, 15) = m.anScore[1]
      /\ GetBits(bits, 66, 1) = Flag(~ m.fJacoby)
  BY <1>1, MatchKeyHolds
<1>4. MatchFromID(MatchID(m)) = r
  BY <1>2, MatchIDRead
<1> HIDE DEF bits
<1>5. /\ x.nCube = 2^GetBits(bits, 0, 4)
      /\ x.fCubeOwner = IF GetBits(bits, 4, 2) \in 0..1 THEN GetBits(bits, 4, 2) ELSE -1
      /\ x.fMove = GetBits(bits, 6, 1)
      /\ x.fCrawford = (7 \in bits)
      /\ x.gs = GetBits(bits, 8, 3)
      /\ x.fTurn = GetBits(bits, 11, 1)
      /\ x.fDoubled = (12 \in bits)
      /\ x.fResigned = GetBits(bits, 13, 2)
      /\ x.anDice = <<GetBits(bits, 15, 3), GetBits(bits, 18, 3)>>
      /\ x.nMatchTo = GetBits(bits, 21, 15)
      /\ x.anScore = [p \in 0..1 |-> GetBits(bits, 36 + 15 * p, 15)]
      /\ x.fJacoby = (66 \notin bits)
  BY DEF MatchFromKey
<1>6. /\ x = [nCube |-> x.nCube, fCubeOwner |-> x.fCubeOwner, fMove |-> x.fMove,
              fCrawford |-> x.fCrawford, gs |-> x.gs, fTurn |-> x.fTurn,
              fDoubled |-> x.fDoubled, fResigned |-> x.fResigned, anDice |-> x.anDice,
              nMatchTo |-> x.nMatchTo, anScore |-> x.anScore, fJacoby |-> x.fJacoby]
      /\ r.ok <=> /\ x.anDice[1] <= 6 /\ x.anDice[2] <= 6
                  /\ x.nMatchTo <= MAXSCORE
                  /\ IF x.nMatchTo > 0
                     THEN \A p \in 0..1 : x.anScore[p] <= x.nMatchTo
                     ELSE ~ x.fCrawford
  BY DEF MatchFromKey
<1>7. y = [nCube |-> m.nCube, fCubeOwner |-> m.fCubeOwner, fMove |-> m.fMove,
           fCrawford |-> m.fCrawford, gs |-> m.gs, fTurn |-> m.fTurn,
           fDoubled |-> m.fDoubled, fResigned |-> m.fResigned, anDice |-> Ordered(m),
           nMatchTo |-> m.nMatchTo, anScore |-> m.anScore, fJacoby |-> m.fJacoby]
  <2> DEFINE A == {2^i : i \in 0..12}
             B == [0..1 -> 0..2^15-1]
             C == 0..MAXSCORE
             D == (0..6) \X (0..6)
             E == {-1, 0, 1}
             F == 0..1
             G == 0..4
             H == 0..3
  <2>1. m \in [nCube : A, fCubeOwner : E, fMove : F, fCrawford : BOOLEAN, gs : G,
               fTurn : F, fDoubled : BOOLEAN, fResigned : H, anDice : D, nMatchTo : C,
               anScore : B, fJacoby : BOOLEAN]
    BY Zenon DEF MatchFields
  <2> HIDE DEF A, B, C, D, E, F, G, H
  <2>2. QED
    BY ONLY <2>1
<1> HIDE DEF r, x, y
<1>8. x.nCube = m.nCube
  <2>1. 2^LogCube(m.nCube) = m.nCube
    BY <1>1, MatchNumbers
  <2>2. QED
    BY ONLY <1>3, <1>5, <2>1, Zenon
<1>9. x.fCubeOwner = m.fCubeOwner
  <2>1. m.fCubeOwner \in {-1, 0, 1}
    BY Zenon DEF MatchFields
  <2>2. x.fCubeOwner = IF m.fCubeOwner % 4 \in 0..1 THEN m.fCubeOwner % 4 ELSE -1
    BY ONLY <1>3, <1>5
  <2>3. QED
    BY ONLY <2>1, <2>2
<1>10. /\ x.fMove = m.fMove /\ x.gs = m.gs /\ x.fTurn = m.fTurn
       /\ x.fResigned = m.fResigned /\ x.nMatchTo = m.nMatchTo
  BY ONLY <1>3, <1>5
<1>11. (7 \in bits <=> m.fCrawford) /\ (12 \in bits <=> m.fDoubled) /\ (66 \in bits <=> ~ m.fJacoby)
  <2>1. /\ GetBits(bits, 7, 1) = IF 7 \in bits THEN 1 ELSE 0
        /\ GetBits(bits, 12, 1) = IF 12 \in bits THEN 1 ELSE 0
        /\ GetBits(bits, 66, 1) = IF 66 \in bits THEN 1 ELSE 0
    BY OneBit
  <2>2. \A f : (Flag(f) = 1 <=> f) /\ (Flag(f) = 0 <=> ~ f)
    BY DEF Flag
  <2>3. QED
    BY ONLY <1>3, <2>1, <2>2
<1>12. m.fCrawford \in BOOLEAN /\ m.fDoubled \in BOOLEAN /\ m.fJacoby \in BOOLEAN
  BY Zenon DEF MatchFields
<1>13. x.fCrawford = m.fCrawford /\ x.fDoubled = m.fDoubled /\ x.fJacoby = m.fJacoby
  <2>1. /\ x.fCrawford = (7 \in bits) /\ x.fDoubled = (12 \in bits)
        /\ x.fJacoby = (66 \notin bits)
    BY <1>5
  <2>2. QED
    BY ONLY <1>11, <1>12, <2>1
<1>14. x.anDice = Ordered(m) /\ Ordered(m) \in (0..6) \X (0..6)
  <2>1. m.anDice \in (0..6) \X (0..6)
    BY Zenon DEF MatchFields
  <2>2. m.anDice = <<m.anDice[1], m.anDice[2]>> /\ m.anDice[1] \in 0..6 /\ m.anDice[2] \in 0..6
    BY ONLY <2>1
  <2>3. x.anDice = <<m.anDice[high], m.anDice[3 - high]>>
    BY ONLY <1>3, <1>5
  <2>4. CASE m.anDice[1] >= m.anDice[2]
    <3>1. high = 1 /\ 3 - high = 2 /\ Ordered(m) = m.anDice
      BY <1>1, <2>4 DEF Ordered
    <3>2. QED
      BY ONLY <2>1, <2>2, <2>3, <3>1
  <2>5. CASE ~(m.anDice[1] >= m.anDice[2])
    <3>1. high = 2 /\ 3 - high = 1 /\ Ordered(m) = <<m.anDice[2], m.anDice[1]>>
      BY <1>1, <2>5 DEF Ordered
    <3>2. QED
      BY ONLY <2>2, <2>3, <3>1
  <2>6. QED
    BY <2>4, <2>5
<1>15. x.anScore = m.anScore
  <2> DEFINE B(p) == GetBits(bits, 36 + 15 * p, 15)
  <2>1. B(0) = m.anScore[0] /\ B(1) = m.anScore[1]
    <3>1. 36 + 15 * 0 = 36 /\ 36 + 15 * 1 = 51
      OBVIOUS
    <3>2. QED
      BY ONLY <1>3, <3>1
  <2>2. x.anScore = [p \in 0..1 |-> B(p)]
    BY <1>5
  <2>3. \E S : m.anScore \in [0..1 -> S]
    BY Zenon DEF MatchFields
  <2> HIDE DEF B
  <2>4. \A p \in 0..1 : B(p) = m.anScore[p]
    BY <2>1
  <2>5. QED
    BY ONLY <2>2, <2>3, <2>4
<1>16. x = y
  BY ONLY <1>6, <1>7, <1>8, <1>9, <1>10, <1>13, <1>14, <1>15
<1>17. r.ok <=> (m.nMatchTo > 0 => \A p \in 0..1 : m.anScore[p] <= m.nMatchTo)
  <2>1. m.nMatchTo \in 0..MAXSCORE
    BY Zenon DEF MatchFields
  <2>2. m.nMatchTo <= MAXSCORE
    BY <2>1
  <2>3. x.anDice[1] <= 6 /\ x.anDice[2] <= 6
    BY ONLY <1>14
  <2>4. r.ok <=> IF m.nMatchTo > 0 THEN \A p \in 0..1 : m.anScore[p] <= m.nMatchTo
                 ELSE ~ m.fCrawford
    BY ONLY <1>6, <1>10, <1>13, <1>15, <2>2, <2>3
  <2>5. QED
    BY <2>4
<1>18. y \in MatchFields
  BY <1>14, <1>7 DEF MatchFields
<1>19. y.fCrawford = m.fCrawford /\ y.nMatchTo = m.nMatchTo
  BY ONLY <1>7
<1>20. QED
  BY <1>4, <1>16, <1>17, <1>18, <1>19 DEF x, y

-----------------------------------------------------------------------------
(* The theorems. *)

(* The board on which the codings work. *)
BoardCoded == anBoard \in Board /\ CheckPosition(anBoard)

(* Every board that is shown is a board of the program: loading its ID keeps it. *)
LEMMA BoardsKept == IDsSpec => []BoardCoded
<1>1. IDsInit => BoardCoded
  <2>1. (CHOOSE b \in Boards : TRUE) \in Boards
    BY BoardsAssumption
  <2>2. IDsInit => anBoard \in Boards
    BY <2>1 DEF IDsInit
  <2>3. QED
    BY <2>2, BoardsAssumption DEF BoardCoded
<1>2. BoardCoded /\ [IDsNext]_ivars => BoardCoded'
  <2> SUFFICES ASSUME BoardCoded, [IDsNext]_ivars PROVE BoardCoded'
    OBVIOUS
  <2>1. CASE LoadBoard
    <3>1. PositionFromID(PositionID(anBoard)) = [ok |-> TRUE, board |-> anBoard]
      BY PositionIDHolds DEF BoardCoded
    <3>2. anBoard' = PositionFromID(PositionID(anBoard)).board
      BY <2>1 DEF LoadBoard
    <3>3. anBoard' = anBoard
      BY ONLY <3>1, <3>2
    <3>4. QED
      BY <3>3 DEF BoardCoded, CheckPosition
  <2>2. CASE LoadMatch
    BY <2>2 DEF LoadMatch, BoardCoded, CheckPosition
  <2>3. CASE UNCHANGED ivars
    BY <2>3 DEF ivars, BoardCoded, CheckPosition
  <2>4. QED
    BY <2>1, <2>2, <2>3 DEF IDsNext
<1>3. QED
  BY <1>1, <1>2, PTL DEF IDsSpec

(* The position ID of every board is accepted and gives the board back
   (PositionID, PositionFromID): the runs of at most 15 ones for each side and
   their 50 zeros fit into 80 bits, addBits loses no one that falls into a
   second or a third byte, and the characters hold all the bytes. *)
THEOREM PositionIDsLoad == IDsSpec => []PositionIDLoads
<1>1. BoardCoded => PositionIDLoads
  BY PositionIDHolds DEF BoardCoded, PositionIDLoads
<1>2. QED
  BY <1>1, BoardsKept, PTL

(* The packed key of every board determines it (PositionKey, PositionFromKey,
   PositionFromKeySwapped, PositionIDFromKey): no point is carried into the
   next one, and each is found in its word. *)
THEOREM KeysKeepBoards == IDsSpec => []KeysLossless
<1>1. BoardCoded => KeysLossless
  <2> SUFFICES ASSUME BoardCoded PROVE KeysLossless
    OBVIOUS
  <2>1. /\ PositionFromKey(PositionKey(anBoard)) = anBoard
        /\ PositionFromKeySwapped(PositionKey(anBoard)) = [s \in 0..1 |-> anBoard[1 - s]]
    BY KeyHolds DEF BoardCoded
  <2>2. PositionIDFromKey(PositionKey(anBoard)) = PositionID(anBoard)
    BY <2>1 DEF PositionIDFromKey
  <2>3. QED
    BY <2>1, <2>2 DEF KeysLossless
<1>2. QED
  BY <1>1, BoardsKept, PTL

(* The match states for which the codings work: a Crawford game is one of a match. *)
MatchCoded == ms \in MatchFields /\ (ms.fCrawford => ms.nMatchTo > 0)

(* Loading the ID of a match changes at most the order of its dice. *)
LEMMA MatchesKept == IDsSpec => []MatchCoded
<1>1. IDsInit => MatchCoded
  <2>1. (CHOOSE m \in Matches : TRUE) \in Matches
    BY MatchesAssumption
  <2>2. IDsInit => ms \in Matches
    BY <2>1, Zenon DEF IDsInit
  <2>3. \A m \in Matches : m \in MatchFields /\ (m.fCrawford => m.nMatchTo > 0)
    BY MatchesAssumption
  <2>4. QED
    BY ONLY <2>2, <2>3, Zenon DEF MatchCoded
<1>2. MatchCoded /\ [IDsNext]_ivars => MatchCoded'
  <2> SUFFICES ASSUME MatchCoded, [IDsNext]_ivars PROVE MatchCoded'
    OBVIOUS
  <2>1. CASE LoadMatch
    <3> DEFINE y == [ms EXCEPT !.anDice = Ordered(ms)]
    <3>1. ms \in MatchFields /\ (ms.fCrawford => ms.nMatchTo > 0)
      BY Zenon DEF MatchCoded
    <3>2. MatchFromID(MatchID(ms)).match = y /\ y \in MatchFields
      BY ONLY <3>1, MatchIDHolds
    <3>3. y.fCrawford = ms.fCrawford /\ y.nMatchTo = ms.nMatchTo
      BY ONLY <3>1, MatchIDHolds
    <3>4. ms' = y
      BY ONLY <2>1, <3>2 DEF LoadMatch
    <3> HIDE DEF y
    <3>5. QED
      BY ONLY <3>1, <3>2, <3>3, <3>4, Zenon DEF MatchCoded
  <2>2. CASE LoadBoard
    <3>1. ms' = ms
      BY ONLY <2>2 DEF LoadBoard
    <3>2. QED
      BY <3>1, Zenon DEF MatchCoded
  <2>3. CASE UNCHANGED ivars
    <3>1. ms' = ms
      BY ONLY <2>3 DEF ivars
    <3>2. QED
      BY <3>1, Zenon DEF MatchCoded
  <2>4. QED
    BY ONLY <2>1, <2>2, <2>3, [IDsNext]_ivars DEF IDsNext
<1>3. QED
  BY <1>1, <1>2, PTL DEF IDsSpec

(* The match ID of every match state is accepted unless a score is beyond the
   length of the match, and gives the match back up to the order of its dice
   (MatchID, MatchFromID): the fields of the key have no bit in common, and
   each is wide enough, for the longest match and the highest cube too. *)
THEOREM MatchIDsLoad == IDsSpec => []MatchIDLoads
<1>1. MatchCoded => MatchIDLoads
  <2> SUFFICES ASSUME MatchCoded PROVE MatchIDLoads
    OBVIOUS
  <2> DEFINE r == MatchFromID(MatchID(ms))
  <2>1. ms \in MatchFields /\ (ms.fCrawford => ms.nMatchTo > 0)
    BY Zenon DEF MatchCoded
  <2>2. /\ r.match = [ms EXCEPT !.anDice = Ordered(ms)]
        /\ r.ok <=> (ms.nMatchTo > 0 => \A p \in 0..1 : ms.anScore[p] <= ms.nMatchTo)
    BY ONLY <2>1, MatchIDHolds
  <2>3. MatchIDLoads <=>
          /\ r.ok <=> (ms.nMatchTo > 0 => \A p \in 0..1 : ms.anScore[p] <= ms.nMatchTo)
          /\ r.ok => r.match = [ms EXCEPT !.anDice = Ordered(ms)]
    BY Zenon DEF MatchIDLoads, Ordered
  <2> HIDE DEF r
  <2>4. QED
    BY ONLY <2>2, <2>3
<1>2. QED
  BY <1>1, MatchesKept, PTL
=============================================================================
