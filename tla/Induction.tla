------------------------------ MODULE Induction ------------------------------
(***************************************************************************)
(* Induction over the natural numbers for a set: a set that holds 0 and is *)
(* closed under successor holds every number.  The powers of two that fit  *)
(* in an unsigned int.                                                     *)
(***************************************************************************)
EXTENDS Integers, WellFoundedInduction, TLAPS

(* Every set of natural numbers has a least one. *)
LEMMA LeastNumber ==
    ASSUME NEW T, T \subseteq Nat, T # {}
    PROVE  \E x \in T : \A y \in T : x <= y
<1>1. IsWellFoundedOn(OpToRel(<, Nat), Nat)
  BY NatLessThanWellFounded
<1>2. \E x \in T : \A y \in T : ~(<<y, x>> \in OpToRel(<, Nat))
  BY <1>1, WFMin
<1>3. \A x \in Nat, y \in Nat : y < x => <<y, x>> \in OpToRel(<, Nat)
  BY DEF OpToRel
<1>4. PICK x \in T : \A y \in T : ~(<<y, x>> \in OpToRel(<, Nat))
  BY <1>2
<1>5. \A y \in T : ~(y < x)
  BY <1>3, <1>4
<1>6. QED
  BY <1>5

(* Induction; the least number that is not in S cannot be. *)
LEMMA Induct ==
    ASSUME NEW S, 0 \in S, \A n \in Nat : n \in S => n + 1 \in S
    PROVE  \A n \in Nat : n \in S
<1> SUFFICES ASSUME Nat \ S # {} PROVE FALSE
  OBVIOUS
<1>1. PICK x \in Nat \ S : \A y \in Nat \ S : x <= y
  BY LeastNumber
<1>2. x \in Nat /\ x # 0 /\ x - 1 \in Nat
  BY <1>1
<1>3. x - 1 \in S
  BY <1>1, <1>2
<1>4. (x - 1) + 1 = x
  BY <1>2
<1>5. (x - 1) + 1 \in S
  BY <1>2, <1>3
<1>6. QED
  BY <1>1, <1>4, <1>5

(* Powers of two. *)
LEMMA PowersOfTwo ==
    ASSUME NEW k \in 0..30
    PROVE  2^k \in Nat /\ 2^k > 0 /\ 2^(k + 1) = 2 * 2^k
<1> DEFINE Twice == 2^k \in Nat /\ 2^k > 0 /\ 2^(k + 1) = 2 * 2^k
<1>1. k = 0 => Twice
  OBVIOUS
<1>2. k = 1 => Twice
  OBVIOUS
<1>3. k = 2 => Twice
  OBVIOUS
<1>4. k = 3 => Twice
  OBVIOUS
<1>5. k = 4 => Twice
  OBVIOUS
<1>6. k = 5 => Twice
  OBVIOUS
<1>7. k = 6 => Twice
  OBVIOUS
<1>8. k = 7 => Twice
  OBVIOUS
<1>9. k = 8 => Twice
  OBVIOUS
<1>10. k = 9 => Twice
  OBVIOUS
<1>11. k = 10 => Twice
  OBVIOUS
<1>12. k = 11 => Twice
  OBVIOUS
<1>13. k = 12 => Twice
  OBVIOUS
<1>14. k = 13 => Twice
  OBVIOUS
<1>15. k = 14 => Twice
  OBVIOUS
<1>16. k = 15 => Twice
  OBVIOUS
<1>17. k = 16 => Twice
  OBVIOUS
<1>18. k = 17 => Twice
  OBVIOUS
<1>19. k = 18 => Twice
  OBVIOUS
<1>20. k = 19 => Twice
  OBVIOUS
<1>21. k = 20 => Twice
  OBVIOUS
<1>22. k = 21 => Twice
  OBVIOUS
<1>23. k = 22 => Twice
  OBVIOUS
<1>24. k = 23 => Twice
  OBVIOUS
<1>25. k = 24 => Twice
  OBVIOUS
<1>26. k = 25 => Twice
  OBVIOUS
<1>27. k = 26 => Twice
  OBVIOUS
<1>28. k = 27 => Twice
  OBVIOUS
<1>29. k = 28 => Twice
  OBVIOUS
<1>30. k = 29 => Twice
  OBVIOUS
<1>31. k = 30 => Twice
  OBVIOUS
<1> HIDE DEF Twice
<1>32. Twice
  BY <1>1, <1>2, <1>3, <1>4, <1>5, <1>6, <1>7, <1>8, <1>9, <1>10, <1>11, <1>12, <1>13, <1>14, <1>15, <1>16, <1>17, <1>18, <1>19, <1>20, <1>21, <1>22, <1>23, <1>24, <1>25, <1>26, <1>27, <1>28, <1>29, <1>30, <1>31
<1>33. QED
  BY <1>32 DEF Twice

(* A larger exponent gives a larger power. *)
LEMMA Increasing ==
    ASSUME NEW j \in 0..30, NEW k \in 0..31, j < k
    PROVE  2^j < 2^k
<1> DEFINE P(i) == 2^i
<1>1. \A i \in 0..30 : P(i) \in Nat /\ P(i) > 0 /\ P(i + 1) = 2 * P(i)
  BY PowersOfTwo
<1> HIDE DEF P
<1> DEFINE S == {d \in Nat : j + d + 1 <= 31 => P(j) < P(j + d + 1) /\ P(j + d + 1) \in Nat}
<1>2. 0 \in S
  BY <1>1
<1>3. ASSUME NEW d \in Nat, d \in S PROVE d + 1 \in S
  <2> SUFFICES ASSUME j + (d + 1) + 1 <= 31
               PROVE  P(j) < P(j + (d + 1) + 1) /\ P(j + (d + 1) + 1) \in Nat
    OBVIOUS
  <2>1. j + d + 1 \in 0..30 /\ j + d + 1 <= 31 /\ (j + d + 1) + 1 = j + (d + 1) + 1
    OBVIOUS
  <2>2. P(j) \in Nat /\ P(j) < P(j + d + 1) /\ P(j + d + 1) \in Nat
    BY <1>1, <1>3, <2>1
  <2>3. P((j + d + 1) + 1) = 2 * P(j + d + 1)
    BY <1>1, <2>1
  <2>4. QED
    BY ONLY <2>1, <2>2, <2>3
<1> HIDE DEF S
<1> DEFINE n == k - j - 1
<1>4. n \in Nat /\ j + n + 1 = k /\ k <= 31
  OBVIOUS
<1> HIDE DEF n
<1>5. n \in S
  BY <1>2, <1>3, <1>4, Induct
<1>6. P(j) < P(j + n + 1)
  BY <1>4, <1>5 DEF S
<1>7. QED
  BY <1>4, <1>6 DEF P

(* A power of two has one logarithm. *)
LEMMA Logarithm ==
    ASSUME NEW i \in 0..30
    PROVE  (CHOOSE j \in 0..30 : 2^j <= 2^i /\ 2^i < 2^(j + 1)) = i
<1> DEFINE P(k) == 2^k
<1>1. \A k \in 0..30 : P(k) \in Nat /\ P(k) > 0 /\ P(k + 1) = 2 * P(k)
  BY PowersOfTwo
<1>2. \A j \in 0..30, k \in 0..31 : j < k => P(j) < P(k)
  BY Increasing
<1> HIDE DEF P
<1>3. P(i) <= P(i) /\ P(i) < P(i + 1) /\ i \in 0..30
  BY <1>1
<1>4. ASSUME NEW j \in 0..30, P(j) <= P(i), P(i) < P(j + 1) PROVE j = i
  <2>1. P(i) \in Nat /\ P(j) \in Nat /\ P(j + 1) \in Nat
    BY <1>1
  <2>2. CASE i < j
    BY <1>2, <1>4, <2>1, <2>2
  <2>3. CASE j < i
    <3>1. j + 1 = i \/ (j + 1 \in 0..30 /\ i \in 0..31 /\ j + 1 < i)
      BY <2>3
    <3>2. QED
      BY <1>2, <1>3, <1>4, <2>1, <3>1
  <2>4. QED
    BY <2>2, <2>3
<1>5. (CHOOSE j \in 0..30 : P(j) <= P(i) /\ P(i) < P(j + 1)) = i
  BY <1>3, <1>4
<1>6. QED
  BY <1>5 DEF P
=============================================================================
