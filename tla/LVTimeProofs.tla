---------------------------- MODULE LVTimeProofs ----------------------------
(***************************************************************************)
(* Proofs about LVTime for every width of word, mantissa and byte, every   *)
(* epoch and every range of dates that TimeAssumption allows.              *)
(*                                                                         *)
(* The conversions are arithmetic, so most of this module is lemmas about  *)
(* its operators, from the bottom up: powers of two (Pow2 and Weight are   *)
(* recursive functions, which PowersExist shows to be defined), rounding   *)
(* to a multiple (Nearest), the exponent of a number, rounding to a double *)
(* (F64Exact, F64Mono, F64Within), the digits of a word (Digits), bytes in *)
(* both orders (OrdersReverse), how much the roundings of a conversion add *)
(* up to (ToLvEpoch, TryFrom, FromChronoNear), and when they undo each     *)
(* other (RoundsTo, ViaUnix, RoundTrip).                                   *)
(*                                                                         *)
(* The properties speak of the last conversion, so IInv does too: it names *)
(* for each conversion what it returned for the timestamp that is there.   *)
(***************************************************************************)
EXTENDS LVTime, SequenceTheorems, WellFoundedInduction, TLAPS

(* A set of natural numbers has a least element. *)
LEMMA Least ==
  ASSUME NEW S \in SUBSET Nat, S # {}
  PROVE  \E k \in S : \A j \in S : k <= j
<1>1. PICK k \in S : \A j \in S : <<j, k>> \notin OpToRel(<, Nat)
  BY WFMin, NatLessThanWellFounded, Zenon
<1>2. \A j, i \in Nat : j < i => <<j, i>> \in OpToRel(<, Nat)
  BY DEF OpToRel
<1>3. \A j \in S : ~(j < k)
  BY <1>1, <1>2
<1> QED
  BY <1>3

(* Induction up to d, over a set. *)
LEMMA Induction ==
  ASSUME NEW d \in Nat, NEW S, 0 \in S, \A n \in 1..d : n - 1 \in S => n \in S
  PROVE  0..d \subseteq S
<1> DEFINE T == (0..d) \ S
<1>1. ASSUME T # {} PROVE FALSE
  <2>1. PICK n \in T : \A m \in T : n <= m
    <3>1. T \in SUBSET Nat
      OBVIOUS
    <3> HIDE DEF T
    <3> QED
      BY <1>1, <3>1, Least
  <2>2. n \in 1..d /\ n - 1 \in 0..d /\ n - 1 < n
    OBVIOUS
  <2> QED
    BY <2>1, <2>2
<1> QED
  BY <1>1

-----------------------------------------------------------------------------
(* The recursive function of Pow2 and of Weight. *)
Powers(b, N, f) == [k \in 0..N |-> IF k = 0 THEN 1 ELSE b * f[k - 1]]

(* One step of it. *)
LEMMA PowersAt ==
  ASSUME NEW b, NEW N \in Nat, NEW f, f = Powers(b, N, f)
  PROVE  f[0] = 1 /\ \A k \in 1..N : f[k] = b * f[k - 1]
<1>1. 0 \in 0..N /\ \A k \in 1..N : k \in 0..N /\ k # 0
  OBVIOUS
<1> QED
  BY <1>1, Zenon DEF Powers

(* The function exists, so CHOOSE finds it. *)
LEMMA PowersExist ==
  ASSUME NEW b \in Nat \ {0}, NEW N \in Nat
  PROVE  \E f : f = Powers(b, N, f)
<1> DEFINE Upto(d, f) == f[0] = 1 /\ \A k \in 1..d : f[k] = b * f[k - 1]
           T == {d \in 0..N : \E f \in [0..d -> Nat \ {0}] : Upto(d, f)}
<1>1. 0 \in T
  <2> DEFINE q == [k \in 0..0 |-> 1]
  <2>1. q \in [0..0 -> Nat \ {0}] /\ Upto(0, q) /\ 0 \in 0..N
    OBVIOUS
  <2> HIDE DEF q, Upto
  <2> QED
    BY <2>1, Zenon
<1>2. ASSUME NEW d \in 1..N, d - 1 \in T
      PROVE  d \in T
  <2>1. PICK f \in [0..d - 1 -> Nat \ {0}] : Upto(d - 1, f)
    BY <1>2
  <2> DEFINE q == [k \in 0..d |-> IF k = d THEN b * f[d - 1] ELSE f[k]]
  <2>2. \A x, y \in Nat \ {0} : x * y \in Nat \ {0}
    OBVIOUS
  <2>3. f[d - 1] \in Nat \ {0} /\ b * f[d - 1] \in Nat \ {0}
    BY <2>2
  <2>4. q \in [0..d -> Nat \ {0}]
    BY <2>3
  <2>5. q[d] = b * f[d - 1] /\ \A k \in 0..d - 1 : q[k] = f[k]
    OBVIOUS
  <2> HIDE DEF q
  <2>6. Upto(d, q)
    <3>1. q[0] = 1
      BY <2>1, <2>5
    <3>2. \A k \in 1..d - 1 : q[k] = b * q[k - 1]
      BY <2>1, <2>5
    <3>3. q[d] = b * q[d - 1]
      BY <2>5
    <3>4. \A k \in 1..d : k \in 1..d - 1 \/ k = d
      OBVIOUS
    <3> QED
      BY <3>1, <3>2, <3>3, <3>4
  <2> HIDE DEF Upto
  <2> QED
    BY <2>4, <2>6
<1> HIDE DEF T
<1>3. N \in T
  <2>1. \A d \in 1..N : d - 1 \in T => d \in T
    BY <1>2
  <2>2. 0..N \subseteq T
    BY <1>1, <2>1, Induction
  <2> QED
    BY <2>2
<1>4. PICK f \in [0..N -> Nat \ {0}] : Upto(N, f)
  BY <1>3 DEF T
<1>5. f = [k \in 0..N |-> f[k]]
  OBVIOUS
<1>6. \A k \in 0..N : f[k] = IF k = 0 THEN 1 ELSE b * f[k - 1]
  <2>1. \A k \in 0..N : k = 0 \/ k \in 1..N
    OBVIOUS
  <2>2. f[0] = 1 /\ \A k \in 1..N : f[k] = b * f[k - 1] /\ k # 0
    BY <1>4
  <2> QED
    BY <2>1, <2>2
<1>7. f = Powers(b, N, f)
  BY <1>5, <1>6, Zenon DEF Powers
<1> QED
  BY <1>7

(* Such a function has positive values. *)
LEMMA PowersTyped ==
  ASSUME NEW b \in Nat \ {0}, NEW N \in Nat, NEW f, f = Powers(b, N, f)
  PROVE  \A k \in 0..N : f[k] \in Nat \ {0}
<1> DEFINE T == {k \in 0..N : f[k] \in Nat \ {0}}
<1>1. f[0] = 1 /\ \A k \in 1..N : f[k] = b * f[k - 1]
  BY ONLY b \in Nat \ {0}, N \in Nat, f = Powers(b, N, f), PowersAt, Zenon
<1>2. 0 \in T
  BY <1>1
<1>3. \A x, y \in Nat \ {0} : x * y \in Nat \ {0}
  OBVIOUS
<1>4. \A d \in 1..N : d - 1 \in T => d \in T
  BY <1>1, <1>3
<1> HIDE DEF T
<1>5. 0..N \subseteq T
  BY <1>2, <1>4, Induction
<1> QED
  BY <1>5 DEF T

(* The numbers that the constants are, and the order of the widths. *)
LEMMA Widths ==
  /\ Radix \in Nat \ {0} /\ Bytes \in Nat \ {0} /\ B \in Nat \ {0} /\ M \in Nat \ {0}
  /\ P \in Nat \ {0} /\ Epoch \in Nat \ {0} /\ Nanos \in Nat \ {0}
  /\ Minute \in Nat \ {0} /\ ChronoMax \in Nat \ {0}
  /\ M < B /\ B <= P
BY TimeAssumption

(* Powers of two double. *)
LEMMA Doubling ==
  /\ \A k \in 0..3 * P : Pow2[k] \in Nat \ {0}
  /\ Pow2[0] = 1
  /\ \A k \in 1..3 * P : Pow2[k] = 2 * Pow2[k - 1]
<1>1. 3 * P \in Nat /\ 2 \in Nat \ {0}
  BY Widths
<1>2. Pow2 = Powers(2, 3 * P, Pow2)
  <2>1. \E f : f = [k \in 0..3 * P |-> IF k = 0 THEN 1 ELSE 2 * f[k - 1]]
    BY <1>1, PowersExist DEF Powers
  <2>2. Pow2 = [k \in 0..3 * P |-> IF k = 0 THEN 1 ELSE 2 * Pow2[k - 1]]
    BY <2>1, Zenon DEF Pow2
  <2> QED
    BY <2>2, Zenon DEF Powers
<1>3. \A k \in 0..3 * P : Pow2[k] \in Nat \ {0}
  BY ONLY <1>1, <1>2, PowersTyped, Zenon
<1>4. Pow2[0] = 1 /\ \A k \in 1..3 * P : Pow2[k] = 2 * Pow2[k - 1]
  <2> DEFINE N == 3 * P
             b == 2
  <2>1. N \in Nat /\ Pow2 = Powers(b, N, Pow2)
    BY <1>1, <1>2
  <2> HIDE DEF N, b
  <2>2. Pow2[0] = 1 /\ \A k \in 1..N : Pow2[k] = b * Pow2[k - 1]
    BY ONLY <2>1, PowersAt, Zenon
  <2> QED
    BY <2>2 DEF N, b
<1> QED
  BY <1>3, <1>4

(* The weights of the bytes. *)
LEMMA Weights ==
  /\ \A i \in 0..Bytes : Weight[i] \in Nat \ {0}
  /\ Weight[0] = 1
  /\ \A i \in 1..Bytes : Weight[i] = Radix * Weight[i - 1]
<1>1. Bytes \in Nat /\ Radix \in Nat \ {0}
  BY Widths
<1>2. Weight = Powers(Radix, Bytes, Weight)
  <2>1. \E f : f = [i \in 0..Bytes |-> IF i = 0 THEN 1 ELSE Radix * f[i - 1]]
    BY <1>1, PowersExist DEF Powers
  <2>2. Weight = [i \in 0..Bytes |-> IF i = 0 THEN 1 ELSE Radix * Weight[i - 1]]
    BY <2>1, Zenon DEF Weight
  <2> QED
    BY <2>2, Zenon DEF Powers
<1>3. \A i \in 0..Bytes : Weight[i] \in Nat \ {0}
  BY ONLY <1>1, <1>2, PowersTyped, Zenon
<1>4. Weight[0] = 1 /\ \A i \in 1..Bytes : Weight[i] = Radix * Weight[i - 1]
  BY ONLY <1>1, <1>2, PowersAt, Zenon
<1> QED
  BY <1>3, <1>4

(* The power of a sum is the product of the powers, ... *)
LEMMA PowSum ==
  ASSUME NEW i \in Nat, NEW j \in Nat, i + j <= 3 * P
  PROVE  Pow2[i + j] = Pow2[i] * Pow2[j]
<1> DEFINE N == 3 * P
           T == {k \in 0..j : Pow2[i + k] = Pow2[i] * Pow2[k]}
<1>1. /\ N \in Nat /\ i + j <= N
      /\ \A k \in 0..N : Pow2[k] \in Nat \ {0}
      /\ Pow2[0] = 1
      /\ \A k \in 1..N : Pow2[k] = 2 * Pow2[k - 1]
  BY Widths, Doubling
<1> HIDE DEF N
<1>2. 0 \in T
  BY <1>1
<1>3. ASSUME NEW k \in 1..j, k - 1 \in T
      PROVE  k \in T
  <2>1. k \in 1..N /\ i + k \in 1..N /\ (i + k) - 1 = i + (k - 1) /\ i \in 0..N
    BY <1>1
  <2>2. Pow2[i + k] = 2 * Pow2[(i + k) - 1] /\ Pow2[k] = 2 * Pow2[k - 1]
    BY <1>1, <2>1
  <2>3. Pow2[i + (k - 1)] = Pow2[i] * Pow2[k - 1]
    BY <1>3
  <2>4. Pow2[i] \in Nat /\ Pow2[k - 1] \in Nat
    BY <1>1, <2>1
  <2>5. \A x, y \in Nat : 2 * (x * y) = x * (2 * y)
    OBVIOUS
  <2> QED
    BY <2>1, <2>2, <2>3, <2>4, <2>5
<1> HIDE DEF T
<1>4. 0..j \subseteq T
  BY <1>2, <1>3, Induction
<1> QED
  BY <1>4 DEF T

(* ... so a smaller power divides a greater one. *)
LEMMA PowOrder ==
  ASSUME NEW i \in Nat, NEW j \in Nat, i <= j, j <= 3 * P
  PROVE  /\ Pow2[i] \in Nat \ {0} /\ Pow2[j] \in Nat \ {0}
         /\ \E q \in Nat \ {0} : Pow2[j] = q * Pow2[i]
         /\ Pow2[i] <= Pow2[j]
         /\ i < j => 2 * Pow2[i] <= Pow2[j]
<1> DEFINE N == 3 * P
           q == Pow2[j - i]
<1>1. /\ N \in Nat /\ j <= N /\ Pow2[0] = 1
      /\ \A k \in 0..N : Pow2[k] \in Nat \ {0}
      /\ \A k \in 1..N : Pow2[k] = 2 * Pow2[k - 1]
  BY Widths, Doubling
<1>2. j - i \in Nat /\ i + (j - i) = j
  OBVIOUS
<1>3. Pow2[j] = Pow2[i] * q
  BY <1>2, PowSum
<1> HIDE DEF N
<1>4. q \in Nat \ {0} /\ Pow2[i] \in Nat \ {0} /\ Pow2[j] \in Nat \ {0}
  BY <1>1, <1>2
<1>5. i < j => q >= 2
  <2>1. i < j => /\ j - i \in 1..N /\ (j - i) - 1 \in 0..N
    BY <1>1
  <2>2. i < j => q = 2 * Pow2[(j - i) - 1] /\ Pow2[(j - i) - 1] \in Nat \ {0}
    BY <1>1, <2>1
  <2> QED
    BY <2>2
<1> HIDE DEF q
<1>6. \A x \in Nat \ {0}, y \in Nat \ {0} : /\ x * y = y * x /\ x <= x * y
                                        /\ y >= 2 => 2 * x <= x * y
  OBVIOUS
<1> QED
  BY <1>3, <1>4, <1>5, <1>6

-----------------------------------------------------------------------------
(* Nearest is at most half a step away, ... *)
LEMMA NearestIs ==
  ASSUME NEW n \in Int, NEW u \in Nat \ {0}
  PROVE  /\ Nearest(n, u) \in Int
         /\ 2 * n - u <= 2 * (Nearest(n, u) * u)
         /\ 2 * (Nearest(n, u) * u) <= 2 * n + u
<1> DEFINE a == 2 * n + u
           b == 2 * u
           k == a \div b
<1>1. a \in Int /\ b \in Nat /\ b > 0
  OBVIOUS
<1>2. \A x \in Int, y \in Nat : y > 0 =>
        /\ x \div y \in Int /\ x % y \in 0..(y - 1)
        /\ x = y * (x \div y) + (x % y)
  OBVIOUS
<1>3. k \in Int /\ a % b \in 0..(b - 1) /\ a = b * k + (a % b)
  <2> HIDE DEF a, b
  <2> QED
    BY <1>1, <1>2
<1>4. Nearest(n, u) = IF a % b = 0 /\ k % 2 = 1 THEN k - 1 ELSE k
  BY DEF Nearest
<1>5. b * k = 2 * (k * u) /\ 2 * ((k - 1) * u) = 2 * (k * u) - 2 * u
  <2> HIDE DEF k
  <2>1. k \in Int
    BY <1>3
  <2> QED
    BY <2>1
<1> DEFINE r == a % b
           w == k * u
<1>6. 2 * n + u = 2 * w + r /\ r \in 0..(2 * u - 1) /\ w \in Int
  <2>1. w \in Int
    <3> HIDE DEF k
    <3> QED
      BY <1>3
  <2> HIDE DEF k
  <2> QED
    BY <1>3, <1>5, <2>1
<1>7. CASE r = 0 /\ k % 2 = 1
  <2>1. 2 * (Nearest(n, u) * u) = 2 * w - 2 * u /\ Nearest(n, u) = k - 1
    BY <1>4, <1>5, <1>7
  <2> HIDE DEF r, w, k, a, b
  <2> QED
    BY <1>3, <1>6, <1>7, <2>1
<1>8. CASE ~(r = 0 /\ k % 2 = 1)
  <2>1. Nearest(n, u) = k
    BY <1>4, <1>8
  <2>2. 2 * (Nearest(n, u) * u) = 2 * w
    BY <2>1
  <2> HIDE DEF r, w, k, a, b
  <2> QED
    BY <1>3, <1>6, <2>1, <2>2
<1> QED
  BY <1>7, <1>8

(* ... and keeps the order. *)
LEMMA NearestMonotone ==
  ASSUME NEW m \in Int, NEW n \in Int, m <= n, NEW u \in Nat \ {0}
  PROVE  Nearest(m, u) <= Nearest(n, u)
<1> DEFINE b == 2 * u
           j == (2 * m + u) \div b
           k == (2 * n + u) \div b
           s == (2 * m + u) % b
           r == (2 * n + u) % b
<1>1. b \in Nat /\ b > 0 /\ 2 * m + u \in Int /\ 2 * n + u \in Int
  OBVIOUS
<1>2. \A x \in Int, y \in Nat : y > 0 =>
        /\ x \div y \in Int /\ x % y \in 0..(y - 1)
        /\ x = y * (x \div y) + (x % y)
  OBVIOUS
<1>3. /\ j \in Int /\ s \in 0..(b - 1) /\ 2 * m + u = b * j + s
      /\ k \in Int /\ r \in 0..(b - 1) /\ 2 * n + u = b * k + r
  <2> HIDE DEF b
  <2> QED
    BY <1>1, <1>2
<1>4. /\ Nearest(m, u) = IF s = 0 /\ j % 2 = 1 THEN j - 1 ELSE j
      /\ Nearest(n, u) = IF r = 0 /\ k % 2 = 1 THEN k - 1 ELSE k
  BY DEF Nearest
<1> HIDE DEF b, j, k, s, r
<1>5. j <= k
  <2> SUFFICES ASSUME k < j PROVE FALSE
    BY <1>3
  <2>1. b * k + b <= b * j
    BY <1>1, <1>3
  <2>2. b * k \in Int /\ b * j \in Int
    BY <1>1, <1>3
  <2> QED
    BY <1>1, <1>3, <2>1, <2>2
<1>6. CASE j = k
  <2>1. s <= r
    <3>1. b * k \in Int
      BY <1>1, <1>3
    <3> QED
      BY <1>1, <1>3, <1>6, <3>1
  <2>2. r = 0 => s = 0
    BY <1>1, <1>3, <2>1
  <2> QED
    BY <1>3, <1>4, <1>6, <2>2
<1>7. CASE j < k
  BY <1>3, <1>4, <1>7
<1> QED
  BY <1>3, <1>5, <1>6, <1>7

(* A multiple is its own nearest one. *)
LEMMA NearestMultiple ==
  ASSUME NEW c \in Int, NEW u \in Nat \ {0}
  PROVE  Nearest(c * u, u) = c
<1> DEFINE n == c * u
           k == Nearest(n, u)
<1>1. n \in Int
  OBVIOUS
<1>2. k \in Int /\ 2 * n - u <= 2 * (k * u) /\ 2 * (k * u) <= 2 * n + u
  <2> HIDE DEF n
  <2> QED
    BY <1>1, NearestIs
<1> HIDE DEF k
<1>3. ASSUME k < c PROVE FALSE
  <2>1. k * u + u <= c * u
    BY <1>2, <1>3
  <2>2. k * u \in Int
    BY <1>2
  <2> QED
    BY <1>1, <1>2, <2>1, <2>2
<1>4. ASSUME c < k PROVE FALSE
  <2>1. c * u + u <= k * u
    BY <1>2, <1>4
  <2>2. k * u \in Int
    BY <1>2
  <2> QED
    BY <1>1, <1>2, <2>1, <2>2
<1> QED
  BY <1>2, <1>3, <1>4 DEF k

(* ... and no multiple is nearer. *)
LEMMA NearestBest ==
  ASSUME NEW n \in Int, NEW c \in Int, NEW u \in Nat \ {0}
  PROVE  Abs(Nearest(n, u) * u - n) <= Abs(c * u - n)
<1> DEFINE k == Nearest(n, u)
<1>1. k \in Int /\ 2 * n - u <= 2 * (k * u) /\ 2 * (k * u) <= 2 * n + u
  BY NearestIs
<1> HIDE DEF k
<1>2. k * u \in Int /\ c * u \in Int
  BY <1>1
<1>3. k + 1 <= c => k * u + u <= c * u
  BY <1>1
<1>4. c + 1 <= k => c * u + u <= k * u
  BY <1>1
<1>5. k + 1 <= c \/ c + 1 <= k \/ c = k
  BY <1>1
<1> DEFINE x == k * u
           y == c * u
<1>6. (x + u <= y \/ y + u <= x \/ x = y) /\ x \in Int /\ y \in Int
        /\ 2 * n - u <= 2 * x /\ 2 * x <= 2 * n + u
  BY <1>1, <1>2, <1>3, <1>4, <1>5
<1> HIDE DEF x, y
<1>7. Abs(x - n) <= Abs(y - n)
  BY <1>6 DEF Abs
<1> QED
  BY <1>7 DEF x, y, k

-----------------------------------------------------------------------------
(* What the numbers that become doubles stay below. *)
Top == Pow2[M + 2 * P]

(* Powers with the exponents that occur. *)
LEMMA Powered ==
  /\ M + 2 * P \in 0..3 * P
  /\ \A k \in 0..2 * P : /\ M + k \in 0..3 * P /\ k \in 0..3 * P
                        /\ Pow2[k] \in Nat \ {0} /\ Pow2[M + k] \in Nat \ {0}
  /\ \A k \in 1..2 * P : /\ M + k - 1 \in 0..3 * P
                        /\ Pow2[M + k - 1] \in Nat \ {0}
                        /\ Pow2[M + k] = 2 * Pow2[M + k - 1]
  /\ Top \in Nat \ {0} /\ One \in Nat \ {0} /\ Tick \in Nat \ {0} /\ Word \in Nat \ {0}
<1>1. \A k \in 0..2 * P : M + k \in 0..3 * P /\ k \in 0..3 * P
  BY Widths
<1>2. \A k \in 1..2 * P : M + k - 1 \in 0..3 * P /\ M + k \in 1..3 * P
  BY Widths
<1>3. M + 2 * P \in 0..3 * P /\ P \in 0..3 * P /\ P - B \in 0..3 * P /\ B \in 0..3 * P
  BY Widths
<1> DEFINE N == 3 * P
<1>4. /\ \A k \in 0..N : Pow2[k] \in Nat \ {0}
      /\ \A k \in 1..N : Pow2[k] = 2 * Pow2[k - 1]
  BY Doubling
<1> HIDE DEF N
<1>5. \A k \in 0..2 * P : Pow2[k] \in Nat \ {0} /\ Pow2[M + k] \in Nat \ {0}
  BY <1>1, <1>4 DEF N
<1>6. ASSUME NEW k \in 1..2 * P
      PROVE  Pow2[M + k] = 2 * Pow2[M + k - 1]
  <2> DEFINE j == M + k
  <2>1. j \in 1..N
    BY <1>2 DEF N
  <2> HIDE DEF j
  <2>2. Pow2[j] = 2 * Pow2[j - 1]
    BY <1>4, <2>1
  <2>3. j - 1 = M + (k - 1)
    BY Widths DEF j
  <2> QED
    BY <2>2, <2>3 DEF j
<1>7. \A k \in 1..2 * P : Pow2[M + k - 1] \in Nat \ {0}
  BY <1>2, <1>4 DEF N
<1>8. Top \in Nat \ {0} /\ One \in Nat \ {0} /\ Tick \in Nat \ {0} /\ Word \in Nat \ {0}
  BY <1>3, <1>4 DEF N, Top, One, Tick, Word
<1> QED
  BY <1>1, <1>2, <1>3, <1>5, <1>6, <1>7, <1>8

(* n / d has M bits at the spacing 2^e. *)
Binade(n, d, e) ==
  /\ e \in 0..2 * P
  /\ Abs(n) < d * Pow2[M + e]
  /\ e = 0 \/ Abs(n) >= d * Pow2[M + e - 1]

LEMMA ExponentIs ==
  ASSUME NEW n \in Int, NEW d \in Nat \ {0}, Abs(n) < d * Top
  PROVE  Binade(n, d, Exponent(n, d))
<1> DEFINE S == {k \in 0..2 * P : Abs(n) < d * Pow2[M + k]}
<1>1. 2 * P \in S /\ S \in SUBSET Nat
  BY Widths DEF Top
<1>2. PICK k \in S : \A j \in S : k <= j
  <2> HIDE DEF S
  <2> QED
    BY <1>1, Least
<1>3. k = 0 \/ Abs(n) >= d * Pow2[M + k - 1]
  <2> SUFFICES ASSUME k # 0 PROVE Abs(n) >= d * Pow2[M + k - 1]
    OBVIOUS
  <2>1. k - 1 \in 0..2 * P /\ M + (k - 1) = M + k - 1 /\ ~(k <= k - 1) /\ k \in 1..2 * P
    BY Widths
  <2>2. ~(Abs(n) < d * Pow2[M + (k - 1)])
    BY <1>2, <2>1
  <2>3. Pow2[M + k - 1] \in Nat
    BY <2>1, Powered
  <2>4. d * Pow2[M + k - 1] \in Nat /\ Abs(n) \in Nat
    BY <2>3 DEF Abs
  <2> QED
    BY <2>1, <2>2, <2>4
<1>4. \E e \in 0..2 * P : Abs(n) < d * Pow2[M + e] /\ (e = 0 \/ Abs(n) >= d * Pow2[M + e - 1])
  BY <1>2, <1>3
<1> QED
  BY <1>4, Zenon DEF Exponent, Binade

(* Smaller numbers have smaller exponents. *)
LEMMA ExponentOrder ==
  ASSUME NEW m \in Int, NEW d \in Nat \ {0}, NEW n \in Int, NEW e, NEW f,
         Binade(m, d, e), Binade(n, 1, f), Abs(m) <= d * Abs(n)
  PROVE  e <= f
<1> SUFFICES ASSUME f < e PROVE FALSE
  BY Widths DEF Binade
<1>1. e \in 0..2 * P /\ f \in 0..2 * P /\ e # 0
  BY Widths DEF Binade
<1>2. Abs(m) >= d * Pow2[M + e - 1] /\ Abs(n) < 1 * Pow2[M + f]
  BY <1>1 DEF Binade
<1>3. M + f \in Nat /\ M + e - 1 \in Nat /\ M + f <= M + e - 1 /\ M + e - 1 <= 3 * P
  BY <1>1, Widths
<1>4. Pow2[M + f] <= Pow2[M + e - 1] /\ Pow2[M + f] \in Nat /\ Pow2[M + e - 1] \in Nat
  BY <1>3, PowOrder
<1> DEFINE x == Abs(n)
           y == Pow2[M + e - 1]
<1>5. x \in Nat /\ y \in Nat /\ x < y /\ Abs(m) \in Nat /\ Abs(m) <= d * x /\ Abs(m) >= d * y
  BY <1>2, <1>4 DEF Abs
<1> HIDE DEF x, y
<1>6. d * x < d * y
  BY <1>5
<1>7. d * x \in Nat /\ d * y \in Nat
  BY <1>5
<1> QED
  BY <1>5, <1>6, <1>7

(* The spacing of doubles is a power of two, and not more than the one of a *)
(* greater number.                                                          *)
LEMMA UlpIs ==
  ASSUME NEW n \in Int, NEW d \in Nat \ {0}, Abs(n) < d * Top
  PROVE  /\ Binade(n, d, Exponent(n, d)) /\ Ulp(n, d) = Pow2[Exponent(n, d)]
         /\ Exponent(n, d) \in 0..2 * P /\ Ulp(n, d) \in Nat \ {0}
<1>1. Binade(n, d, Exponent(n, d))
  BY ExponentIs
<1>2. Exponent(n, d) \in 0..2 * P
  BY <1>1 DEF Binade
<1>3. Pow2[Exponent(n, d)] \in Nat \ {0}
  BY <1>2, Powered
<1> QED
  BY <1>1, <1>2, <1>3 DEF Ulp

LEMMA UlpOrder ==
  ASSUME NEW m \in Int, NEW d \in Nat \ {0}, NEW n \in Int,
         Abs(m) <= d * Abs(n), Abs(n) < Top
  PROVE  /\ Abs(m) < d * Top
         /\ Exponent(m, d) <= Exponent(n, 1)
         /\ Ulp(m, d) <= Ulp(n, 1)
<1>1. Abs(m) < d * Top
  <2> DEFINE x == Abs(n)
             y == Abs(m)
  <2>1. x \in Nat /\ y \in Nat /\ Top \in Nat /\ x < Top /\ y <= d * x
    BY Powered DEF Abs
  <2> HIDE DEF x, y
  <2>2. d * x < d * Top /\ d * x \in Nat /\ d * Top \in Nat
    BY <2>1
  <2>3. y < d * Top
    BY <2>1, <2>2
  <2> QED
    BY <2>3 DEF y
<1>2. Abs(n) < 1 * Top
  BY Powered
<1>3. /\ Binade(m, d, Exponent(m, d)) /\ Ulp(m, d) = Pow2[Exponent(m, d)]
      /\ Binade(n, 1, Exponent(n, 1)) /\ Ulp(n, 1) = Pow2[Exponent(n, 1)]
      /\ Exponent(m, d) \in 0..2 * P /\ Exponent(n, 1) \in 0..2 * P
  BY <1>1, <1>2, UlpIs
<1>4. Exponent(m, d) <= Exponent(n, 1)
  BY <1>3, ExponentOrder
<1>5. Exponent(m, d) \in Nat /\ Exponent(n, 1) \in Nat /\ Exponent(n, 1) <= 3 * P
  BY <1>3, Widths
<1>6. Ulp(m, d) <= Ulp(n, 1)
  BY <1>3, <1>4, <1>5, PowOrder
<1> QED
  BY <1>1, <1>4, <1>6

(* A quotient rounds by at most half the spacing, ... *)
LEMMA RoundedIs ==
  ASSUME NEW n \in Int, NEW d \in Nat \ {0}, Abs(n) < d * Top
  PROVE  /\ Rounded(n, d) \in Int
         /\ 2 * n - d * Ulp(n, d) <= 2 * (d * Rounded(n, d))
         /\ 2 * (d * Rounded(n, d)) <= 2 * n + d * Ulp(n, d)
<1> DEFINE U == Ulp(n, d)
           k == Nearest(n, d * U)
<1>1. U \in Nat \ {0}
  BY UlpIs
<1> HIDE DEF U
<1>2. d * U \in Nat \ {0}
  BY <1>1
<1>3. k \in Int /\ 2 * n - d * U <= 2 * (k * (d * U)) /\ 2 * (k * (d * U)) <= 2 * n + d * U
  BY <1>2, NearestIs
<1>4. Rounded(n, d) = k * U
  BY DEF Rounded, U
<1> HIDE DEF k
<1>5. k * (d * U) = d * (k * U) /\ k * U \in Int
  BY <1>1, <1>3
<1> QED
  BY <1>3, <1>4, <1>5 DEF U

(* ... and a number to the nearest multiple of it. *)
LEMMA F64Is ==
  ASSUME NEW n \in Int, Abs(n) < Top
  PROVE  /\ F64(n) \in Int
         /\ F64(n) = Nearest(n, Ulp(n, 1)) * Ulp(n, 1)
         /\ 2 * n - Ulp(n, 1) <= 2 * F64(n)
         /\ 2 * F64(n) <= 2 * n + Ulp(n, 1)
         /\ \A c \in Int : Abs(F64(n) - n) <= Abs(c * Ulp(n, 1) - n)
<1>1. Abs(n) < 1 * Top /\ 1 \in Nat \ {0}
  BY Powered
<1>2. Ulp(n, 1) \in Nat \ {0}
  BY <1>1, UlpIs
<1> DEFINE U == Ulp(n, 1)
<1>3. 1 * U = U
  BY <1>2
<1>4. F64(n) = Nearest(n, U) * U
  BY <1>3, Zenon DEF F64, Rounded
<1>5. \A c \in Int : Abs(F64(n) - n) <= Abs(c * U - n)
  <2> HIDE DEF U
  <2> QED
    BY <1>2, <1>4, NearestBest DEF U
<1>6. Nearest(n, U) \in Int /\ 2 * n - U <= 2 * (Nearest(n, U) * U) /\ 2 * (Nearest(n, U) * U) <= 2 * n + U
  BY <1>2, NearestIs
<1> HIDE DEF U
<1>7. Nearest(n, U) * U \in Int
  BY <1>2, <1>6 DEF U
<1> QED
  BY <1>4, <1>5, <1>6, <1>7 DEF U

(* A number of M bits is a double. *)
LEMMA F64Exact ==
  ASSUME NEW c \in Int, NEW j \in 0..2 * P - 1, Abs(c) <= Pow2[M]
  PROVE  /\ Abs(c * Pow2[j]) < Top
         /\ F64(c * Pow2[j]) = c * Pow2[j]
<1> DEFINE n == c * Pow2[j]
           e == Exponent(n, 1)
           p == Pow2[j]
           q == Pow2[M]
<1>1. j \in 0..2 * P /\ M \in Nat /\ j \in Nat /\ M + j \in Nat /\ M + j < M + 2 * P /\ M + 2 * P <= 3 * P
        /\ M + j <= 3 * P /\ M + 2 * P \in Nat
  BY Widths
<1>2. p \in Nat \ {0} /\ q \in Nat \ {0} /\ Pow2[M + j] = q * p /\ Pow2[M + j] < Top
  <2>1. Pow2[M + j] = q * p
    BY <1>1, PowSum
  <2>2. 2 * Pow2[M + j] <= Top /\ Pow2[M + j] \in Nat \ {0} /\ Top \in Nat \ {0}
    BY <1>1, PowOrder DEF Top
  <2>3. p \in Nat \ {0} /\ q \in Nat \ {0}
    BY <1>1, Doubling, Widths
  <2> HIDE DEF p, q
  <2> QED
    BY <2>1, <2>2, <2>3
<1>3. n \in Int /\ Abs(n) = Abs(c) * p
  <2>1. \A x \in Int, y \in Nat \ {0} : /\ x * y \in Int /\ (x < 0 <=> x * y < 0)
                                     /\ -(x * y) = (-x) * y
    OBVIOUS
  <2>2. n = c * p
    OBVIOUS
  <2> HIDE DEF n, p
  <2>3. n \in Int /\ (c < 0 <=> n < 0) /\ -n = (-c) * p
    BY <1>2, <2>1, <2>2
  <2> QED
    BY <2>2, <2>3 DEF Abs
<1>4. Abs(n) <= q * p
  <2> DEFINE a == Abs(c)
  <2>1. a \in Nat /\ a <= q
    BY DEF Abs
  <2> HIDE DEF a, p, q
  <2>2. a * p <= q * p
    BY <1>2, <2>1
  <2>3. Abs(n) = a * p
    BY <1>3 DEF a, p
  <2> QED
    BY <2>2, <2>3
<1>5. Abs(n) < Top
  <2> HIDE DEF n, p, q
  <2> QED
    BY <1>2, <1>3, <1>4, Powered DEF Abs
<1> HIDE DEF n
<1>6. Binade(n, 1, e) /\ Ulp(n, 1) = Pow2[e] /\ e \in 0..2 * P /\ Pow2[e] \in Nat \ {0}
  <2>1. Abs(n) < 1 * Top
    BY <1>5, Powered
  <2> QED
    BY <1>3, <2>1, UlpIs
<1> HIDE DEF e
<1>7. \E k \in Int : n = k * Pow2[e]
  <2>1. CASE e <= j
    <3>1. PICK r \in Nat \ {0} : p = r * Pow2[e]
      BY <1>1, <1>6, <2>1, PowOrder, Widths
    <3>2. n = (c * r) * Pow2[e] /\ c * r \in Int
      <4>1. n = c * (r * Pow2[e])
        BY <3>1 DEF n
      <4> QED
        BY <1>6, <3>1, <4>1
    <3> QED
      BY <3>2
  <2>2. CASE j < e
    <3>1. M + j <= M + e - 1 /\ M + e - 1 \in Nat /\ M + e - 1 <= 3 * P /\ e # 0
      BY <1>1, <1>6, <2>2, Widths
    <3>2. Abs(n) >= Pow2[M + e - 1]
      BY <1>6, <3>1, Doubling DEF Binade
    <3>3. j + 1 = e
      <4> SUFFICES ASSUME j + 1 # e PROVE FALSE
        OBVIOUS
      <4>1. M + j < M + e - 1
        BY <1>1, <1>6, <2>2
      <4>2. 2 * Pow2[M + j] <= Pow2[M + e - 1] /\ Pow2[M + j] \in Nat \ {0}
        BY <1>1, <3>1, <4>1, PowOrder
      <4>3. Abs(n) \in Nat /\ Abs(n) <= Pow2[M + j]
        BY <1>2, <1>3, <1>4 DEF Abs
      <4>4. Pow2[M + e - 1] \in Nat
        BY <3>1, Doubling
      <4> QED
        BY <3>2, <4>2, <4>3, <4>4
    <3>4. M - 1 \in Nat /\ M - 1 + e = M + j /\ M - 1 + e <= 3 * P /\ e \in Nat
      BY <1>1, <1>6, <3>3, Widths
    <3>5. Pow2[M + j] = Pow2[M - 1] * Pow2[e] /\ Pow2[M - 1] \in Nat
      <4>1. M - 1 + e = (M - 1) + e
        BY <3>4
      <4>2. Pow2[(M - 1) + e] = Pow2[M - 1] * Pow2[e]
        BY <3>4, <4>1, PowSum
      <4>3. M - 1 \in 0..3 * P
        BY Widths
      <4> QED
        BY <3>4, <4>1, <4>2, <4>3, Doubling
    <3>6. Abs(n) = Pow2[M + j]
      <4>1. Abs(n) \in Nat /\ Abs(n) <= Pow2[M + j]
        BY <1>2, <1>3, <1>4 DEF Abs
      <4>2. Abs(n) >= Pow2[M + j]
        <5>1. M + e - 1 = M + j
          BY <1>1, <3>3
        <5> QED
          BY <3>2, <5>1
      <4>3. Pow2[M + j] \in Nat
        BY <1>1, Powered
      <4> QED
        BY <4>1, <4>2, <4>3
    <3>7. n = Pow2[M - 1] * Pow2[e] \/ n = (-Pow2[M - 1]) * Pow2[e]
      <4>1. n = Pow2[M + j] \/ n = -Pow2[M + j]
        BY <1>3, <3>6 DEF Abs
      <4>2. \A x, y \in Nat : -(x * y) = (-x) * y
        OBVIOUS
      <4> QED
        BY <1>6, <3>5, <4>1, <4>2
    <3>8. -Pow2[M - 1] \in Int /\ Pow2[M - 1] \in Int
      BY <3>5
    <3> QED
      BY <3>7, <3>8
  <2> QED
    BY <1>1, <1>6, <2>1, <2>2
<1>8. PICK k \in Int : n = k * Pow2[e]
  BY <1>7
<1>9. F64(n) = Nearest(n, Pow2[e]) * Pow2[e]
  BY <1>3, <1>5, <1>6, F64Is
<1>10. Nearest(n, Pow2[e]) = k
  BY <1>6, <1>8, NearestMultiple
<1>11. F64(n) = n
  BY <1>8, <1>9, <1>10
<1> QED
  BY <1>5, <1>11 DEF n

(* Where the spacing grows there is a double of both spacings. *)
LEMMA Boundary ==
  ASSUME NEW m \in Int, NEW n \in Int, Abs(m) < Top, Abs(n) < Top,
         Exponent(m, 1) < Exponent(n, 1)
  PROVE  \E b \in Nat \ {0} : /\ Abs(m) < b /\ b <= Abs(n)
                              /\ \E k \in Int : b = k * Ulp(m, 1)
                              /\ \E k \in Int : b = k * Ulp(n, 1)
<1> DEFINE e == Exponent(m, 1)
           f == Exponent(n, 1)
           b == Pow2[M + f - 1]
<1>1. /\ Binade(m, 1, e) /\ Ulp(m, 1) = Pow2[e] /\ e \in 0..2 * P
      /\ Binade(n, 1, f) /\ Ulp(n, 1) = Pow2[f] /\ f \in 0..2 * P
  <2>1. Abs(m) < 1 * Top /\ Abs(n) < 1 * Top
    BY Powered
  <2> QED
    BY <2>1, UlpIs
<1> HIDE DEF e, f
<1>2. /\ e < f /\ f # 0 /\ e \in Nat /\ f \in Nat /\ M + e \in Nat /\ M + f - 1 \in Nat
      /\ M + e <= M + f - 1 /\ e <= M + f - 1 /\ f <= M + f - 1 /\ M + f - 1 <= 3 * P
  BY <1>1, Widths DEF e, f
<1>3. /\ Pow2[M + e] <= b /\ b \in Nat \ {0} /\ Pow2[M + e] \in Nat
      /\ \E q \in Nat \ {0} : b = q * Pow2[e]
      /\ \E q \in Nat \ {0} : b = q * Pow2[f]
  BY <1>2, PowOrder
<1>4. Abs(m) < Pow2[M + e] /\ Abs(n) >= b /\ Abs(m) \in Nat /\ Abs(n) \in Nat
  <2>1. Abs(m) < 1 * Pow2[M + e] /\ Abs(n) >= 1 * b
    BY <1>1, <1>2 DEF Binade
  <2> HIDE DEF b
  <2> QED
    BY <1>3, <2>1 DEF Abs
<1> HIDE DEF b
<1>5. Abs(m) < b /\ b <= Abs(n)
  BY <1>3, <1>4
<1>6. (\E k \in Int : b = k * Ulp(m, 1)) /\ (\E k \in Int : b = k * Ulp(n, 1))
  BY <1>1, <1>3
<1> QED
  BY <1>3, <1>5, <1>6

(* Rounding keeps the order. *)
LEMMA F64Mono ==
  ASSUME NEW m \in Int, NEW n \in Int, m <= n, Abs(m) < Top, Abs(n) < Top
  PROVE  F64(m) <= F64(n)
<1> DEFINE e == Exponent(m, 1)
           f == Exponent(n, 1)
<1>1. /\ e \in 0..2 * P /\ Ulp(m, 1) \in Nat \ {0} /\ Ulp(m, 1) = Pow2[e]
      /\ f \in 0..2 * P /\ Ulp(n, 1) \in Nat \ {0} /\ Ulp(n, 1) = Pow2[f]
  <2>1. Abs(m) < 1 * Top /\ Abs(n) < 1 * Top
    BY Powered
  <2> QED
    BY <2>1, UlpIs
<1> DEFINE x == F64(m)
           y == F64(n)
<1>2. /\ x \in Int /\ \A c \in Int : Abs(x - m) <= Abs(c * Ulp(m, 1) - m)
      /\ y \in Int /\ \A c \in Int : Abs(y - n) <= Abs(c * Ulp(n, 1) - n)
      /\ x = Nearest(m, Ulp(m, 1)) * Ulp(m, 1)
      /\ y = Nearest(n, Ulp(n, 1)) * Ulp(n, 1)
  BY F64Is
<1>3. CASE e = f
  <2> DEFINE u == Ulp(m, 1)
             j == Nearest(m, u)
             k == Nearest(n, u)
  <2>1. u \in Nat \ {0} /\ Ulp(n, 1) = u
    BY <1>1, <1>3
  <2> HIDE DEF u
  <2>2. j \in Int /\ k \in Int /\ j <= k
    BY <2>1, NearestIs, NearestMonotone
  <2>3. x = j * u /\ y = k * u
    BY <1>2, <2>1 DEF u
  <2> HIDE DEF j, k, x, y
  <2>4. j * u <= k * u
    BY <2>1, <2>2
  <2>5. x <= y
    BY <2>3, <2>4
  <2> QED
    BY <2>5 DEF x, y
<1> HIDE DEF x, y
<1>4. CASE e < f
  <2>1. PICK b \in Nat \ {0} : /\ Abs(m) < b /\ b <= Abs(n)
                               /\ \E k \in Int : b = k * Ulp(m, 1)
                               /\ \E k \in Int : b = k * Ulp(n, 1)
    BY <1>4, Boundary
  <2>2. Abs(x - m) <= Abs(b - m) /\ Abs(y - n) <= Abs(b - n)
    BY <1>2, <2>1
  <2>3. x <= y
    BY <1>2, <2>1, <2>2 DEF Abs
  <2> QED
    BY <2>3 DEF x, y
<1>5. CASE f < e
  <2>1. PICK b \in Nat \ {0} : /\ Abs(n) < b /\ b <= Abs(m)
                               /\ \E k \in Int : b = k * Ulp(n, 1)
                               /\ \E k \in Int : b = k * Ulp(m, 1)
    BY <1>5, Boundary
  <2>2. PICK j \in Int, k \in Int : b = j * Ulp(m, 1) /\ b = k * Ulp(n, 1)
    BY <2>1
  <2>3. \A i, u \in Int : (-i) * u = -(i * u)
    OBVIOUS
  <2>4. (-j) * Ulp(m, 1) = -b /\ (-k) * Ulp(n, 1) = -b /\ -j \in Int /\ -k \in Int
    <3>1. Ulp(m, 1) \in Int /\ Ulp(n, 1) \in Int
      BY <1>1
    <3>2. (-j) * Ulp(m, 1) = -(j * Ulp(m, 1)) /\ (-k) * Ulp(n, 1) = -(k * Ulp(n, 1))
      BY <2>3, <3>1
    <3> QED
      BY <2>2, <3>2
  <2>5. Abs(x - m) <= Abs(-b - m) /\ Abs(y - n) <= Abs(-b - n)
    BY <1>2, <2>4
  <2>6. x <= y
    BY <1>2, <2>1, <2>5 DEF Abs
  <2> QED
    BY <2>6 DEF x, y
<1>6. e = f \/ e < f \/ f < e
  <2> HIDE DEF e, f
  <2> QED
    BY <1>1
<1> QED
  BY <1>3, <1>4, <1>5, <1>6

(* So it does not leave an interval between two doubles. *)
LEMMA F64Within ==
  ASSUME NEW n \in Int, NEW j \in 0..2 * P - 1, NEW a \in Int, NEW b \in Int,
         Abs(a) <= Pow2[M], Abs(b) <= Pow2[M],
         a * Pow2[j] <= n, n <= b * Pow2[j]
  PROVE  /\ Abs(n) < Top /\ F64(n) \in Int
         /\ a * Pow2[j] <= F64(n) /\ F64(n) <= b * Pow2[j]
<1> DEFINE x == a * Pow2[j]
           y == b * Pow2[j]
<1>1. Abs(x) < Top /\ F64(x) = x /\ Abs(y) < Top /\ F64(y) = y
  BY F64Exact
<1>2. x \in Int /\ y \in Int
  <2>1. Pow2[j] \in Int
    BY Powered, Widths
  <2> QED
    BY <2>1
<1>3. x <= n /\ n <= y
  OBVIOUS
<1> HIDE DEF x, y
<1>4. Abs(n) < Top
  BY <1>1, <1>2, <1>3, Powered DEF Abs
<1>5. F64(x) <= F64(n) /\ F64(n) <= F64(y)
  BY <1>1, <1>2, <1>3, <1>4, F64Mono
<1>6. F64(n) \in Int
  BY <1>4, F64Is
<1> QED
  BY <1>1, <1>4, <1>5, <1>6 DEF x, y

-----------------------------------------------------------------------------
(* A second is 2^B ticks. *)
LEMMA Second ==
  /\ One = Word * Tick
  /\ Word \in Nat /\ Word >= 2 /\ Word % 2 = 0 /\ Tick \in Nat \ {0} /\ One \in Nat \ {0}
  /\ Word \div 2 \in Nat /\ 2 * (Word \div 2) = Word
  /\ Pow2[M] \in Nat \ {0} /\ 2 * Pow2[M] <= Word /\ One >= 2
<1>1. P - B \in Nat /\ B \in Nat /\ B + (P - B) = P /\ P <= 3 * P /\ B - 1 \in Nat
        /\ B \in 1..3 * P /\ M \in 0..3 * P /\ M \in Nat /\ M < B /\ B <= 3 * P /\ P \in 1..3 * P
  BY Widths
<1>2. Pow2[B + (P - B)] = Pow2[B] * Pow2[P - B]
  BY <1>1, PowSum
<1>3. Word = 2 * Pow2[B - 1] /\ Pow2[B - 1] \in Nat \ {0} /\ One = 2 * Pow2[P - 1]
        /\ Pow2[P - 1] \in Nat \ {0}
  <2>1. B - 1 \in 0..3 * P /\ P - 1 \in 0..3 * P
    BY <1>1
  <2> QED
    BY <1>1, <2>1, Doubling DEF Word, One
<1>4. Pow2[M] \in Nat \ {0} /\ 2 * Pow2[M] <= Word
  BY <1>1, PowOrder DEF Word
<1>5. Tick \in Nat \ {0} /\ One \in Nat \ {0}
  BY Powered
<1> QED
  BY <1>1, <1>2, <1>3, <1>4, <1>5 DEF One, Word, Tick

(* The whole seconds of a double, and the rest. *)
LEMMA TruncatedIs ==
  ASSUME NEW x \in Int
  PROVE  /\ Truncated(x) \in Int
         /\ IF x >= 0 THEN x - Truncated(x) * One \in 0..One - 1
                      ELSE x - Truncated(x) * One \in 1 - One..0
<1>1. \A n \in Int, y \in Nat : y > 0 =>
        /\ n \div y \in Int /\ n % y \in 0..(y - 1)
        /\ n = y * (n \div y) + (n % y)
  OBVIOUS
<1>2. One \in Nat /\ One > 0 /\ -x \in Int
  BY Second
<1>3. CASE x >= 0
  <2> DEFINE k == x \div One
             r == x % One
  <2>1. k \in Int /\ r \in 0..One - 1 /\ x = One * k + r
    BY <1>1, <1>2
  <2>2. Truncated(x) = k
    BY <1>3 DEF Truncated
  <2> HIDE DEF k, r
  <2>3. One * k = k * One /\ k * One \in Int
    BY <1>2, <2>1
  <2> QED
    BY <1>2, <1>3, <2>1, <2>2, <2>3
<1>4. CASE x < 0
  <2> DEFINE k == (-x) \div One
             r == (-x) % One
  <2>1. k \in Int /\ r \in 0..One - 1 /\ -x = One * k + r
    BY <1>1, <1>2
  <2>2. Truncated(x) = -k
    BY <1>4 DEF Truncated
  <2> HIDE DEF k, r
  <2>3. One * k = -((-k) * One) /\ One * k \in Int
    BY <1>2, <2>1
  <2> QED
    BY <1>2, <1>4, <2>1, <2>2, <2>3
<1> QED
  BY <1>3, <1>4

(* What from_lv_epoch makes of any double. *)
LEMMA FromLvEpoch ==
  ASSUME NEW x \in Int
  PROVE  /\ from_lv_epoch(x) \in Time
         /\ Truncated(x) \in I64 =>
              x - Exact(from_lv_epoch(x)) \in IF x >= 0 THEN 0..Tick - 1 ELSE (1 - One)..0
<1> DEFINE q == Truncated(x)
           r == x - q * One
           f == IF r > 0 THEN r \div Tick ELSE 0
           t == from_lv_epoch(x)
<1>1. q \in Int /\ r \in Int /\ (IF x >= 0 THEN r \in 0..One - 1 ELSE r \in 1 - One..0)
  <2>1. q \in Int /\ (IF x >= 0 THEN r \in 0..One - 1 ELSE r \in 1 - One..0)
    BY TruncatedIs
  <2>2. One \in Int
    BY Second
  <2> QED
    BY <2>1, <2>2
<1>2. t = [seconds |-> AsI64(x), fractions |-> f]
  BY DEF from_lv_epoch
<1> HIDE DEF r, q
<1>3. AsI64(x) \in I64 /\ (q \in I64 => AsI64(x) = q)
  <2>1. Word \div 2 - 1 \in I64 /\ -(Word \div 2) \in I64
    <3> DEFINE h == Word \div 2
    <3>1. h \in Nat /\ h >= 1
      BY Second
    <3> HIDE DEF h
    <3>2. h - 1 \in (-h)..(h - 1) /\ -h \in (-h)..(h - 1)
      BY <3>1
    <3> QED
      BY <3>2 DEF h, I64
  <2> QED
    BY <2>1 DEF AsI64, q
<1>4. f \in 0..Word - 1 /\ f * Tick <= (IF r > 0 THEN r ELSE 0)
        /\ (r > 0 => r - f * Tick \in 0..Tick - 1) /\ (r <= 0 => f = 0)
  <2>1. CASE r > 0
    <3>1. \A n \in Int, y \in Nat : y > 0 =>
            /\ n \div y \in Int /\ n % y \in 0..(y - 1)
            /\ n = y * (n \div y) + (n % y)
      OBVIOUS
    <3> DEFINE k == r \div Tick
               s == r % Tick
    <3>2. k \in Int /\ s \in 0..(Tick - 1) /\ r = Tick * k + s /\ f = k
      BY <1>1, <2>1, <3>1, Second
    <3> HIDE DEF k, s, f
    <3>3. k * Tick = Tick * k /\ Tick * k \in Int
      BY <3>2, Second
    <3>4. k >= 0
      <4> SUFFICES ASSUME k + 1 <= 0 PROVE FALSE
        BY <3>2
      <4>1. Tick * k + Tick <= 0
        BY <3>2, Second
      <4> QED
        BY <2>1, <3>2, <3>3, <4>1, Second
    <3>5. k <= Word - 1
      <4> SUFFICES ASSUME Word <= k PROVE FALSE
        BY <3>2, Second
      <4>1. Tick * Word <= Tick * k /\ Tick * Word = One
        BY <3>2, Second
      <4> QED
        BY <1>1, <3>2, <3>3, <4>1, Second
    <3> QED
      BY <1>1, <2>1, <3>2, <3>3, <3>4, <3>5, Second
  <2>2. CASE ~(r > 0)
    <3>1. f = 0 /\ 0 * Tick = 0
      BY <2>2, Second
    <3> HIDE DEF f
    <3> QED
      BY <1>1, <2>2, <3>1, Second
  <2> QED
    BY <2>1, <2>2
<1> HIDE DEF f
<1>5. t \in Time
  BY <1>2, <1>3, <1>4 DEF Time
<1>6. ASSUME q \in I64
      PROVE  x - Exact(t) \in IF x >= 0 THEN 0..Tick - 1 ELSE (1 - One)..0
  <2>1. Exact(t) = q * One + f * Tick
    BY <1>2, <1>3, <1>6 DEF Exact
  <2>2. x = q * One + r
    <3> DEFINE a == q * One
    <3>1. a \in Int /\ r = x - a
      BY <1>1, Second DEF r
    <3> HIDE DEF a
    <3> QED
      BY <3>1 DEF a
  <2> DEFINE a == q * One
             b == f * Tick
  <2>3. a \in Int /\ b \in Int
    BY <1>1, <1>4, Second
  <2>4. (r > 0 => r - b \in 0..Tick - 1) /\ (r <= 0 => b = 0) /\ Tick \in Nat \ {0} /\ One \in Nat \ {0}
    BY <1>4, Second
  <2>5. x = a + r /\ Exact(t) = a + b
    BY <2>1, <2>2
  <2> HIDE DEF a, b, t
  <2>6. x - Exact(t) = r - b
    BY <1>1, <2>3, <2>5
  <2>7. r - b \in IF x >= 0 THEN 0..Tick - 1 ELSE (1 - One)..0
    BY <1>1, <2>3, <2>4
  <2> QED
    BY <2>6, <2>7
<1> QED
  BY <1>5, <1>6 DEF q

-----------------------------------------------------------------------------
(* Division is unique. *)
LEMMA Division ==
  ASSUME NEW a \in Int, NEW y \in Nat \ {0}, NEW q \in Int, NEW r \in 0..y - 1, a = y * q + r
  PROVE  a \div y = q /\ a % y = r
<1>1. \A n \in Int, z \in Nat : z > 0 =>
        /\ n \div z \in Int /\ n % z \in 0..(z - 1)
        /\ n = z * (n \div z) + (n % z)
  OBVIOUS
<1> DEFINE k == a \div y
           s == a % y
<1>2. k \in Int /\ s \in 0..y - 1 /\ a = y * k + s
  BY <1>1
<1> HIDE DEF k, s
<1>3. k + 1 <= q => y * k + y <= y * q
  BY <1>2
<1>4. q + 1 <= k => y * q + y <= y * k
  BY <1>2
<1>5. y * k \in Int /\ y * q \in Int
  BY <1>2
<1>6. k = q
  BY <1>2, <1>3, <1>4, <1>5
<1>7. s = r
  BY <1>2, <1>5, <1>6
<1> QED
  BY <1>6, <1>7 DEF k, s

(* A smaller weight divides a greater one, with a digit between them. *)
LEMMA WeightDivides ==
  ASSUME NEW i \in 0..Bytes, NEW j \in 0..i - 1
  PROVE  \E q \in Nat : Weight[i] = Weight[j] * (Radix * q)
<1> DEFINE N == Bytes
           T == {k \in 0..N : \A m \in 0..k - 1 : \E q \in Nat : Weight[k] = Weight[m] * (Radix * q)}
<1>1. /\ N \in Nat /\ Radix \in Nat \ {0}
      /\ \A k \in 0..N : Weight[k] \in Nat \ {0}
      /\ \A k \in 1..N : Weight[k] = Radix * Weight[k - 1]
  BY Widths, Weights
<1> HIDE DEF N
<1>2. 0 \in T
  BY <1>1
<1>3. ASSUME NEW k \in 1..N, k - 1 \in T
      PROVE  k \in T
  <2> SUFFICES ASSUME NEW m \in 0..k - 1
               PROVE  \E q \in Nat : Weight[k] = Weight[m] * (Radix * q)
    BY <1>1
  <2> DEFINE V == Weight[m]
  <2>1. V \in Nat \ {0} /\ Weight[k] = Radix * Weight[k - 1] /\ k - 1 \in Nat
    BY <1>1
  <2>2. CASE m = k - 1
    <3>1. Weight[k] = V * (Radix * 1)
      BY <1>1, <2>1, <2>2
    <3> QED
      BY <3>1
  <2>3. CASE m < k - 1
    <3>1. m \in 0..(k - 1) - 1
      BY <1>1, <2>3
    <3>2. PICK q \in Nat : Weight[k - 1] = V * (Radix * q)
      BY <1>3, <3>1
    <3> HIDE DEF V
    <3>3. \A x, y, z \in Nat : y * (x * (y * z)) = x * (y * (y * z))
      OBVIOUS
    <3>4. Radix * q \in Nat
      BY <1>1
    <3>5. Radix * (V * (Radix * q)) = V * (Radix * (Radix * q))
      BY <1>1, <2>1, <3>3
    <3>6. Weight[k] = V * (Radix * (Radix * q))
      BY <2>1, <3>2, <3>5
    <3> QED
      BY <3>4, <3>6 DEF V
  <2> QED
    BY <1>1, <2>2, <2>3
<1> HIDE DEF T
<1>4. 0..N \subseteq T
  BY <1>1, <1>2, <1>3, Induction
<1>5. i \in T
  BY <1>4 DEF N
<1> QED
  BY <1>5 DEF T

(* Adding a multiple of the next weight leaves a digit alone. *)
LEMMA DigitKept ==
  ASSUME NEW n \in Nat, NEW V \in Nat \ {0}, NEW z \in Nat
  PROVE  ((n + V * (Radix * z)) \div V) % Radix = (n \div V) % Radix
<1>1. \A a \in Int, y \in Nat : y > 0 =>
        /\ a \div y \in Int /\ a % y \in 0..(y - 1)
        /\ a = y * (a \div y) + (a % y)
  OBVIOUS
<1>2. Radix \in Nat /\ Radix > 0 /\ Radix \in Nat \ {0}
  BY Widths
<1> DEFINE k == n \div V
           s == n % V
           c == k \div Radix
           d == k % Radix
           w == Radix * z
<1>3. k \in Int /\ s \in 0..V - 1 /\ n = V * k + s /\ w \in Int
  BY <1>1, <1>2
<1>4. c \in Int /\ d \in 0..Radix - 1 /\ k = Radix * c + d
  <2> HIDE DEF k
  <2> QED
    BY <1>1, <1>2, <1>3
<1> HIDE DEF k, s, c, d, w
<1>5. n + V * w = V * (k + w) + s /\ k + w \in Int /\ n + V * w \in Int
  BY <1>3
<1>6. (n + V * w) \div V = k + w
  BY <1>3, <1>5, Division
<1>7. k + w = Radix * (c + z) + d /\ c + z \in Int
  BY <1>2, <1>4 DEF w
<1>8. (k + w) % Radix = d
  BY <1>2, <1>4, <1>5, <1>7, Division
<1> QED
  BY <1>6, <1>8 DEF d, k, w

(* Every sequence of bytes is some word's. *)
LEMMA Digits ==
  ASSUME NEW b \in [1..Bytes -> 0..Radix - 1]
  PROVE  /\ from_word_le(b) \in 0..Word - 1
         /\ word_le(from_word_le(b)) = b
<1> DEFINE N == Bytes
           Spells(n, i) == \A j \in 1..i : (n \div Weight[j - 1]) % Radix = b[j]
           T == {i \in 0..N : \E n \in 0..Weight[i] - 1 : Spells(n, i)}
<1>1. /\ N \in Nat /\ Radix \in Nat \ {0}
      /\ \A k \in 0..N : Weight[k] \in Nat \ {0}
      /\ \A k \in 1..N : Weight[k] = Radix * Weight[k - 1]
      /\ Weight[0] = 1
      /\ \A j \in 1..N : b[j] \in 0..Radix - 1
  BY Widths, Weights
<1> HIDE DEF N
<1>2. 0 \in T
  BY <1>1
<1>3. ASSUME NEW i \in 1..N, i - 1 \in T
      PROVE  i \in T
  <2>1. PICK n \in 0..Weight[i - 1] - 1 : Spells(n, i - 1)
    BY <1>3
  <2> DEFINE W == Weight[i - 1]
             d == b[i]
             m == n + W * d
  <2>2. W \in Nat \ {0} /\ d \in 0..Radix - 1 /\ n \in 0..W - 1 /\ Weight[i] = Radix * W
          /\ i - 1 \in 0..N
    BY <1>1
  <2> HIDE DEF W, d
  <2>3. m \in 0..Weight[i] - 1
    <3>1. d + 1 <= Radix /\ d \in Nat
      BY <1>1, <2>2
    <3>2. W * (d + 1) <= W * Radix
      BY <1>1, <2>2, <3>1
    <3>3. W * (d + 1) = W * d + W /\ W * Radix = Radix * W /\ W * d \in Nat /\ W * Radix \in Nat
      BY <1>1, <2>2, <3>1
    <3> QED
      BY <2>2, <3>2, <3>3
  <2>4. (m \div W) % Radix = d
    <3>1. m = W * d + n /\ m \in Int /\ d \in Int
      <4>1. W * d \in Nat
        BY <2>2
      <4> QED
        BY <2>2, <4>1
    <3> HIDE DEF m
    <3>2. m \div W = d
      BY <2>2, <3>1, Division
    <3>3. d = Radix * 0 + d /\ d \in Int /\ 0 \in Int /\ Radix \in Nat \ {0} /\ d \in 0..Radix - 1
      BY <1>1, <2>2
    <3>4. d % Radix = d
      BY <3>3, Division
    <3> QED
      BY <3>2, <3>4
  <2>5. ASSUME NEW j \in 1..i - 1
        PROVE  (m \div Weight[j - 1]) % Radix = b[j]
    <3> DEFINE V == Weight[j - 1]
    <3>1. j - 1 \in 0..(i - 1) - 1 /\ j - 1 \in 0..N /\ i - 1 \in 0..Bytes
      BY <1>1, <2>2 DEF N
    <3>2. PICK q \in Nat : W = V * (Radix * q)
      BY <3>1, WeightDivides DEF W
    <3>3. V \in Nat \ {0} /\ q * d \in Nat /\ n \in Nat
      BY <1>1, <2>2, <3>1
    <3>4. (n \div V) % Radix = b[j]
      BY <2>1
    <3> HIDE DEF V
    <3>5. W * d = V * (Radix * (q * d))
      <4>1. \A x, y, z, w \in Nat : (x * (y * z)) * w = x * (y * (z * w))
        OBVIOUS
      <4> QED
        BY <1>1, <2>2, <3>2, <3>3, <4>1
    <3>6. m = n + V * (Radix * (q * d))
      BY <3>5
    <3>7. (m \div V) % Radix = (n \div V) % Radix
      BY <3>3, <3>6, DigitKept
    <3> QED
      BY <3>4, <3>7 DEF V
  <2>6. Spells(m, i)
    <3>1. \A j \in 1..i : j \in 1..i - 1 \/ j = i
      BY <1>1
    <3> HIDE DEF m
    <3> QED
      BY <2>4, <2>5, <3>1 DEF W, d
  <2> HIDE DEF m, Spells
  <2> QED
    BY <2>3, <2>6
<1>4. N \in T
  <2>1. \A i \in 1..N : i - 1 \in T => i \in T
    BY <1>3
  <2> HIDE DEF T
  <2>2. 0..N \subseteq T
    BY <1>1, <1>2, <2>1, Induction
  <2> QED
    BY <1>1, <2>2
<1>5. PICK n \in 0..Weight[N] - 1 : Spells(n, N)
  BY <1>4
<1>6. n \in 0..Word - 1
  BY <1>5, TimeAssumption DEF Word, N
<1>7. n % Word = n
  <2>1. n = Word * 0 + n /\ 0 \in Int /\ Word \in Nat \ {0} /\ n \in Int
    BY <1>6, Second
  <2> QED
    BY <1>6, <2>1, Division
<1>8. word_le(n) = b
  <2>1. \A i \in 1..Bytes : ((n % Word) \div Weight[i - 1]) % Radix = b[i]
    BY <1>5, <1>7 DEF N
  <2>2. b = [i \in 1..Bytes |-> b[i]]
    OBVIOUS
  <2> QED
    BY <2>1, <2>2 DEF word_le
<1> HIDE DEF Spells, T
<1>9. \E k \in 0..Word - 1 : word_le(k) = b
  BY <1>6, <1>8
<1> QED
  BY <1>9, Zenon DEF from_word_le

(* The signed number of a word has its bytes. *)
LEMMA SignedIs ==
  ASSUME NEW n \in 0..Word - 1
  PROVE  Signed(n) \in I64 /\ word_le(Signed(n)) = word_le(n)
<1> DEFINE h == Word \div 2
           s == Signed(n)
<1>1. Word \in Nat \ {0} /\ h \in Nat /\ Word = 2 * h
  BY Second
<1>2. s = (IF n < h THEN n ELSE n - Word) /\ (s \in I64 <=> s \in (-h)..(h - 1))
  BY DEF Signed, I64
<1> HIDE DEF h, s
<1>3. s \in (-h)..(h - 1) /\ s \in Int
  BY <1>1, <1>2
<1>4. s % Word = n
  <2>1. s = Word * 0 + n \/ s = Word * (-1) + n
    BY <1>1, <1>2
  <2> QED
    BY <1>1, <1>3, <2>1, Division
<1>5. n % Word = n
  <2>1. n = Word * 0 + n /\ n \in Int
    BY <1>1
  <2> QED
    BY <1>1, <2>1, Division
<1> QED
  BY <1>2, <1>3, <1>4, <1>5 DEF word_le, s

-----------------------------------------------------------------------------
Octets == [1..Bytes -> 0..Radix - 1]

(* Words and their bytes as sequences. *)
LEMMA Octet ==
  ASSUME NEW u \in Octets
  PROVE  u \in Seq(0..Radix - 1) /\ Len(u) = Bytes /\ DOMAIN u = 1..Bytes
BY Widths DEF Octets

LEMMA SeqIs ==
  ASSUME NEW S, NEW n \in Nat, NEW s \in Seq(S), Len(s) = n
  PROVE  s \in [1..n -> S]
BY LenProperties

LEMMA FunIs ==
  ASSUME NEW S, NEW n \in Nat, NEW s \in [1..n -> S]
  PROVE  s \in Seq(S) /\ Len(s) = n
OBVIOUS

LEMMA JoinedIs ==
  ASSUME NEW S, NEW s \in Seq(S), NEW t \in Seq(S), NEW b \in Seq(S),
         Len(b) = Len(s) + Len(t),
         \A i \in 1..Len(s) : b[i] = s[i], \A i \in 1..Len(t) : b[Len(s) + i] = t[i]
  PROVE  b = s \o t
<1> DEFINE c == s \o t
<1>1. /\ c \in Seq(S) /\ Len(c) = Len(s) + Len(t)
      /\ \A i \in 1..Len(s) + Len(t) : c[i] = IF i <= Len(s) THEN s[i] ELSE t[i - Len(s)]
  BY ConcatProperties
<1> HIDE DEF c
<1>2. ASSUME NEW i \in 1..Len(b)
      PROVE  b[i] = c[i]
  <2>1. Len(s) \in Nat /\ Len(t) \in Nat
    OBVIOUS
  <2>2. CASE i <= Len(s)
    BY <1>1, <2>1, <2>2
  <2>3. CASE ~(i <= Len(s))
    <3>1. i - Len(s) \in 1..Len(t) /\ Len(s) + (i - Len(s)) = i
      BY <2>1, <2>3
    <3> QED
      BY <1>1, <2>3, <3>1
  <2> QED
    BY <2>2, <2>3
<1>3. b = c
  BY <1>1, <1>2, SeqEqual
<1> QED
  BY <1>3 DEF c

LEMMA WordBytes ==
  ASSUME NEW n \in Int
  PROVE  word_le(n) \in Octets
<1>1. \A a \in Int, y \in Nat : y > 0 => a \div y \in Int /\ a % y \in 0..(y - 1)
  OBVIOUS
<1>2. Word \in Nat /\ Word > 0 /\ Radix \in Nat /\ Radix > 0 /\ Bytes \in Nat
  BY Second, Widths
<1>3. \A i \in 0..Bytes : Weight[i] \in Nat \ {0}
  BY Weights
<1>4. ASSUME NEW i \in 1..Bytes
      PROVE  ((n % Word) \div Weight[i - 1]) % Radix \in 0..Radix - 1
  <2> DEFINE x == n % Word
             y == Weight[i - 1]
             z == x \div y
  <2>1. x \in Int /\ y \in Nat /\ y > 0
    BY <1>1, <1>2, <1>3
  <2> HIDE DEF x, y
  <2>2. z \in Int
    BY <1>1, <2>1
  <2> HIDE DEF z
  <2>3. z % Radix \in 0..(Radix - 1)
    BY <1>1, <1>2, <2>2
  <2> QED
    BY <2>3 DEF x, y, z
<1> QED
  BY <1>4 DEF word_le, Octets

LEMMA ReversedOctets ==
  ASSUME NEW u \in Octets
  PROVE  Reversed(u) \in Octets /\ Reversed(Reversed(u)) = u
<1>1. Len(u) = Bytes /\ Bytes \in Nat
  BY Octet, Widths
<1> DEFINE r == Reversed(u)
<1>2. r = [i \in 1..Bytes |-> u[Bytes + 1 - i]]
  BY <1>1 DEF Reversed
<1> HIDE DEF r
<1>3. \A i \in 1..Bytes : Bytes + 1 - i \in 1..Bytes /\ Bytes + 1 - (Bytes + 1 - i) = i
  BY <1>1
<1>4. r \in Octets
  BY <1>2, <1>3 DEF Octets
<1>5. Len(r) = Bytes
  BY <1>4, Octet
<1>6. Reversed(r) = [i \in 1..Bytes |-> r[Bytes + 1 - i]]
  BY <1>5 DEF Reversed
<1>7. \A i \in 1..Bytes : r[Bytes + 1 - i] = u[i]
  BY <1>2, <1>3
<1>8. u = [i \in 1..Bytes |-> u[i]]
  BY DEF Octets
<1> QED
  BY <1>4, <1>6, <1>7, <1>8 DEF r

LEMMA Pairs ==
  ASSUME NEW u \in Octets, NEW v \in Octets
  PROVE  Reversed(u \o v) = Reversed(v) \o Reversed(u)
<1> DEFINE D == 0..Radix - 1
           N == Bytes
           b == u \o v
           c == Reversed(b)
<1>1. u \in Seq(D) /\ Len(u) = N /\ v \in Seq(D) /\ Len(v) = N /\ N \in Nat
  BY Octet, Widths
<1>2. /\ Reversed(u) \in Seq(D) /\ Len(Reversed(u)) = N
      /\ Reversed(v) \in Seq(D) /\ Len(Reversed(v)) = N
  BY ReversedOctets, Octet
<1> HIDE DEF D, N
<1>3. /\ b \in Seq(D) /\ Len(b) = N + N
      /\ \A i \in 1..N + N : b[i] = IF i <= N THEN u[i] ELSE v[i - N]
  BY <1>1, ConcatProperties
<1> HIDE DEF b
<1>4. c = [i \in 1..N + N |-> b[N + N + 1 - i]]
  BY <1>3 DEF Reversed
<1>5. c \in Seq(D) /\ Len(c) = N + N
  <2>1. \A i \in 1..N + N : N + N + 1 - i \in 1..N + N
    BY <1>1
  <2>2. \A i \in 1..N + N : b[i] \in D
    BY <1>3
  <2>3. c \in [1..N + N -> D] /\ N + N \in Nat
    BY <1>1, <1>4, <2>1, <2>2
  <2> HIDE DEF c
  <2> QED
    BY <2>3, FunIs
<1>6. \A i \in 1..N : Reversed(v)[i] = v[N + 1 - i] /\ Reversed(u)[i] = u[N + 1 - i]
  BY <1>1 DEF Reversed
<1>7. ASSUME NEW i \in 1..N
      PROVE  c[i] = Reversed(v)[i] /\ c[N + i] = Reversed(u)[i]
  <2> DEFINE k == N + 1 - i
  <2>1. /\ i \in 1..N + N /\ N + i \in 1..N + N /\ k \in 1..N
        /\ N + N + 1 - i = N + k /\ N + N + 1 - (N + i) = k
        /\ k \in 1..N + N /\ N + k \in 1..N + N /\ k <= N /\ ~(N + k <= N) /\ (N + k) - N = k
    BY <1>1
  <2>2. c[i] = b[N + k] /\ c[N + i] = b[k]
    BY <1>4, <2>1
  <2> HIDE DEF c, k
  <2>3. b[N + k] = v[k] /\ b[k] = u[k]
    BY <1>3, <2>1
  <2>4. Reversed(v)[i] = v[k] /\ Reversed(u)[i] = u[k]
    BY <1>6 DEF k
  <2> QED
    BY <2>2, <2>3, <2>4
<1> HIDE DEF c
<1>8. c = Reversed(v) \o Reversed(u)
  <2> DEFINE s == Reversed(v)
             t == Reversed(u)
  <2>1. /\ s \in Seq(D) /\ t \in Seq(D) /\ c \in Seq(D) /\ Len(c) = Len(s) + Len(t)
        /\ (\A i \in 1..Len(s) : c[i] = s[i]) /\ \A i \in 1..Len(t) : c[Len(s) + i] = t[i]
    BY <1>1, <1>2, <1>5, <1>7
  <2> HIDE DEF s, t
  <2>2. c = s \o t
    BY ONLY <2>1, JoinedIs
  <2> QED
    BY <2>2 DEF s, t
<1> QED
  BY <1>8 DEF b, c

LEMMA Halves ==
  ASSUME NEW b \in [1..2 * Bytes -> 0..Radix - 1]
  PROVE  Low(b) \in Octets /\ High(b) \in Octets /\ b = Low(b) \o High(b)
<1>1. b \in Seq(0..Radix - 1) /\ Len(b) = 2 * Bytes /\ Bytes \in Nat
  BY Widths
<1>2. /\ Low(b) \in Seq(0..Radix - 1) /\ Len(Low(b)) = Bytes
      /\ \A i \in 1..Bytes : Low(b)[i] = b[i]
  BY <1>1 DEF Low
<1>3. /\ High(b) \in Seq(0..Radix - 1) /\ Len(High(b)) = Bytes
      /\ \A i \in 1..Bytes : High(b)[i] = b[Bytes + i]
  BY <1>1 DEF High
<1>4. Low(b) \in Octets /\ High(b) \in Octets
  BY <1>1, <1>2, <1>3, SeqIs DEF Octets
<1>5. b = Low(b) \o High(b)
  <2> DEFINE D == 0..Radix - 1
             s == Low(b)
             t == High(b)
  <2>1. /\ s \in Seq(D) /\ t \in Seq(D) /\ b \in Seq(D) /\ Len(b) = Len(s) + Len(t)
        /\ (\A i \in 1..Len(s) : b[i] = s[i]) /\ \A i \in 1..Len(t) : b[Len(s) + i] = t[i]
    BY <1>1, <1>2, <1>3
  <2> HIDE DEF s, t, D
  <2>2. b = s \o t
    BY ONLY <2>1, JoinedIs
  <2> QED
    BY <2>2 DEF s, t
<1> QED
  BY <1>4, <1>5

(* Both byte orders of a timestamp are the reverse of each other. *)
LEMMA OrdersReverse ==
  ASSUME NEW t \in Time
  PROVE  /\ to_be_bytes(t) = Reversed(to_le_bytes(t))
         /\ to_le_bytes(t) = Reversed(to_be_bytes(t))
<1>1. t.seconds \in Int /\ t.fractions \in Int
  <2>1. I64 \subseteq Int /\ 0..Word - 1 \subseteq Int
    BY Second DEF I64
  <2> QED
    BY <2>1 DEF Time
<1> DEFINE u == word_le(t.fractions)
           v == word_le(t.seconds)
<1>2. u \in Octets /\ v \in Octets
  BY <1>1, WordBytes
<1>3. to_le_bytes(t) = u \o v /\ to_be_bytes(t) = Reversed(v) \o Reversed(u)
  BY DEF to_le_bytes, to_be_bytes
<1> HIDE DEF u, v
<1>4. /\ Reversed(u) \in Octets /\ Reversed(Reversed(u)) = u
      /\ Reversed(v) \in Octets /\ Reversed(Reversed(v)) = v
  BY <1>2, ReversedOctets
<1>5. Reversed(u \o v) = Reversed(v) \o Reversed(u)
  BY <1>2, Pairs
<1>6. Reversed(Reversed(v) \o Reversed(u)) = u \o v
  BY <1>4, Pairs
<1> QED
  BY <1>3, <1>5, <1>6

(* A timestamp read from bytes is written back as the same bytes. *)
LEMMA FromLeBytes ==
  ASSUME NEW b \in [1..2 * Bytes -> 0..Radix - 1]
  PROVE  from_le_bytes(b) \in Time /\ to_le_bytes(from_le_bytes(b)) = b
<1> DEFINE m == from_word_le(Low(b))
           n == from_word_le(High(b))
           t == from_le_bytes(b)
<1>1. /\ m \in 0..Word - 1 /\ word_le(m) = Low(b)
      /\ n \in 0..Word - 1 /\ word_le(n) = High(b)
      /\ b = Low(b) \o High(b)
  BY Halves, Digits DEF Octets
<1>2. t = [seconds |-> Signed(n), fractions |-> m]
  BY DEF from_le_bytes
<1> HIDE DEF m, n, t
<1>3. Signed(n) \in I64 /\ word_le(Signed(n)) = word_le(n)
  BY <1>1, SignedIs
<1>4. t \in Time
  BY <1>1, <1>2, <1>3 DEF Time
<1>5. to_le_bytes(t) = word_le(m) \o word_le(Signed(n))
  BY <1>2 DEF to_le_bytes
<1>6. to_le_bytes(t) = b
  BY <1>1, <1>3, <1>5
<1> QED
  BY <1>4, <1>6 DEF t

LEMMA FromBeBytes ==
  ASSUME NEW b \in [1..2 * Bytes -> 0..Radix - 1]
  PROVE  from_be_bytes(b) \in Time /\ to_be_bytes(from_be_bytes(b)) = b
<1> DEFINE u == Low(b)
           v == High(b)
           m == from_word_le(Reversed(v))
           n == from_word_le(Reversed(u))
           t == from_be_bytes(b)
<1>1. /\ u \in Octets /\ v \in Octets /\ b = u \o v
  BY Halves
<1>2. t = [seconds |-> Signed(n), fractions |-> m]
  BY DEF from_be_bytes
<1> HIDE DEF u, v
<1>3. /\ Reversed(u) \in Octets /\ Reversed(Reversed(u)) = u
      /\ Reversed(v) \in Octets /\ Reversed(Reversed(v)) = v
  BY <1>1, ReversedOctets
<1>4. /\ m \in 0..Word - 1 /\ word_le(m) = Reversed(v)
      /\ n \in 0..Word - 1 /\ word_le(n) = Reversed(u)
  BY <1>3, Digits DEF Octets
<1> HIDE DEF m, n, t
<1>5. Signed(n) \in I64 /\ word_le(Signed(n)) = word_le(n)
  BY <1>4, SignedIs
<1>6. t \in Time
  BY <1>2, <1>4, <1>5 DEF Time
<1>7. to_be_bytes(t) = Reversed(word_le(Signed(n))) \o Reversed(word_le(m))
  BY <1>2 DEF to_be_bytes
<1>8. to_be_bytes(t) = b
  BY <1>1, <1>3, <1>4, <1>5, <1>7
<1> QED
  BY <1>6, <1>8 DEF t

-----------------------------------------------------------------------------
(* Below a second the spacing is at most half of what it is at a second. *)
LEMMA UlpBelowSecond ==
  ASSUME NEW n \in Int, Abs(n) < One
  PROVE  /\ Abs(n) < Top /\ Abs(One) < Top /\ Ulp(n, 1) \in Nat \ {0}
         /\ Ulp(One, 1) \in Nat \ {0} /\ 2 * Ulp(n, 1) <= Ulp(One, 1)
<1>1. One \in Nat \ {0} /\ One < Top /\ Abs(One) = One /\ Abs(n) \in Nat
  <2>1. P \in Nat /\ M + 2 * P \in Nat /\ P < M + 2 * P /\ M + 2 * P <= 3 * P
    BY Widths
  <2>2. 2 * One <= Top
    BY <2>1, PowOrder DEF One, Top
  <2> QED
    BY <2>2, Powered DEF Abs
<1> DEFINE e == Exponent(n, 1)
           f == Exponent(One, 1)
<1>2. /\ Binade(n, 1, e) /\ Ulp(n, 1) = Pow2[e] /\ e \in 0..2 * P
      /\ Binade(One, 1, f) /\ Ulp(One, 1) = Pow2[f] /\ f \in 0..2 * P
  <2>1. Abs(n) < 1 * Top /\ Abs(One) < 1 * Top
    BY <1>1, Powered
  <2> QED
    BY <1>1, <2>1, UlpIs
<1> HIDE DEF e, f
<1>3. P < M + f
  <2> SUFFICES ASSUME M + f <= P PROVE FALSE
    BY <1>2, Widths
  <2>1. M + f \in Nat /\ P \in Nat /\ P <= 3 * P
    BY <1>2, Widths
  <2>2. Pow2[M + f] <= One /\ Pow2[M + f] \in Nat
    BY <2>1, PowOrder DEF One
  <2>3. One < 1 * Pow2[M + f]
    BY <1>1, <1>2 DEF Binade
  <2> QED
    BY <1>1, <2>2, <2>3
<1>4. e = 0 \/ M + e - 1 < P
  <2> SUFFICES ASSUME e # 0, P <= M + e - 1 PROVE FALSE
    BY <1>2, Widths
  <2>1. M + e - 1 \in Nat /\ P \in Nat /\ M + e - 1 <= 3 * P
    BY <1>2, Widths
  <2>2. One <= Pow2[M + e - 1] /\ Pow2[M + e - 1] \in Nat
    BY <2>1, PowOrder DEF One
  <2>3. Abs(n) >= 1 * Pow2[M + e - 1]
    BY <1>2 DEF Binade
  <2> QED
    BY <1>1, <2>2, <2>3
<1>5. e < f /\ e \in Nat /\ f \in Nat /\ f <= 3 * P
  BY <1>2, <1>3, <1>4, Widths
<1>6. 2 * Pow2[e] <= Pow2[f] /\ Pow2[e] \in Nat \ {0} /\ Pow2[f] \in Nat \ {0}
  BY <1>5, PowOrder
<1>7. Abs(n) < Top
  BY <1>1, Powered
<1> QED
  BY <1>1, <1>2, <1>6, <1>7

(* sub_seconds of a timestamp. *)
LEMMA SubSeconds ==
  ASSUME NEW t \in Time
  PROVE  LET x == t.fractions * Tick IN
         /\ x \in 0..One - 1
         /\ sub_seconds(t) \in 0..One
         /\ 4 * (sub_seconds(t) - x) <= Ulp(One, 1)
         /\ 4 * (x - sub_seconds(t)) <= Ulp(One, 1)
<1> DEFINE x == t.fractions * Tick
           g == sub_seconds(t)
           U == Ulp(One, 1)
<1>1. x \in 0..One - 1 /\ x \in Int
  <2> DEFINE f == t.fractions
  <2>1. f \in Nat /\ f + 1 <= Word
    BY Second DEF Time
  <2> HIDE DEF f
  <2>2. (f + 1) * Tick <= Word * Tick /\ (f + 1) * Tick = f * Tick + Tick /\ f * Tick \in Nat
    BY <2>1, Second
  <2>3. f * Tick \in 0..One - 1
    BY <2>2, Second
  <2> QED
    BY <2>3, Second DEF f
<1>2. g = F64(x)
  BY DEF sub_seconds
<1> HIDE DEF x, g
<1>3. Abs(x) < One
  BY <1>1, Second DEF Abs
<1>4. Abs(x) < Top /\ 2 * Ulp(x, 1) <= U /\ Ulp(x, 1) \in Nat \ {0} /\ U \in Nat \ {0}
  BY <1>1, <1>3, UlpBelowSecond
<1>5. g \in Int /\ 2 * x - Ulp(x, 1) <= 2 * g /\ 2 * g <= 2 * x + Ulp(x, 1)
  BY <1>1, <1>2, <1>4, F64Is
<1>6. g \in 0..One
  <2>1. 0 * Pow2[P] <= x /\ x <= 1 * Pow2[P] /\ 0 * Pow2[P] = 0 /\ 1 * Pow2[P] = One
    BY <1>1, Second DEF One
  <2>2. Abs(0) <= Pow2[M] /\ Abs(1) <= Pow2[M] /\ P \in 0..2 * P - 1
    BY Second, Widths DEF Abs
  <2>3. 0 * Pow2[P] <= F64(x) /\ F64(x) <= 1 * Pow2[P]
    BY <1>1, <2>1, <2>2, F64Within
  <2> QED
    BY <1>2, <1>5, <2>1, <2>3, Second
<1> HIDE DEF U
<1>7. 4 * (g - x) <= U /\ 4 * (x - g) <= U
  BY <1>1, <1>4, <1>5
<1> QED
  BY <1>1, <1>6, <1>7 DEF x, g, U

(* Whole seconds and a part of the next one. *)
LEMMA SecondsAnd ==
  ASSUME NEW s \in Int, NEW g \in 0..One, Abs(s) <= Pow2[M], Abs(s + 1) <= Pow2[M]
  PROVE  /\ F64(s * One) = s * One
         /\ s * One \in Int /\ Abs(s * One + g) < Top
         /\ s * One <= F64(s * One + g) /\ F64(s * One + g) <= s * One + One
<1>1. One = Pow2[P] /\ P \in 0..2 * P - 1 /\ One \in Nat \ {0}
  BY Second, Widths DEF One
<1>2. F64(s * Pow2[P]) = s * Pow2[P]
  BY <1>1, F64Exact
<1>3. s * One \in Int /\ (s + 1) * One = s * One + One
  BY <1>1
<1> DEFINE n == s * One + g
<1>4. n \in Int /\ s * One <= n /\ n <= (s + 1) * One
  BY <1>1, <1>3
<1> HIDE DEF n
<1>5. Abs(n) < Top /\ s * Pow2[P] <= F64(n) /\ F64(n) <= (s + 1) * Pow2[P]
  BY <1>1, <1>4, F64Within
<1>6. s * One <= F64(n) /\ F64(n) <= s * One + One
  BY <1>1, <1>3, <1>5
<1> QED
  BY <1>1, <1>2, <1>3, <1>5, <1>6 DEF n

(* Rounding near a number. *)
LEMMA F64Near ==
  ASSUME NEW x \in Int, NEW y \in Int, NEW u \in Nat, Abs(x) < Top, Abs(y) < Top,
         4 * (x - y) <= u, 4 * (y - x) <= u
  PROVE  Abs(F64(y) - x) <= Ulp(x, 1) \/ Abs(F64(y) - x) <= u
<1> DEFINE r == F64(y)
           e == Exponent(x, 1)
           f == Exponent(y, 1)
           v == Ulp(x, 1)
           w == Ulp(y, 1)
<1>1. /\ e \in 0..2 * P /\ v \in Nat \ {0} /\ v = Pow2[e]
      /\ f \in 0..2 * P /\ w \in Nat \ {0} /\ w = Pow2[f]
  <2>1. Abs(x) < 1 * Top /\ Abs(y) < 1 * Top
    BY Powered
  <2> QED
    BY <2>1, UlpIs
<1>2. /\ r \in Int /\ 2 * y - w <= 2 * r /\ 2 * r <= 2 * y + w
      /\ \A c \in Int : Abs(r - y) <= Abs(c * w - y)
  BY F64Is
<1>3. CASE w <= u
  <2> HIDE DEF r, v, w
  <2>1. Abs(r - x) <= u
    BY <1>1, <1>2, <1>3 DEF Abs
  <2> QED
    BY <2>1 DEF r
<1>4. CASE u < w /\ f <= e
  <2>1. f \in Nat /\ e \in Nat /\ e <= 3 * P
    BY <1>1, Widths
  <2>2. w <= v
    BY <1>1, <1>4, <2>1, PowOrder
  <2> HIDE DEF r, v, w
  <2>3. Abs(r - x) <= v
    BY <1>1, <1>2, <1>4, <2>2 DEF Abs
  <2> QED
    BY <2>3 DEF r, v
<1>5. CASE e < f
  <2>1. PICK b \in Nat \ {0} : Abs(x) < b /\ b <= Abs(y) /\ \E k \in Int : b = k * w
    BY <1>5, Boundary
  <2>2. PICK k \in Int : b = k * w
    BY <2>1
  <2> HIDE DEF r, v, w
  <2>3. (-k) * w = -b /\ -k \in Int
    <3>1. \A i, j \in Int : (-i) * j = -(i * j)
      OBVIOUS
    <3> QED
      BY <1>1, <2>2, <3>1
  <2>4. Abs(r - y) <= Abs(b - y) /\ Abs(r - y) <= Abs(-b - y)
    BY <1>2, <2>2, <2>3
  <2>5. Abs(r - x) <= u
    BY <1>2, <2>1, <2>4 DEF Abs
  <2> QED
    BY <2>5 DEF r
<1> QED
  <2> HIDE DEF r, v, w, e, f
  <2>1. w <= u \/ (u < w /\ f <= e) \/ e < f
    BY <1>1
  <2> QED
    BY <1>3, <1>4, <1>5, <2>1 DEF r, v, w, e, f

(* to_lv_epoch as long as a double can count the seconds. *)
LEMMA ToLvEpoch ==
  ASSUME NEW t \in Time, t.seconds \in -Pow2[M]..Pow2[M] - 1
  PROVE  LET s == t.seconds
             y == s * One + sub_seconds(t)
         IN  /\ to_lv_epoch(t) = F64(y) /\ to_lv_epoch(t) \in Int
             /\ y \in Int /\ Abs(y) < Top /\ Abs(Exact(t)) < Top /\ Exact(t) \in Int
             /\ 4 * (y - Exact(t)) <= Ulp(One, 1) /\ 4 * (Exact(t) - y) <= Ulp(One, 1)
             /\ s * One <= to_lv_epoch(t) /\ to_lv_epoch(t) <= s * One + One
<1> DEFINE s == t.seconds
           g == sub_seconds(t)
           x == t.fractions * Tick
           a == s * One
           U == Ulp(One, 1)
<1>1. x \in 0..One - 1 /\ g \in 0..One /\ 4 * (g - x) <= U /\ 4 * (x - g) <= U
  BY SubSeconds
<1>2. s \in Int /\ Abs(s) <= Pow2[M] /\ Abs(s + 1) <= Pow2[M] /\ One \in Nat \ {0}
  BY Second DEF Abs
<1>3. /\ F64(a) = a /\ a \in Int
      /\ Abs(a + g) < Top /\ a <= F64(a + g) /\ F64(a + g) <= a + One
      /\ Abs(a + x) < Top
  <2>1. x \in 0..One
    BY <1>1, <1>2
  <2> HIDE DEF x, g, s
  <2> QED
    BY <1>1, <1>2, <2>1, SecondsAnd
<1>4. to_lv_epoch(t) = F64(a + g)
  BY <1>3, Zenon DEF to_lv_epoch
<1>5. Exact(t) = a + x
  BY DEF Exact
<1> HIDE DEF a, g, x, U
<1>6. a + g \in Int /\ a + x \in Int
  BY <1>1, <1>2, <1>3
<1>7. F64(a + g) \in Int
  BY <1>3, <1>6, F64Is
<1>8. U \in Nat
  BY <1>2, UlpBelowSecond DEF U, Abs
<1>9. 4 * ((a + g) - (a + x)) <= U /\ 4 * ((a + x) - (a + g)) <= U
  BY <1>1, <1>2, <1>3, <1>8
<1> QED
  BY <1>3, <1>4, <1>5, <1>6, <1>7, <1>9 DEF a, g, s, U

(* What ToEpochIsMonotone says of one timestamp. *)
LEMMA ToEpochMonotone ==
  ASSUME NEW t \in Time, t.seconds \in -Pow2[M]..Pow2[M] - 1
  PROVE  /\ \/ Abs(to_lv_epoch(t) - Exact(t)) <= Ulp(Exact(t), 1)
            \/ Abs(to_lv_epoch(t) - Exact(t)) <= Ulp(One, 1)
         /\ to_lv_epoch(t) <= to_lv_epoch(Succ(t))
<1> DEFINE s == t.seconds
           f == t.fractions
           y == s * One + sub_seconds(t)
           x == Exact(t)
           U == Ulp(One, 1)
           n == Succ(t)
<1>1. /\ to_lv_epoch(t) = F64(y) /\ to_lv_epoch(t) \in Int
      /\ y \in Int /\ Abs(y) < Top /\ Abs(x) < Top /\ x \in Int
      /\ 4 * (y - x) <= U /\ 4 * (x - y) <= U
      /\ to_lv_epoch(t) <= s * One + One
  BY ToLvEpoch
<1>2. s \in I64 /\ f \in 0..Word - 1 /\ s \in Int /\ f \in Int /\ Word \in Nat /\ One \in Nat \ {0}
  BY Second DEF Time
<1>3. Abs(to_lv_epoch(t) - x) <= Ulp(x, 1) \/ Abs(to_lv_epoch(t) - x) <= U
  <2>1. Abs(0) < One
    BY Second DEF Abs
  <2>2. U \in Nat
    BY <2>1, UlpBelowSecond
  <2> HIDE DEF x, y, U
  <2> QED
    BY <1>1, <2>2, F64Near
<1>4. CASE f < Word - 1
  <2>1. n = [t EXCEPT !.fractions = f + 1]
    BY <1>4 DEF Succ
  <2>2. n \in Time /\ n.seconds = s /\ n.fractions = f + 1
    BY <1>2, <1>4, <2>1 DEF Time
  <2>3. sub_seconds(t) <= sub_seconds(n)
    <3> DEFINE a == f * Tick
               b == n.fractions * Tick
    <3>1. a \in 0..One - 1 /\ b \in 0..One - 1
      BY <2>2, SubSeconds
    <3>2. a <= b
      <4> HIDE DEF f
      <4>1. (f + 1) * Tick = f * Tick + Tick /\ f * Tick \in Int
        BY <1>2, Second
      <4> QED
        BY <2>2, <4>1, Second
    <3>3. sub_seconds(t) = F64(a) /\ sub_seconds(n) = F64(b)
      BY DEF sub_seconds
    <3> HIDE DEF a, b
    <3>4. Abs(a) < One /\ Abs(b) < One /\ a \in Int /\ b \in Int
      BY <1>2, <3>1 DEF Abs
    <3>5. Abs(a) < Top /\ Abs(b) < Top
      BY <3>4, UlpBelowSecond
    <3> QED
      BY <3>2, <3>3, <3>4, <3>5, F64Mono
  <2> DEFINE z == s * One + sub_seconds(n)
  <2>4. to_lv_epoch(n) = F64(z) /\ z \in Int /\ Abs(z) < Top
    <3>1. n.seconds \in -Pow2[M]..Pow2[M] - 1
      BY <2>2
    <3> HIDE DEF n
    <3> QED
      BY <2>2, <3>1, ToLvEpoch
  <2>5. y <= z
    <3>1. s * One \in Int /\ sub_seconds(t) \in Int /\ sub_seconds(n) \in Int
      BY <1>2, <2>2, SubSeconds
    <3> QED
      BY <2>3, <3>1
  <2> HIDE DEF y, z
  <2>6. F64(y) <= F64(z)
    BY <1>1, <2>4, <2>5, F64Mono
  <2> QED
    BY <1>1, <1>3, <2>4, <2>6
<1>5. CASE ~(f < Word - 1) /\ s < Word \div 2 - 1
  <2>1. n = [seconds |-> s + 1, fractions |-> 0]
    BY <1>5 DEF Succ
  <2>2. n.seconds = s + 1 /\ n.fractions = 0
    BY <2>1
  <2>3. /\ s + 1 \in Int /\ Abs(s + 1) <= Pow2[M] /\ P \in 0..2 * P - 1
        /\ (s + 1) * One = s * One + One /\ 0 * Tick = 0 /\ 0 * Pow2[P] = 0
        /\ Abs(0) <= Pow2[M] /\ 0 \in Int /\ (s + 1) * One \in Int
    <3>1. Pow2[P] \in Nat /\ Tick \in Nat /\ P \in 0..2 * P - 1
      BY Second, Widths DEF One
    <3>2. s + 1 \in Int /\ Abs(s + 1) <= Pow2[M] /\ Abs(0) <= Pow2[M]
      BY <1>2, Second DEF Abs
    <3> HIDE DEF s
    <3>3. (s + 1) * One = s * One + One /\ (s + 1) * One \in Int
      BY <1>2
    <3> QED
      BY <3>1, <3>2, <3>3
  <2>4. F64((s + 1) * Pow2[P]) = (s + 1) * Pow2[P] /\ F64(0 * Pow2[P]) = 0 * Pow2[P]
    BY <2>3, F64Exact
  <2>5. F64((s + 1) * One) = (s + 1) * One /\ F64(0) = 0
    BY <2>3, <2>4 DEF One
  <2>6. sub_seconds(n) = 0
    BY <2>2, <2>3, <2>5 DEF sub_seconds
  <2>7. to_lv_epoch(n) = F64((s + 1) * One + 0)
    BY <2>2, <2>5, <2>6, Zenon DEF to_lv_epoch
  <2>8. to_lv_epoch(n) = (s + 1) * One
    <3>1. (s + 1) * One + 0 = (s + 1) * One
      BY <2>3
    <3> QED
      BY <2>5, <2>7, <3>1
  <2> QED
    BY <1>1, <1>3, <2>3, <2>8
<1>6. CASE ~(f < Word - 1) /\ ~(s < Word \div 2 - 1)
  <2>1. n = t
    BY <1>6 DEF Succ
  <2> QED
    BY <1>1, <1>3, <2>1
<1> QED
  BY <1>4, <1>5, <1>6

-----------------------------------------------------------------------------
(* The assumptions about dates. *)
LEMMA Dates ==
  /\ Nanos < Pow2[M] /\ 2 * (ChronoMax + Epoch + 2) <= Pow2[M]
  /\ Nanos \in Nat \ {0} /\ Epoch \in Nat \ {0} /\ ChronoMax \in Nat \ {0}
BY TimeAssumption

(* Spacings grow no faster than numbers. *)
LEMMA UlpTimes ==
  ASSUME NEW m \in Nat, NEW c \in Nat \ {0}, m <= c * One, m < Top
  PROVE  Ulp(m, 1) \in Nat \ {0} /\ Ulp(m, 1) <= c * Ulp(One, 1)
<1> DEFINE e == Exponent(m, 1)
           f == Exponent(One, 1)
<1>1. Abs(m) = m /\ Abs(One) = One /\ One \in Nat \ {0} /\ One < Top
  <2>1. Abs(0) < One
    BY Second DEF Abs
  <2>2. Abs(One) < Top
    BY <2>1, UlpBelowSecond
  <2> QED
    BY <2>2, Second DEF Abs
<1>2. /\ Binade(m, 1, e) /\ Ulp(m, 1) = Pow2[e] /\ e \in 0..2 * P
      /\ Binade(One, 1, f) /\ Ulp(One, 1) = Pow2[f] /\ f \in 0..2 * P
      /\ Pow2[e] \in Nat \ {0} /\ Pow2[f] \in Nat \ {0}
  <2>1. Abs(m) < 1 * Top /\ Abs(One) < 1 * Top
    BY <1>1, Powered
  <2> QED
    BY <1>1, <2>1, UlpIs
<1> HIDE DEF e, f
<1>3. CASE e = 0
  <2>1. Pow2[e] = 1
    BY <1>3, Doubling
  <2> DEFINE v == Pow2[f]
  <2>2. v \in Nat \ {0}
    BY <1>2
  <2> HIDE DEF v
  <2>3. 1 <= c * v
    BY <2>2
  <2> QED
    BY <1>2, <2>1, <2>3 DEF v
<1>4. CASE e # 0
  <2>1. P < M + f
    <3> SUFFICES ASSUME M + f <= P PROVE FALSE
      BY <1>2, Widths
    <3>1. M + f \in Nat /\ P \in Nat /\ P <= 3 * P
      BY <1>2, Widths
    <3>2. Pow2[M + f] <= One /\ Pow2[M + f] \in Nat
      BY <3>1, PowOrder DEF One
    <3>3. One < 1 * Pow2[M + f]
      BY <1>1, <1>2 DEF Binade
    <3> QED
      BY <1>1, <3>2, <3>3
  <2>2. /\ P \in Nat /\ (M - 1) + f \in Nat /\ P <= (M - 1) + f /\ (M - 1) + f <= 3 * P
        /\ M - 1 \in Nat /\ e \in Nat /\ f \in Nat /\ (M - 1) + e <= 3 * P
        /\ M + e - 1 = (M - 1) + e
    BY <1>2, <2>1, Widths
  <2> DEFINE w == Pow2[M - 1]
             u == Pow2[e]
             v == Pow2[f]
  <2>3. /\ One <= Pow2[(M - 1) + f] /\ Pow2[(M - 1) + f] = w * v
        /\ Pow2[(M - 1) + e] = w * u
    <3>1. One <= Pow2[(M - 1) + f]
      BY <2>2, PowOrder DEF One
    <3>2. Pow2[(M - 1) + f] = w * v
      BY <2>2, PowSum
    <3>3. Pow2[(M - 1) + e] = w * u
      BY <2>2, PowSum
    <3> QED
      BY <3>1, <3>2, <3>3
  <2>4. w \in Nat \ {0} /\ u \in Nat \ {0} /\ v \in Nat \ {0}
    <3>1. M - 1 \in 0..3 * P
      BY Widths
    <3> QED
      BY <1>2, <3>1, Doubling
  <2>5. m >= w * u
    <3>1. m >= 1 * Pow2[M + e - 1]
      BY <1>1, <1>2, <1>4 DEF Binade
    <3>2. m >= 1 * (w * u)
      BY <2>2, <2>3, <3>1
    <3> HIDE DEF w, u
    <3> QED
      BY <2>4, <3>2
  <2>6. One <= w * v
    BY <2>3
  <2> HIDE DEF w, u, v
  <2>7. c * One <= c * (w * v)
    <3>1. w * v \in Nat
      BY <2>4
    <3> DEFINE z == w * v
    <3> HIDE DEF z
    <3>2. z \in Nat /\ One <= z
      BY <2>6, <3>1 DEF z
    <3>3. c * One <= c * z
      BY <1>1, <3>2
    <3> QED
      BY <3>3 DEF z
  <2>8. u <= c * v
    <3> SUFFICES ASSUME c * v + 1 <= u PROVE FALSE
      BY <2>4
    <3> DEFINE z == c * v
    <3>1. z \in Nat
      BY <2>4
    <3>2. c * (w * v) = w * z
      <4>1. \A i, j, k \in Nat : i * (j * k) = j * (i * k)
        OBVIOUS
      <4> QED
        BY <2>4, <4>1
    <3> HIDE DEF z
    <3>3. w * (z + 1) <= w * u
      BY <2>4, <3>1 DEF z
    <3>4. w * (z + 1) = w * z + w /\ w * z \in Nat /\ w * u \in Nat /\ c * One \in Nat
      BY <1>1, <2>4, <3>1
    <3> QED
      BY <2>4, <2>5, <2>7, <3>2, <3>3, <3>4
  <2> QED
    BY <1>2, <2>4, <2>8 DEF u, v
<1> QED
  BY <1>2, <1>3, <1>4

(* The date of a timestamp has its seconds, and its nanoseconds to one of them *)
(* and a step of doubles: seconds that overflow come out far beyond chrono.    *)
LEMMA TryFrom ==
  ASSUME NEW t \in Time, try_from(t) # NoDate
  PROVE  LET d == try_from(t)
             a == (d.secs + Epoch) * One * Nanos + d.nanos * One - Exact(t) * Nanos
         IN  Abs(a) <= One + Nanos * Ulp(1 * One, 1)
<1> DEFINE s == t.seconds
           x == t.fractions * Tick
           g == sub_seconds(t)
           m == g * Nanos
           V == F64(m)
           k == V \div One
           r == V % One
           U == Ulp(One, 1)
           d == try_from(t)
           c == IF Overflows(t) THEN UnixSeconds(t) + Word ELSE UnixSeconds(t)
<1>1. s \in I64 /\ s \in Int /\ Word \in Nat /\ One \in Nat \ {0} /\ 1 * One = One
  BY Second DEF Time, I64
<1>2. d = [secs |-> c, nanos |-> k] /\ InChrono(c)
  BY DEF try_from, from_timestamp, nanoseconds
<1>3. ~Overflows(t)
  <2> SUFFICES ASSUME Overflows(t) PROVE FALSE
    OBVIOUS
  <2> DEFINE h == Word \div 2
  <2>1. h \in Nat /\ 2 * h = Word /\ s \in (-h)..(h - 1) /\ s - Epoch \notin (-h)..(h - 1)
          /\ s - Epoch + Word <= ChronoMax /\ s - Epoch + Word >= -ChronoMax
    BY <1>1, <1>2, Second, Dates DEF Overflows, UnixSeconds, InChrono, I64
  <2> HIDE DEF h
  <2>2. 2 * Pow2[M] <= Word /\ Pow2[M] \in Nat
    BY Second
  <2> HIDE DEF s, c
  <2> QED
    BY <1>1, <2>1, <2>2, Dates
<1>4. d.secs + Epoch = s /\ d.nanos = k
  <2>1. (s - Epoch) + Epoch = s
    BY <1>1, Dates
  <2> QED
    BY <1>2, <1>3, <2>1 DEF UnixSeconds
<1>5. /\ x \in 0..One - 1 /\ g \in 0..One /\ 4 * (g - x) <= U /\ 4 * (x - g) <= U
  BY SubSeconds
<1>6. U \in Nat \ {0}
  <2>1. Abs(0) < One
    BY Second DEF Abs
  <2> QED
    BY <2>1, UlpBelowSecond
<1>7. Exact(t) = s * One + x
  BY DEF Exact
<1> HIDE DEF g, x, U, s, c, d
<1>8. m \in Nat /\ m <= Nanos * One
  <2>1. g * Nanos <= One * Nanos /\ One * Nanos = Nanos * One
    BY <1>1, <1>5, Dates
  <2>2. g * Nanos \in Nat
    BY <1>5, Dates
  <2> QED
    BY <2>1, <2>2
<1>9. m < Top
  <2>1. M \in Nat /\ P \in Nat /\ M + P <= 3 * P /\ M + 2 * P \in Nat /\ M + P <= M + 2 * P
          /\ M + 2 * P <= 3 * P /\ M + P \in Nat
    BY Widths
  <2>2. Pow2[M + P] = Pow2[M] * One /\ Pow2[M + P] <= Top
    BY <2>1, PowSum, PowOrder DEF One, Top
  <2>3. Pow2[M] \in Nat
    BY Second
  <2>4. Nanos * One < Pow2[M] * One /\ Nanos * One \in Nat /\ Pow2[M] * One \in Nat
    BY <1>1, <2>3, Dates
  <2> HIDE DEF m
  <2> QED
    BY <1>8, <2>2, <2>4, Powered
<1>10. Ulp(m, 1) \in Nat \ {0} /\ Ulp(m, 1) <= Nanos * U
  BY <1>8, <1>9, UlpTimes, Dates DEF U
<1>11. V \in Int /\ 2 * m - Ulp(m, 1) <= 2 * V /\ 2 * V <= 2 * m + Ulp(m, 1)
  <2>1. Abs(m) < Top /\ m \in Int
    BY <1>8, <1>9 DEF Abs
  <2> HIDE DEF m
  <2> QED
    BY <2>1, F64Is
<1>12. k \in Int /\ r \in 0..One - 1 /\ V = One * k + r
  <2>1. \A n \in Int, y \in Nat : y > 0 =>
          /\ n \div y \in Int /\ n % y \in 0..(y - 1)
          /\ n = y * (n \div y) + (n % y)
    OBVIOUS
  <2> HIDE DEF V
  <2> QED
    BY <1>1, <1>11, <2>1
<1> HIDE DEF V, k, r
<1>13. (d.secs + Epoch) * One * Nanos + d.nanos * One - Exact(t) * Nanos = One * k - x * Nanos
  <2> DEFINE y == s * One
             w == y * Nanos
             z == x * Nanos
  <2>1. y \in Int /\ k * One = One * k /\ One * k \in Int
    BY <1>1, <1>12
  <2> HIDE DEF y
  <2>2. (y + x) * Nanos = w + z /\ w \in Int /\ z \in Int
    BY <1>5, <2>1, Dates
  <2>3. (d.secs + Epoch) * One * Nanos = w
    BY <1>4 DEF y
  <2>4. Exact(t) * Nanos = w + z /\ d.nanos * One = One * k
    BY <1>4, <1>7, <2>1, <2>2 DEF y
  <2> HIDE DEF w, z
  <2>5. w + One * k - (w + z) = One * k - z
    BY <2>1, <2>2
  <2> QED
    BY <2>3, <2>4, <2>5 DEF z
<1>14. 4 * (m - x * Nanos) <= Nanos * U /\ 4 * (x * Nanos - m) <= Nanos * U
  <2>1. /\ Nanos * (4 * (g - x)) <= Nanos * U /\ Nanos * (4 * (x - g)) <= Nanos * U
    BY <1>5, <1>6, Dates
  <2>2. /\ Nanos * (4 * (g - x)) = 4 * (g * Nanos - x * Nanos)
        /\ Nanos * (4 * (x - g)) = 4 * (x * Nanos - g * Nanos)
    BY <1>5, Dates
  <2> QED
    BY <2>1, <2>2
<1> DEFINE z == x * Nanos
           y == One * k
           W == Nanos * U
<1>15. z \in Int /\ y \in Int /\ W \in Nat
  BY <1>1, <1>5, <1>6, <1>12, Dates
<1>16. 4 * (m - z) <= W /\ 4 * (z - m) <= W /\ V = y + r /\ Ulp(m, 1) <= W
  BY <1>10, <1>12, <1>14
<1> HIDE DEF z, y, W, m
<1>17. Abs(y - z) <= One + W
  BY <1>1, <1>8, <1>10, <1>11, <1>12, <1>15, <1>16 DEF Abs
<1> QED
  BY <1>1, <1>13, <1>17 DEF d, z, y, W, U

(* The part of a second in a date, as a double, is at most two seconds. *)
LEMMA DatePart ==
  ASSUME NEW n \in 0..2 * Nanos - 1
  PROVE  /\ Rounded(n * One, Nanos) \in 0..2 * One
         /\ Abs(n * One) <= Nanos * Abs(2 * One) /\ Abs(2 * One) < Top
<1> DEFINE m == n * One
           S == 2 * One
           e == Exponent(m, Nanos)
           u == Ulp(m, Nanos)
           f == Exponent(S, 1)
<1>1. /\ One \in Nat \ {0} /\ Nanos \in Nat \ {0} /\ S \in Nat /\ Abs(S) = S
      /\ n \in Nat /\ n <= 2 * Nanos
  BY Second, Dates DEF Abs
<1>2. m \in Nat /\ m <= Nanos * S
  <2>1. n * One <= (2 * Nanos) * One /\ (2 * Nanos) * One = Nanos * (2 * One) /\ n * One \in Nat
    BY <1>1
  <2> QED
    BY <2>1
<1>3. P \in Nat /\ P + 1 \in 1..3 * P /\ S = Pow2[P + 1] /\ S < Top
  <2>1. P \in Nat /\ P + 1 \in 1..3 * P /\ (P + 1) - 1 = P
    BY Widths
  <2>2. Pow2[P + 1] = 2 * Pow2[P]
    <3> DEFINE j == P + 1
    <3>1. j \in 1..3 * P /\ j - 1 = P
      BY <2>1
    <3> HIDE DEF j
    <3>2. Pow2[j] = 2 * Pow2[j - 1]
      BY <3>1, Doubling
    <3> QED
      BY <3>1, <3>2 DEF j
  <2>3. P + 1 \in Nat /\ M + 2 * P \in Nat /\ P + 1 < M + 2 * P /\ M + 2 * P <= 3 * P
    BY Widths
  <2>4. 2 * Pow2[P + 1] <= Top /\ Pow2[P + 1] \in Nat \ {0}
    BY <2>3, PowOrder DEF Top
  <2> QED
    BY <2>1, <2>2, <2>4, Powered DEF One
<1> HIDE DEF m, S
<1>4. Abs(m) = m /\ Abs(m) <= Nanos * Abs(S) /\ Abs(S) < Top
  BY <1>1, <1>2, <1>3 DEF Abs
<1>5. Abs(m) < Nanos * Top /\ e <= f
  BY <1>1, <1>2, <1>4, UlpOrder
<1>6. u = Pow2[e] /\ e \in 0..2 * P /\ u \in Nat \ {0}
  BY <1>1, <1>2, <1>5, UlpIs
<1>7. Binade(S, 1, f) /\ f \in 0..2 * P
  <2>1. Abs(S) < 1 * Top
    BY <1>4, Powered
  <2> QED
    BY <1>1, <2>1, UlpIs
<1> HIDE DEF e, f, u
<1>8. e <= P + 1
  <2> SUFFICES ASSUME P + 1 < e PROVE FALSE
    BY <1>3, <1>6, Widths
  <2>1. P + 1 < f /\ f # 0
    BY <1>3, <1>5, <1>6, <1>7
  <2>2. P + 1 \in Nat /\ M + f - 1 \in Nat /\ P + 1 < M + f - 1 /\ M + f - 1 <= 3 * P
    BY <1>7, <2>1, Widths
  <2>3. 2 * Pow2[P + 1] <= Pow2[M + f - 1]
    BY <2>2, PowOrder
  <2>4. Abs(S) >= 1 * Pow2[M + f - 1] /\ Pow2[M + f - 1] \in Nat
    BY <1>7, <2>1, <2>2, PowOrder DEF Binade
  <2>5. S \in Nat \ {0}
    BY <1>1 DEF S
  <2> QED
    BY <1>1, <1>3, <2>3, <2>4, <2>5
<1>9. PICK q \in Nat \ {0} : S = q * u
  <2>1. e \in Nat /\ P + 1 \in Nat /\ P + 1 <= 3 * P
    BY <1>3, <1>6
  <2>2. \E q \in Nat \ {0} : Pow2[P + 1] = q * Pow2[e]
    BY <1>8, <2>1, PowOrder
  <2> QED
    BY <1>3, <1>6, <2>2
<1> DEFINE v == Nanos * u
           k == Nearest(m, v)
<1>10. v \in Nat \ {0} /\ Nanos * S = q * v /\ 0 * v = 0
  <2>1. \A i, j, h \in Nat : i * (j * h) = j * (i * h)
    OBVIOUS
  <2>2. Nanos * (q * u) = q * (Nanos * u)
    BY <1>1, <1>6, <2>1
  <2>3. v \in Nat \ {0}
    BY <1>1, <1>6
  <2> QED
    BY <1>9, <2>2, <2>3
<1> HIDE DEF v
<1>11. Nearest(0 * v, v) = 0 /\ Nearest(q * v, v) = q /\ q * v \in Int /\ k \in Int
  <2>1. Nearest(0 * v, v) = 0 /\ Nearest(q * v, v) = q
    <3>1. v \in Nat \ {0} /\ 0 \in Int /\ q \in Int
      BY <1>10
    <3> QED
      BY ONLY <3>1, NearestMultiple, Zenon
  <2>2. k \in Int
    BY <1>2, <1>10, NearestIs
  <2>3. q * v \in Int
    BY <1>10
  <2> QED
    BY <2>1, <2>2, <2>3
<1>12. Nearest(0, v) <= k /\ k <= Nearest(q * v, v)
  <2>1. 0 <= m /\ m <= q * v /\ m \in Int
    BY <1>2, <1>10
  <2> QED
    BY <1>10, <1>11, <2>1, NearestMonotone
<1>13. k \in 0..q
  BY <1>10, <1>11, <1>12
<1>14. Rounded(m, Nanos) = k * u
  BY DEF Rounded, u, v
<1> HIDE DEF k
<1>15. k * u <= q * u /\ 0 <= k * u /\ k * u \in Int
  BY <1>6, <1>13
<1> QED
  BY <1>1, <1>4, <1>9, <1>14, <1>15 DEF m, S

(* An addition of doubles that count seconds below K. *)
LEMMA Addition ==
  ASSUME NEW y \in Int, NEW i \in Int, NEW K \in Nat, K <= Pow2[M],
         Abs(i) <= K, Abs(i + 2) <= K, i * One <= y, y <= (i + 2) * One
  PROVE  /\ F64(y) \in Int /\ i * One <= F64(y) /\ F64(y) <= (i + 2) * One
         /\ 2 * (F64(y) - y) <= Ulp(K * One, 1) /\ 2 * (y - F64(y)) <= Ulp(K * One, 1)
<1>1. One = Pow2[P] /\ P \in 0..2 * P - 1 /\ One \in Nat \ {0} /\ Pow2[M] \in Nat
  BY Second, Widths DEF One
<1>2. Abs(i) <= Pow2[M] /\ Abs(i + 2) <= Pow2[M] /\ Abs(K) <= Pow2[M]
  BY <1>1 DEF Abs
<1>3. Abs(y) < Top /\ F64(y) \in Int /\ i * One <= F64(y) /\ F64(y) <= (i + 2) * One
  <2>1. i * Pow2[P] <= y /\ y <= (i + 2) * Pow2[P] /\ i + 2 \in Int
    BY <1>1
  <2>2. /\ Abs(y) < Top /\ F64(y) \in Int
        /\ i * Pow2[P] <= F64(y) /\ F64(y) <= (i + 2) * Pow2[P]
    BY <1>1, <1>2, <2>1, F64Within
  <2> QED
    BY <1>1, <2>2
<1> DEFINE L == K * One
<1>4. L \in Nat /\ Abs(L) < Top
  BY <1>1, <1>2, F64Exact
<1>5. Abs(y) <= 1 * Abs(L)
  <2>1. -K <= i /\ i + 2 <= K
    BY DEF Abs
  <2>2. (-K) * One <= i * One /\ (i + 2) * One <= K * One /\ (-K) * One = -(K * One)
    BY <1>1, <2>1
  <2>3. i * One \in Int /\ (i + 2) * One \in Int
    BY <1>1
  <2>4. -L <= y /\ y <= L
    <3>1. -L <= i * One /\ (i + 2) * One <= L
      BY <2>2
    <3> HIDE DEF L
    <3> QED
      BY <1>4, <2>3, <3>1
  <2> HIDE DEF L
  <2> QED
    BY <1>4, <2>4 DEF Abs
<1> HIDE DEF L
<1>6. Ulp(y, 1) <= Ulp(L, 1)
  BY <1>4, <1>5, UlpOrder
<1>7. Ulp(y, 1) \in Nat /\ Ulp(L, 1) \in Nat
  <2>1. Abs(y) < 1 * Top /\ Abs(L) < 1 * Top
    BY <1>3, <1>4, Powered
  <2> QED
    BY <1>4, <2>1, UlpIs
<1>8. 2 * y - Ulp(y, 1) <= 2 * F64(y) /\ 2 * F64(y) <= 2 * y + Ulp(y, 1)
  BY <1>3, F64Is
<1>9. 2 * (F64(y) - y) <= Ulp(L, 1) /\ 2 * (y - F64(y)) <= Ulp(L, 1)
  BY <1>3, <1>6, <1>7, <1>8
<1> QED
  BY <1>3, <1>9 DEF L

(* Two additions and a division, none further than half a step. *)
LEMMA ViaDoubles ==
  ASSUME NEW s \in Int, NEW n \in 0..2 * Nanos - 1, NEW K \in Nat, 2 <= K, K <= Pow2[M],
         Abs(s) <= K, Abs(s + 2) <= K, Abs(s + Epoch) <= K, Abs(s + Epoch + 2) <= K
  PROVE  LET x == F64(F64(F64(s * One) + Rounded(n * One, Nanos)) + Epoch * One)
             a == (s + Epoch) * One * Nanos + n * One
         IN  /\ x \in Int /\ a \in Int /\ Ulp(K * One, 1) \in Nat \ {0}
             /\ (s + Epoch) * One <= x /\ x <= (s + Epoch + 2) * One
             /\ 2 * (x * Nanos - a) <= 3 * (Nanos * Ulp(K * One, 1))
             /\ 2 * (a - x * Nanos) <= 3 * (Nanos * Ulp(K * One, 1))
<1> DEFINE L == K * One
           U == Ulp(L, 1)
           m == n * One
           r == Rounded(m, Nanos)
           b == s * One
           y1 == b + r
           x1 == F64(y1)
           E == Epoch * One
           y2 == x1 + E
           x == F64(y2)
           a == (s + Epoch) * One * Nanos + n * One
<1>1. One = Pow2[P] /\ P \in 0..2 * P - 1 /\ One \in Nat \ {0} /\ Nanos \in Nat \ {0}
        /\ Epoch \in Nat \ {0} /\ Pow2[M] \in Nat
  BY Second, Widths, Dates DEF One
<1>2. L \in Nat /\ Abs(L) = L /\ 2 * One <= L
  <2>1. K * One \in Nat /\ 2 * One <= K * One
    BY <1>1
  <2> QED
    BY <2>1 DEF Abs
<1>3. Abs(L) < Top
  <2>1. Abs(K) <= Pow2[M]
    BY DEF Abs
  <2> QED
    BY <1>1, <2>1, F64Exact
<1>4. U \in Nat \ {0}
  <2>1. Abs(L) < 1 * Top
    BY <1>3, Powered
  <2> HIDE DEF L
  <2> QED
    BY <1>2, <2>1, UlpIs
<1>5. /\ F64(b) = b /\ b \in Int /\ E \in Nat /\ m \in Nat
      /\ (s + 2) * One = b + 2 * One
      /\ (s + Epoch) * One = b + E
      /\ (s + Epoch + 2) * One = b + E + 2 * One
      /\ (s + Epoch) * One \in Int /\ (s + Epoch + 2) * One \in Int
  <2>1. Abs(s) <= Pow2[M]
    BY <1>1 DEF Abs
  <2>2. F64(s * Pow2[P]) = s * Pow2[P]
    BY <1>1, <2>1, F64Exact
  <2>3. F64(b) = b
    BY <1>1, <2>2
  <2>4. n \in Nat
    BY <1>1
  <2>5. /\ b \in Int /\ E \in Nat /\ m \in Nat
        /\ (s + 2) * One = b + 2 * One
        /\ (s + Epoch) * One = b + E
        /\ (s + Epoch + 2) * One = b + E + 2 * One
    BY <1>1, <2>4
  <2> QED
    BY <1>1, <2>3, <2>5
<1>6. r \in 0..2 * One /\ Abs(m) <= Nanos * Abs(2 * One) /\ Abs(2 * One) < Top
  BY DatePart
<1>7. /\ 2 * (Nanos * r - m) <= Nanos * U /\ 2 * (m - Nanos * r) <= Nanos * U
  <2>1. Abs(m) <= Nanos * Abs(L)
    <3>1. Abs(2 * One) <= Abs(L) /\ Abs(L) \in Nat /\ Abs(2 * One) \in Nat /\ Abs(m) \in Nat
      BY <1>1, <1>2, <1>5 DEF Abs
    <3> DEFINE i == Abs(2 * One)
               j == Abs(L)
    <3>2. i \in Nat /\ j \in Nat /\ i <= j /\ Abs(m) <= Nanos * i
      BY <1>6, <3>1
    <3> HIDE DEF i, j, m
    <3>3. Nanos * i <= Nanos * j /\ Nanos * i \in Nat /\ Nanos * j \in Nat
      BY <1>1, <3>2
    <3> QED
      BY <3>1, <3>2, <3>3 DEF j, m
  <2> HIDE DEF m, L
  <2>2. Abs(m) < Nanos * Top /\ Ulp(m, Nanos) <= U
    BY <1>1, <1>2, <1>3, <1>5, <2>1, UlpOrder
  <2>3. Ulp(m, Nanos) \in Nat \ {0}
    BY <1>1, <1>5, <2>2, UlpIs
  <2>4. /\ 2 * m - Nanos * Ulp(m, Nanos) <= 2 * (Nanos * r)
        /\ 2 * (Nanos * r) <= 2 * m + Nanos * Ulp(m, Nanos)
    BY <1>1, <1>5, <2>2, RoundedIs
  <2> DEFINE w == Ulp(m, Nanos)
  <2>5. Nanos * w <= Nanos * U /\ Nanos * w \in Nat /\ Nanos * U \in Nat
    <3> HIDE DEF w, U
    <3> QED
      BY <1>1, <1>4, <2>2, <2>3 DEF w, U
  <2>6. Nanos * r \in Int /\ m \in Int
    BY <1>1, <1>5, <1>6 DEF m
  <2> HIDE DEF w, r, U
  <2> QED
    BY <2>4, <2>5, <2>6 DEF w, r, U
<1> HIDE DEF U, r, m, E, b
<1>8. /\ x1 \in Int /\ y1 \in Int /\ b <= x1 /\ x1 <= b + 2 * One
      /\ 2 * (x1 - y1) <= U /\ 2 * (y1 - x1) <= U
  <2>1. y1 \in Int /\ s * One <= y1 /\ y1 <= (s + 2) * One
    <3>1. b = s * One
      BY DEF b
    <3> QED
      BY <1>1, <1>5, <1>6, <3>1
  <2> HIDE DEF y1
  <2>2. /\ F64(y1) \in Int /\ s * One <= F64(y1) /\ F64(y1) <= (s + 2) * One
        /\ 2 * (F64(y1) - y1) <= Ulp(K * One, 1) /\ 2 * (y1 - F64(y1)) <= Ulp(K * One, 1)
    BY <2>1, Addition
  <2> QED
    BY <1>5, <2>1, <2>2 DEF b, U
<1> HIDE DEF x1, y1
<1>9. /\ x \in Int /\ y2 \in Int /\ b + E <= x /\ x <= b + E + 2 * One
      /\ 2 * (x - y2) <= U /\ 2 * (y2 - x) <= U
  <2>1. y2 \in Int /\ (s + Epoch) * One <= y2 /\ y2 <= ((s + Epoch) + 2) * One
    BY <1>1, <1>5, <1>8
  <2>2. s + Epoch \in Int /\ Abs((s + Epoch) + 2) <= K
    BY <1>1
  <2> HIDE DEF y2
  <2>3. /\ F64(y2) \in Int /\ (s + Epoch) * One <= F64(y2) /\ F64(y2) <= ((s + Epoch) + 2) * One
        /\ 2 * (F64(y2) - y2) <= Ulp(K * One, 1) /\ 2 * (y2 - F64(y2)) <= Ulp(K * One, 1)
    BY <2>1, <2>2, Addition
  <2> QED
    BY <1>5, <2>1, <2>3 DEF U
<1> HIDE DEF x
<1>10. a = b * Nanos + E * Nanos + m /\ a \in Int
  <2>1. a = (b + E) * Nanos + m
    BY <1>5 DEF m
  <2>2. (b + E) * Nanos = b * Nanos + E * Nanos /\ b * Nanos \in Int /\ E * Nanos \in Int
    BY <1>1, <1>5
  <2> QED
    BY <1>5, <2>1, <2>2
<1> HIDE DEF a
<1> DEFINE N == Nanos
           W == N * U
           d1 == x1 - y1
           d2 == x - y2
<1>11. /\ 2 * (N * d1) <= W /\ -(2 * (N * d1)) <= W /\ N * d1 \in Int
       /\ 2 * (N * d2) <= W /\ -(2 * (N * d2)) <= W /\ N * d2 \in Int /\ W \in Nat
  <2> DEFINE c1 == 2 * d1
             c2 == 2 * d2
  <2>1. /\ c1 \in Int /\ c1 <= U /\ -c1 <= U /\ d1 \in Int
        /\ c2 \in Int /\ c2 <= U /\ -c2 <= U /\ d2 \in Int
        /\ c1 = 2 * d1 /\ c2 = 2 * d2
    BY <1>4, <1>8, <1>9 DEF U
  <2> HIDE DEF c1, c2, d1, d2
  <2>2. U \in Nat
    BY <1>4 DEF U
  <2>3. N * c1 <= N * U /\ N * (-c1) <= N * U /\ N * c2 <= N * U /\ N * (-c2) <= N * U
    BY <1>1, <2>1, <2>2
  <2>4. /\ N * c1 = 2 * (N * d1) /\ N * (-c1) = -(2 * (N * d1))
        /\ N * c2 = 2 * (N * d2) /\ N * (-c2) = -(2 * (N * d2))
        /\ N * d1 \in Int /\ N * d2 \in Int /\ N * U \in Nat
    BY <1>1, <2>1, <2>2
  <2> QED
    BY <2>3, <2>4
<1>12. x * N - a = N * d2 + N * d1 + (N * r - m)
  <2>1. /\ N * d2 = N * x - N * y2 /\ N * d1 = N * x1 - N * y1
        /\ N * y2 = N * x1 + N * E /\ N * y1 = N * b + N * r
        /\ x * N = N * x /\ b * N = N * b /\ E * N = N * E
        /\ N * x \in Int /\ N * x1 \in Int /\ N * E \in Int /\ N * b \in Int /\ N * r \in Int
    <3>1. y1 = b + r
      BY DEF y1
    <3> QED
      BY <1>1, <1>5, <1>6, <1>8, <1>9, <3>1
  <2> DEFINE px == N * x
             px1 == N * x1
             pe == N * E
             pb == N * b
             pr == N * r
  <2>2. /\ N * d2 = px - (px1 + pe) /\ N * d1 = px1 - (pb + pr)
        /\ x * N = px /\ a = pb + pe + m
        /\ px \in Int /\ px1 \in Int /\ pe \in Int /\ pb \in Int /\ pr \in Int
    BY <1>10, <2>1
  <2> HIDE DEF px, px1, pe, pb, pr, d1, d2
  <2>3. x * N - a = N * d2 + N * d1 + (pr - m)
    BY <1>5, <2>2
  <2> QED
    BY <2>3 DEF pr
<1> DEFINE p1 == N * d1
           p2 == N * d2
           p3 == N * r - m
<1>13. /\ p1 \in Int /\ p2 \in Int /\ p3 \in Int /\ W \in Nat
       /\ 2 * p1 <= W /\ -(2 * p1) <= W /\ 2 * p2 <= W /\ -(2 * p2) <= W
       /\ 2 * p3 <= W /\ -(2 * p3) <= W
       /\ x * N - a = p2 + p1 + p3
  <2>1. N * r \in Int
    BY <1>1, <1>6
  <2>2. 2 * p3 <= W /\ 2 * (m - N * r) <= W /\ p3 \in Int
    BY <1>5, <1>7, <2>1
  <2>3. -(2 * p3) = 2 * (m - N * r)
    BY <1>5, <2>1
  <2> QED
    BY <1>11, <1>12, <2>2, <2>3
<1> HIDE DEF p1, p2, p3, W
<1>14. x * N \in Int
  BY <1>1, <1>9
<1>15. 2 * (x * N - a) <= 3 * W /\ 2 * (a - x * N) <= 3 * W
  BY <1>10, <1>13, <1>14
<1>16. /\ (s + Epoch) * One <= x /\ x <= (s + Epoch + 2) * One
  BY <1>5, <1>9
<1>17. x = F64(F64(F64(s * One) + Rounded(n * One, Nanos)) + Epoch * One)
  <2>1. F64(F64(s * One) + Rounded(n * One, Nanos)) = x1
    BY <1>5, Zenon DEF x1, y1, b, r, m
  <2> QED
    BY <2>1 DEF x, y2, E
<1>18. a = (s + Epoch) * One * Nanos + n * One
  BY DEF a
<1>19. W = Nanos * Ulp(K * One, 1) /\ Ulp(K * One, 1) \in Nat \ {0}
  BY <1>4 DEF W, U
<1> QED
  BY <1>9, <1>10, <1>15, <1>16, <1>17, <1>18, <1>19

(* What from_chrono makes of a date, ... *)
LEMMA FromChronoIs ==
  ASSUME NEW d \in Date
  PROVE  LET x == F64(F64(F64(d.secs * One) + Rounded(d.nanos * One, Nanos)) + Epoch * One)
         IN  /\ d.secs \in (-ChronoMax)..ChronoMax /\ d.nanos \in 0..2 * Nanos - 1
             /\ from_chrono(d) = from_lv_epoch(x)
<1>1. d \in [secs : (-ChronoMax)..ChronoMax, nanos : 0..2 * Nanos - 1]
  BY DEF Date
<1> QED
  BY <1>1, Zenon DEF from_chrono, from_unix_epoch

(* ... through a double that counts less than half of a mantissa's seconds. *)
LEMMA ThroughEpoch ==
  ASSUME NEW s \in Int, NEW n \in 0..2 * Nanos - 1, NEW K \in Nat, 2 <= K, 2 * K <= Pow2[M],
         Abs(s) <= K, Abs(s + 2) <= K, Abs(s + Epoch) <= K, Abs(s + Epoch + 2) <= K
  PROVE  LET x == F64(F64(F64(s * One) + Rounded(n * One, Nanos)) + Epoch * One)
             a == (s + Epoch) * One * Nanos + n * One
             t == from_lv_epoch(x)
             c == a - Exact(t) * Nanos
             W == Nanos * Ulp(K * One, 1)
         IN  /\ t \in Time
             /\ s + Epoch >= 0 => Abs(c) <= One + 2 * W
             /\ 2 * Abs(c) <= 3 * W + 2 * (Nanos * (One - 1))
<1> DEFINE x == F64(F64(F64(s * One) + Rounded(n * One, Nanos)) + Epoch * One)
           a == (s + Epoch) * One * Nanos + n * One
           t == from_lv_epoch(x)
           U == Ulp(K * One, 1)
           W == Nanos * U
           h == s + Epoch
           q == Truncated(x)
           r == x - Exact(t)
<1>1. /\ One \in Nat \ {0} /\ Tick \in Nat \ {0} /\ One = Word * Tick /\ Nanos \in Nat \ {0}
      /\ Pow2[M] \in Nat \ {0} /\ 2 * Pow2[M] <= Word /\ Word \in Nat /\ Nanos < Pow2[M]
      /\ h \in Int /\ Word \div 2 \in Nat /\ 2 * (Word \div 2) = Word
  BY Second, Dates
<1>2. /\ x \in Int /\ a \in Int /\ U \in Nat \ {0} /\ h * One <= x /\ x <= (h + 2) * One
      /\ 2 * (x * Nanos - a) <= 3 * W /\ 2 * (a - x * Nanos) <= 3 * W
  <2>1. K <= Pow2[M]
    BY <1>1
  <2> QED
    BY <2>1, ViaDoubles
<1>3. Abs(h) <= K /\ Abs(h + 2) <= K
  OBVIOUS
<1>4. t \in Time /\ (q \in I64 => r \in IF x >= 0 THEN 0..Tick - 1 ELSE (1 - One)..0)
  BY <1>2, FromLvEpoch
<1> HIDE DEF x, a, t, U, W, h, q, r
<1>5. q \in Int /\ (IF x >= 0 THEN x - q * One \in 0..One - 1 ELSE x - q * One \in 1 - One..0)
  BY <1>2, TruncatedIs DEF q
<1>6. -(K + 1) < q /\ q < K + 1
  <2>1. -K <= h /\ h + 2 <= K
    BY <1>1, <1>3 DEF Abs
  <2>2. (-K) * One <= h * One /\ (h + 2) * One <= K * One /\ (-K) * One = -(K * One)
    BY <1>1, <2>1
  <2> DEFINE L == K * One
             y == q * One
  <2>3. L \in Nat /\ y \in Int /\ h * One \in Int /\ (h + 2) * One \in Int
    BY <1>1, <1>5
  <2>4. -L <= x /\ x <= L
    <3>1. -L <= h * One /\ (h + 2) * One <= L
      BY <2>2
    <3> HIDE DEF L
    <3> QED
      BY <1>2, <2>3, <3>1
  <2>5. x - y <= One - 1 /\ y - x <= One - 1
    <3>1. IF x >= 0 THEN x - y \in 0..One - 1 ELSE x - y \in 1 - One..0
      BY <1>5
    <3> HIDE DEF y
    <3> QED
      BY <1>1, <1>2, <2>3, <3>1
  <2>6. K + 1 <= q => L + One <= y
    <3>1. K + 1 <= q => (K + 1) * One <= q * One
      BY <1>1, <1>5
    <3>2. (K + 1) * One = K * One + One
      BY <1>1
    <3> QED
      BY <3>1, <3>2
  <2>7. q <= -(K + 1) => y <= -L - One
    <3>1. q <= -(K + 1) => q * One <= (-(K + 1)) * One
      BY <1>1, <1>5
    <3>2. (-(K + 1)) * One = -(K * One) - One
      BY <1>1
    <3> QED
      BY <3>1, <3>2
  <2> HIDE DEF L, y
  <2> QED
    BY <1>1, <1>2, <1>5, <2>3, <2>4, <2>5, <2>6, <2>7
<1>7. q \in I64
  <2> DEFINE g == Word \div 2
  <2>1. g \in Nat /\ 2 * g = Word
    BY <1>1
  <2> HIDE DEF g
  <2>2. q \in (-g)..(g - 1)
    BY <1>1, <1>5, <1>6, <2>1
  <2> QED
    BY <2>2 DEF I64, g
<1>8. r \in Int /\ (x >= 0 => r \in 0..Tick - 1) /\ r <= One - 1 /\ -r <= One - 1
  <2>1. Tick <= One
    <3>1. 1 <= Word
      BY <1>1
    <3>2. 1 * Tick <= Word * Tick
      BY <1>1, <3>1
    <3> QED
      BY <1>1, <3>2
  <2> QED
    BY <1>1, <1>4, <1>7, <2>1
<1>9. h >= 0 => x >= 0
  <2>1. h >= 0 => h * One >= 0 * One
    BY <1>1
  <2>2. 0 * One = 0 /\ h * One \in Int
    BY <1>1
  <2> QED
    BY <1>2, <2>1, <2>2
<1> DEFINE z == x * Nanos
           v == Exact(t) * Nanos
           w == Nanos * r
           J == Nanos * (One - 1)
<1>10. Exact(t) \in Int /\ Exact(t) = x - r
  <2>1. t.seconds \in Int /\ t.fractions \in Int
    <3>1. I64 \subseteq Int /\ 0..Word - 1 \subseteq Int
      BY <1>1 DEF I64
    <3> QED
      BY <1>4, <3>1 DEF Time
  <2>2. Exact(t) \in Int
    BY <1>1, <2>1 DEF Exact
  <2> DEFINE e == Exact(t)
  <2> HIDE DEF e
  <2> QED
    BY <1>2, <2>2 DEF r, e
<1>11. z \in Int /\ v \in Int /\ w \in Int /\ J \in Int /\ v = z - w
  <2> DEFINE e == Exact(t)
  <2>1. e \in Int /\ e = x - r
    BY <1>10
  <2> HIDE DEF e
  <2>2. e * Nanos = x * Nanos - Nanos * r
    BY <1>1, <1>2, <1>8, <2>1
  <2>3. e * Nanos \in Int /\ x * Nanos \in Int /\ Nanos * r \in Int /\ Nanos * (One - 1) \in Int
    BY <1>1, <1>2, <1>8, <2>1
  <2> QED
    BY <2>2, <2>3 DEF e
<1>12. w <= J /\ -w <= J
  <2>1. Nanos * r <= Nanos * (One - 1) /\ Nanos * (-r) <= Nanos * (One - 1)
    BY <1>1, <1>8
  <2>2. Nanos * (-r) = -(Nanos * r)
    BY <1>1, <1>8
  <2> QED
    BY <2>1, <2>2
<1>13. x >= 0 => 0 <= w /\ w <= One
  <2>1. Nanos <= Word
    BY <1>1
  <2>2. Nanos * Tick <= Word * Tick
    BY <1>1, <2>1
  <2>3. x >= 0 => Nanos * 0 <= Nanos * r /\ Nanos * r <= Nanos * Tick
    BY <1>1, <1>8
  <2>4. Nanos * 0 = 0 /\ Nanos * Tick \in Int
    BY <1>1
  <2> HIDE DEF w
  <2>5. w = Nanos * r
    BY DEF w
  <2> QED
    BY <1>1, <1>11, <2>2, <2>3, <2>4, <2>5
<1>14. W \in Nat
  BY <1>1, <1>2 DEF W
<1>15. 2 * (z - a) <= 3 * W /\ 2 * (a - z) <= 3 * W
  BY <1>2
<1> HIDE DEF z, v, w, J
<1>16. /\ h >= 0 => Abs(a - v) <= One + 2 * W
       /\ 2 * Abs(a - v) <= 3 * W + 2 * J
  BY <1>1, <1>2, <1>9, <1>11, <1>12, <1>13, <1>14, <1>15 DEF Abs
<1> QED
  BY <1>4, <1>16 DEF x, a, t, U, W, h, v, J

(* What ChronoIsNear says of the conversion of one date. *)
LEMMA FromChronoNear ==
  ASSUME NEW d \in Date
  PROVE  LET t == from_chrono(d)
             c == Abs((d.secs + Epoch) * One * Nanos + d.nanos * One - Exact(t) * Nanos)
             K == Abs(d.secs) + Epoch + 2
         IN  /\ t \in Time
             /\ IF d.secs + Epoch >= 0
                THEN c <= One + 2 * (Nanos * Ulp(K * One, 1))
                ELSE c < 2 * One * Nanos
<1> DEFINE s == d.secs
           n == d.nanos
           x == F64(F64(F64(s * One) + Rounded(n * One, Nanos)) + Epoch * One)
           t == from_lv_epoch(x)
           a == (s + Epoch) * One * Nanos + n * One
           c == a - Exact(t) * Nanos
<1>1. s \in (-ChronoMax)..ChronoMax /\ n \in 0..2 * Nanos - 1 /\ from_chrono(d) = t
  BY FromChronoIs
<1> HIDE DEF s, n
<1>2. /\ s \in Int /\ Epoch \in Nat \ {0} /\ 2 * (Abs(s) + Epoch + 2) <= Pow2[M]
      /\ Abs(s) \in Nat /\ Nanos \in Nat \ {0} /\ One \in Nat /\ One >= 2 /\ Pow2[M] \in Nat
  BY <1>1, Dates, Second DEF Abs
<1>5. t \in Time => c \in Int /\ c = (s + Epoch) * One * Nanos + n * One - Exact(t) * Nanos
  <2> SUFFICES ASSUME t \in Time
               PROVE  c \in Int /\ c = (s + Epoch) * One * Nanos + n * One - Exact(t) * Nanos
    OBVIOUS
  <2> HIDE DEF t
  <2>1. t.seconds \in Int /\ t.fractions \in Int
    <3>1. I64 \subseteq Int /\ 0..Word - 1 \subseteq Int
      BY Second DEF I64
    <3> QED
      BY <3>1 DEF Time
  <2> DEFINE i == (s + Epoch) * One * Nanos
             j == n * One
             k == Exact(t) * Nanos
  <2>2. Exact(t) \in Int
    BY <2>1, Second DEF Exact
  <2>3. i \in Int /\ j \in Int /\ k \in Int
    <3> DEFINE e == Exact(t)
    <3>1. e \in Int
      BY <2>2
    <3> HIDE DEF e
    <3>2. e * Nanos \in Int /\ (s + Epoch) * One * Nanos \in Int /\ n * One \in Int
      BY <1>1, <1>2, <3>1
    <3> QED
      BY <3>2 DEF e
  <2> HIDE DEF i, j, k
  <2>4. (i + j) - k \in Int /\ (i + j) - k = i + (j - k)
    BY <2>3
  <2> QED
    BY <2>4 DEF i, j, k
<1>3. CASE s + Epoch >= 0
  <2> DEFINE K == Abs(s) + Epoch + 2
  <2>1. /\ K \in Nat /\ 2 <= K /\ 2 * K <= Pow2[M]
        /\ Abs(s) <= K /\ Abs(s + 2) <= K /\ Abs(s + Epoch) <= K /\ Abs(s + Epoch + 2) <= K
    BY <1>2, <1>3 DEF Abs
  <2> HIDE DEF K
  <2>2. t \in Time /\ Abs(c) <= One + 2 * (Nanos * Ulp(K * One, 1))
    BY <1>1, <1>2, <1>3, <2>1, ThroughEpoch
  <2>3. c = (s + Epoch) * One * Nanos + n * One - Exact(t) * Nanos
    BY <1>5, <2>2
  <2> QED
    BY <1>1, <1>3, <2>2, <2>3 DEF K, s, n
<1>4. CASE ~(s + Epoch >= 0)
  <2> DEFINE K == -s
             L == K * One
             e == Exponent(L, 1)
             U == Ulp(L, 1)
  <2>1. /\ K \in Nat /\ 2 <= K /\ 2 * K < Pow2[M] /\ 2 * K <= Pow2[M]
        /\ Abs(s) <= K /\ Abs(s + 2) <= K /\ Abs(s + Epoch) <= K /\ Abs(s + Epoch + 2) <= K
        /\ Abs(K) <= Pow2[M]
    BY <1>2, <1>4 DEF Abs
  <2> HIDE DEF K
  <2>2. t \in Time /\ 2 * Abs(c) <= 3 * (Nanos * U) + 2 * (Nanos * (One - 1))
    BY <1>1, <1>2, <2>1, ThroughEpoch
  <2>3. One = Pow2[P] /\ P \in 0..2 * P - 1 /\ P \in Nat
    BY Widths DEF One
  <2>4. L \in Nat /\ Abs(L) = L /\ Abs(L) < Top
    <3>1. L \in Nat
      BY <1>2, <2>1
    <3>2. Abs(L) < Top
      BY <2>1, <2>3, F64Exact
    <3> QED
      BY <3>1, <3>2 DEF Abs
  <2> HIDE DEF L
  <2>5. Binade(L, 1, e) /\ U = Pow2[e] /\ e \in 0..2 * P /\ U \in Nat \ {0}
    <3>1. Abs(L) < 1 * Top
      BY <2>4, Powered
    <3> QED
      BY <2>4, <3>1, UlpIs
  <2> HIDE DEF e, U
  <2>6. e < P
    <3> SUFFICES ASSUME P <= e PROVE FALSE
      BY <2>3, <2>5
    <3>1. e # 0 /\ M + e - 1 \in Nat /\ (M - 1) + P <= M + e - 1 /\ M + e - 1 <= 3 * P
            /\ (M - 1) + P \in Nat /\ M - 1 \in Nat /\ (M - 1) + P <= 3 * P /\ M \in 1..3 * P
      BY <2>5, Widths
    <3>2. Pow2[(M - 1) + P] <= Pow2[M + e - 1] /\ Pow2[(M - 1) + P] = Pow2[M - 1] * One
            /\ Pow2[M + e - 1] \in Nat
      BY <2>3, <3>1, PowOrder, PowSum
    <3>3. Pow2[M] = 2 * Pow2[M - 1] /\ Pow2[M - 1] \in Nat
      <4>1. M - 1 \in 0..3 * P
        BY Widths
      <4> QED
        BY <3>1, <4>1, Doubling
    <3>4. L >= 1 * Pow2[M + e - 1]
      BY <2>4, <2>5, <3>1 DEF Binade
    <3> DEFINE p == Pow2[M - 1]
    <3>5. p \in Nat /\ K + 1 <= p
      BY <1>2, <2>1, <3>3
    <3>6. L >= p * One /\ L = K * One
      <4> HIDE DEF p
      <4>1. p * One \in Int
        BY <1>2, <3>5
      <4>2. p * One <= Pow2[M + e - 1]
        BY <3>2 DEF p
      <4> QED
        BY <2>4, <3>2, <3>4, <4>1, <4>2 DEF L
    <3> HIDE DEF p
    <3>7. (K + 1) * One <= p * One /\ (K + 1) * One = K * One + One /\ K * One \in Int /\ p * One \in Int
      BY <1>2, <2>1, <3>5
    <3> QED
      BY <1>2, <2>4, <3>6, <3>7
  <2>7. 2 * U <= One
    <3>1. e \in Nat /\ P <= 3 * P
      BY <2>3, <2>5
    <3> QED
      BY <2>3, <2>5, <2>6, <3>1, PowOrder
  <2>8. Abs(c) < 2 * One * Nanos
    <3> DEFINE A == Abs(c)
               W == Nanos * U
               N == Nanos * One
    <3>1. 2 * W <= N /\ W \in Nat /\ N \in Nat /\ N >= 1
      <4>1. Nanos * (2 * U) <= Nanos * One /\ Nanos * (2 * U) = 2 * (Nanos * U)
        BY <1>2, <2>5, <2>7
      <4>2. Nanos * U \in Nat /\ Nanos * One \in Nat /\ Nanos * 1 <= Nanos * One
        BY <1>2, <2>5
      <4> QED
        BY <1>2, <4>1, <4>2
    <3>2. Nanos * (One - 1) = N - Nanos /\ 2 * One * Nanos = 2 * N
      BY <1>2
    <3>3. 2 * A <= 3 * W + 2 * (N - Nanos)
      BY <2>2, <3>2
    <3>4. A \in Nat
      BY <1>5, <2>2 DEF Abs
    <3> HIDE DEF A, W, N
    <3>5. A < 2 * N
      BY <1>2, <3>1, <3>3, <3>4
    <3> QED
      BY <3>2, <3>5 DEF A
  <2>9. c = (s + Epoch) * One * Nanos + n * One - Exact(t) * Nanos
    BY <1>5, <2>2
  <2> QED
    BY <1>1, <1>4, <2>2, <2>8, <2>9 DEF s, n
<1> QED
  BY <1>3, <1>4

-----------------------------------------------------------------------------
(* A number at least half as large has at least half the spacing. *)
LEMMA HalfUlp ==
  ASSUME NEW m \in Int, NEW n \in Int, Abs(m) < Top, Abs(n) < Top, Abs(m) <= 2 * Abs(n)
  PROVE  Ulp(m, 1) <= 2 * Ulp(n, 1)
<1> DEFINE e == Exponent(m, 1)
           f == Exponent(n, 1)
<1>1. /\ Binade(m, 1, e) /\ Ulp(m, 1) = Pow2[e] /\ e \in 0..2 * P
      /\ Binade(n, 1, f) /\ Ulp(n, 1) = Pow2[f] /\ f \in 0..2 * P
  <2>1. Abs(m) < 1 * Top /\ Abs(n) < 1 * Top
    BY Powered
  <2> QED
    BY <2>1, UlpIs
<1> HIDE DEF e, f
<1>2. e <= f + 1
  <2> SUFFICES ASSUME f + 1 < e PROVE FALSE
    BY <1>1, Widths
  <2>1. /\ e # 0 /\ M + f \in Nat /\ M + e - 1 \in Nat /\ M + f < M + e - 1
        /\ M + e - 1 <= 3 * P
    BY <1>1, Widths
  <2>2. 2 * Pow2[M + f] <= Pow2[M + e - 1] /\ Pow2[M + f] \in Nat /\ Pow2[M + e - 1] \in Nat
    BY <2>1, PowOrder
  <2>3. Abs(m) >= 1 * Pow2[M + e - 1] /\ Abs(n) < 1 * Pow2[M + f]
    BY <1>1, <2>1 DEF Binade
  <2> QED
    BY <2>2, <2>3 DEF Abs
<1>3. f \in 0..3 * P /\ f \in Nat /\ e \in Nat /\ f <= 3 * P /\ Pow2[f] \in Nat \ {0}
  BY <1>1, Widths, Powered
<1>4. CASE e <= f
  <2>1. Pow2[e] <= Pow2[f] /\ Pow2[e] \in Nat
    BY <1>3, <1>4, PowOrder
  <2> QED
    BY <1>1, <1>3, <2>1
<1>5. CASE e = f + 1
  <2>1. e \in 1..3 * P /\ e - 1 = f
    BY <1>1, <1>3, <1>5, Widths
  <2>2. Pow2[e] = 2 * Pow2[f]
    BY <2>1, Doubling
  <2> QED
    BY ONLY <1>1, <1>3, <2>2
<1> QED
  BY <1>2, <1>3, <1>4, <1>5

(* x is a multiple of u. *)
Multiple(x, u) == \E k \in Int : x = k * u

(* The smaller of two spacings divides the other. *)
LEMMA UlpDivides ==
  ASSUME NEW m \in Int, NEW n \in Int, Abs(m) < Top, Abs(n) < Top, Ulp(m, 1) <= Ulp(n, 1)
  PROVE  Multiple(Ulp(n, 1), Ulp(m, 1))
<1> DEFINE e == Exponent(m, 1)
           f == Exponent(n, 1)
<1>1. /\ Ulp(m, 1) = Pow2[e] /\ e \in 0..2 * P
      /\ Ulp(n, 1) = Pow2[f] /\ f \in 0..2 * P
  <2>1. Abs(m) < 1 * Top /\ Abs(n) < 1 * Top
    BY Powered
  <2> QED
    BY <2>1, UlpIs
<1> HIDE DEF e, f
<1>2. e \in Nat /\ f \in Nat /\ e <= 3 * P /\ f <= 3 * P
  BY <1>1, Widths
<1>3. e <= f
  <2> SUFFICES ASSUME f < e PROVE FALSE
    BY <1>2
  <2>1. 2 * Pow2[f] <= Pow2[e] /\ Pow2[f] \in Nat \ {0} /\ Pow2[e] \in Nat
    BY <1>2, PowOrder
  <2> QED
    BY <1>1, <2>1
<1>4. \E q \in Nat \ {0} : Pow2[f] = q * Pow2[e]
  BY <1>2, <1>3, PowOrder
<1> QED
  BY <1>1, <1>4 DEF Multiple

(* A multiple of a multiple. *)
LEMMA MultipleOf ==
  ASSUME NEW x, NEW u \in Int, NEW v \in Int, Multiple(x, u), Multiple(u, v)
  PROVE  Multiple(x, v)
<1>1. PICK k \in Int, q \in Int : x = k * u /\ u = q * v
  BY DEF Multiple
<1>2. x = (k * q) * v /\ k * q \in Int
  BY <1>1
<1> QED
  BY <1>2 DEF Multiple

(* Multiples that are less than a step apart are equal. *)
LEMMA SameMultiple ==
  ASSUME NEW x, NEW y, NEW u \in Nat \ {0}, Multiple(x, u), Multiple(y, u),
         x - y < u, y - x < u
  PROVE  x = y
<1>1. PICK i \in Int, j \in Int : x = i * u /\ y = j * u
  BY DEF Multiple
<1>2. i + 1 <= j => x + u <= y
  BY <1>1
<1>3. j + 1 <= i => y + u <= x
  BY <1>1
<1>4. x \in Int /\ y \in Int
  BY <1>1
<1>5. ~(i + 1 <= j) /\ ~(j + 1 <= i)
  BY <1>2, <1>3, <1>4
<1>6. i = j
  BY <1>5
<1> QED
  BY <1>1, <1>6

(* What F64 returns is a multiple of its own spacing. *)
LEMMA DoubleIs ==
  ASSUME NEW n \in Nat, n < Top, F64(n) >= 0, F64(n) < Top
  PROVE  Multiple(F64(n), Ulp(F64(n), 1))
<1> DEFINE x == F64(n)
           u == Ulp(n, 1)
           v == Ulp(x, 1)
<1>1. Abs(n) = n /\ Abs(n) < Top
  BY DEF Abs
<1>2. /\ x \in Int /\ x = Nearest(n, u) * u /\ Nearest(n, u) \in Int
      /\ \A c \in Int : Abs(x - n) <= Abs(c * u - n)
  <2>1. u \in Nat \ {0}
    <3>1. Abs(n) < 1 * Top
      BY <1>1, Powered
    <3> QED
      BY <3>1, UlpIs
  <2>2. n \in Int
    OBVIOUS
  <2>3. Nearest(n, u) \in Int
    BY ONLY <2>1, <2>2, NearestIs, Zenon
  <2> QED
    BY ONLY <1>1, <2>2, <2>3, F64Is, Zenon
<1> HIDE DEF x
<1>3. x \in Nat /\ x < Top /\ Abs(x) = x
  BY <1>2 DEF x, Abs
<1>4. /\ u \in Nat \ {0} /\ u = Pow2[Exponent(n, 1)] /\ Exponent(n, 1) \in 0..2 * P
      /\ v \in Nat \ {0} /\ v = Pow2[Exponent(x, 1)] /\ Exponent(x, 1) \in 0..2 * P
  <2>1. Abs(n) < 1 * Top /\ Abs(x) < 1 * Top
    BY <1>1, <1>3, Powered
  <2> QED
    BY <1>3, <2>1, UlpIs
<1>5. CASE v <= u
  <2>1. Multiple(u, v)
    BY <1>1, <1>3, <1>5, UlpDivides
  <2> HIDE DEF u, v
  <2>2. Multiple(x, u) /\ Multiple(u, v) /\ u \in Int /\ v \in Int
    BY <1>2, <1>4, <2>1 DEF Multiple
  <2>3. Multiple(x, v)
    BY ONLY <2>2, MultipleOf, Zenon
  <2> QED
    BY <2>3 DEF x, v
<1>6. CASE u < v
  <2>1. Exponent(n, 1) < Exponent(x, 1)
    <3> DEFINE e == Exponent(n, 1)
               f == Exponent(x, 1)
    <3> SUFFICES ASSUME ~(e < f) PROVE FALSE
      OBVIOUS
    <3>1. e \in 0..2 * P /\ f \in 0..2 * P /\ u = Pow2[e] /\ v = Pow2[f]
      BY <1>4
    <3> HIDE DEF e, f
    <3>2. f \in Nat /\ e \in Nat /\ f <= e /\ e <= 3 * P
      BY <3>1, Widths
    <3>3. Pow2[f] <= Pow2[e]
      BY <3>2, PowOrder
    <3> QED
      BY <1>4, <1>6, <3>1, <3>3
  <2>2. PICK b \in Nat \ {0} : /\ Abs(n) < b /\ b <= Abs(x)
                               /\ Multiple(b, u)
                               /\ Multiple(b, v)
    BY <1>1, <1>3, <2>1, Boundary DEF Multiple
  <2>3. Abs(x - n) <= Abs(b - n)
    BY <1>2, <2>2 DEF Multiple
  <2> HIDE DEF u, v
  <2>4. x = b
    BY <1>1, <1>3, <2>2, <2>3 DEF Abs
  <2> QED
    BY <2>2, <2>4 DEF x, v
<1> QED
  <2> HIDE DEF u, v
  <2> QED
    BY <1>4, <1>5, <1>6

(* A double is what any number less than a quarter of a step away rounds to. *)
LEMMA RoundsTo ==
  ASSUME NEW x \in Nat, NEW y \in Nat, x < Top, y < Top,
         Multiple(x, Ulp(x, 1)),
         4 * (x - y) < Ulp(x, 1), 4 * (y - x) < Ulp(x, 1)
  PROVE  F64(y) = x
<1> DEFINE z == F64(y)
           u == Ulp(x, 1)
           v == Ulp(y, 1)
<1>1. Abs(x) = x /\ Abs(y) = y /\ Abs(x) < Top /\ Abs(y) < Top
  BY DEF Abs
<1>2. u \in Nat \ {0} /\ v \in Nat \ {0}
  <2>1. Abs(x) < 1 * Top /\ Abs(y) < 1 * Top
    BY <1>1, Powered
  <2> QED
    BY <2>1, UlpIs
<1>3. /\ z \in Int /\ z = Nearest(y, v) * v /\ Nearest(y, v) \in Int
      /\ \A c \in Int : Abs(z - y) <= Abs(c * v - y)
  <2>1. Nearest(y, v) \in Int
    BY ONLY y \in Int, <1>2, NearestIs, Zenon
  <2> QED
    BY ONLY y \in Int, <1>1, <2>1, F64Is, Zenon
<1>4. u <= 2 * v
  <2>1. x <= 2 * y
    <3>1. PICK k \in Int : x = k * u
      BY DEF Multiple
    <3> HIDE DEF u
    <3>2. k <= 0 => x <= 0
      BY <1>2, <3>1
    <3>3. k >= 1 => x >= u
      BY <1>2, <3>1
    <3> QED
      BY <1>2, <3>1, <3>2, <3>3 DEF u
  <2> QED
    BY <1>1, <2>1, HalfUlp
<1>5. v <= u
  <2>1. CASE y <= x
    <3>1. Abs(y) <= 1 * Abs(x)
      BY <1>1, <2>1
    <3> QED
      BY <1>1, <3>1, UlpOrder
  <2>2. CASE x < y
    <3>1. CASE Exponent(x, 1) < Exponent(y, 1)
      <4>1. PICK b \in Nat \ {0} : x < b /\ b <= y /\ Multiple(b, u)
        BY <1>1, <3>1, Boundary DEF Multiple
      <4> HIDE DEF u, v
      <4>2. b - x < u /\ x - b < u
        BY <1>2, <4>1 DEF u
      <4>3. Multiple(x, u)
        BY DEF u
      <4>4. x = b
        BY ONLY <1>2, <4>1, <4>2, <4>3, SameMultiple, Zenon
      <4> QED
        BY <4>1, <4>4
    <3>2. CASE ~(Exponent(x, 1) < Exponent(y, 1))
      <4> DEFINE e == Exponent(x, 1)
                 f == Exponent(y, 1)
      <4>1. u = Pow2[e] /\ v = Pow2[f] /\ e \in 0..2 * P /\ f \in 0..2 * P
        <5>1. Abs(x) < 1 * Top /\ Abs(y) < 1 * Top
          BY <1>1, Powered
        <5> QED
          BY <5>1, UlpIs
      <4>2. ~(e < f)
        BY <3>2
      <4> HIDE DEF e, f, u, v
      <4>3. e \in Nat /\ f \in Nat /\ f <= e /\ e <= 3 * P
        BY <4>1, <4>2, Widths
      <4> QED
        BY <4>1, <4>3, PowOrder
    <3> QED
      BY <3>1, <3>2
  <2> QED
    BY <2>1, <2>2
<1>6. Multiple(x, v)
  <2>1. Multiple(u, v)
    BY <1>1, <1>5, UlpDivides
  <2>2. Multiple(x, u) /\ Multiple(u, v) /\ u \in Int /\ v \in Int
    BY <1>2, <2>1
  <2> HIDE DEF u, v
  <2> QED
    BY ONLY <2>2, MultipleOf, Zenon
<1>7. Abs(z - y) <= Abs(x - y)
  BY <1>3, <1>6 DEF Multiple
<1>8. 4 * (x - y) < u /\ 4 * (y - x) < u
  OBVIOUS
<1> HIDE DEF u, v, z
<1>9. z - x < v /\ x - z < v
  BY <1>2, <1>3, <1>4, <1>7, <1>8 DEF Abs
<1>10. Multiple(z, v)
  BY <1>3 DEF Multiple
<1>11. z = x
  BY ONLY <1>2, <1>6, <1>9, <1>10, SameMultiple, Zenon
<1> QED
  BY <1>11 DEF z

(* A sum that comes near a double comes back to it, if it is of two doubles one *)
(* of which has been rounded before.                                            *)
LEMMA ViaUnix ==
  ASSUME NEW x \in Nat, NEW E \in Nat, NEW p \in Nat, x < Top, p <= x,
         Multiple(x, Ulp(x, 1)), Multiple(E, Ulp(x, 1)),
         8 * (p + E - x) < Ulp(x, 1), 8 * (x - (p + E)) < Ulp(x, 1),
         0 < x, 2 * x <= Top
  PROVE  F64(F64(p) + E) = x
<1> DEFINE D == x - E
           z == F64(p)
           u == Ulp(x, 1)
           v == Ulp(p, 1)
<1>1. Abs(x) = x /\ Abs(p) = p /\ Abs(x) < Top /\ Abs(p) < Top /\ Abs(p) <= 1 * Abs(x)
        /\ Top \in Nat
  BY Powered DEF Abs
<1>2. u \in Nat \ {0} /\ v \in Nat \ {0} /\ v <= u
  <2>1. Abs(x) < 1 * Top /\ Abs(p) < 1 * Top
    BY <1>1, Powered
  <2> QED
    BY <1>1, <2>1, UlpIs, UlpOrder
<1>3. z \in Int /\ \A c \in Int : Abs(z - p) <= Abs(c * v - p)
  BY <1>1, F64Is
<1>4. Multiple(D, u)
  <2>1. PICK i \in Int, j \in Int : x = i * u /\ E = j * u
    BY DEF Multiple
  <2>2. \A a, b, c \in Int : a * c - b * c = (a - b) * c
    OBVIOUS
  <2> HIDE DEF u
  <2>3. D = (i - j) * u /\ i - j \in Int
    BY ONLY <1>2, <2>1, <2>2, i \in Int, j \in Int DEF D
  <2> QED
    BY ONLY <2>3 DEF Multiple
<1>5. Multiple(D, v)
  <2>1. x \in Int /\ p \in Int /\ Ulp(p, 1) <= Ulp(x, 1)
    BY <1>2
  <2>2. Multiple(Ulp(x, 1), Ulp(p, 1))
    BY ONLY <1>1, <2>1, UlpDivides, Zenon
  <2>3. Multiple(u, v)
    BY <2>2
  <2>4. u \in Int /\ v \in Int
    BY <1>2
  <2> HIDE DEF u, v, D
  <2> QED
    BY ONLY <1>4, <2>3, <2>4, MultipleOf, Zenon
<1>6. Abs(z - p) <= Abs(D - p)
  BY <1>3, <1>5 DEF Multiple
<1>7. 8 * (p + E - x) < u /\ 8 * (x - (p + E)) < u /\ D = x - E /\ D \in Int
  OBVIOUS
<1> DEFINE y == z + E
<1> HIDE DEF u, v, D, z
<1>8. 4 * (x - y) < u /\ 4 * (y - x) < u /\ y \in Int
  BY <1>2, <1>3, <1>6, <1>7 DEF Abs
<1>9. y \in Nat /\ y < Top
  <2>1. u <= x
    <3>1. PICK k \in Int : x = k * u
      BY DEF u, Multiple
    <3>2. k <= 0 => x <= 0
      BY <1>2, <3>1
    <3>3. k >= 1 => x >= u
      BY <1>2, <3>1
    <3> QED
      BY <1>2, <3>1, <3>2, <3>3
  <2> HIDE DEF y
  <2> QED
    BY <1>1, <1>2, <1>8, <2>1
<1> HIDE DEF y
<1>10. F64(y) = x
  <2>1. 4 * (x - y) < Ulp(x, 1) /\ 4 * (y - x) < Ulp(x, 1)
    BY <1>8 DEF u
  <2> QED
    BY <1>9, <2>1, RoundsTo
<1> QED
  BY <1>10 DEF y, z

(* The spacing of doubles at a timestamp that chrono can hold, if it is several *)
(* nanoseconds: it divides a second, and the unit of fractions divides it.      *)
LEMMA LateDates ==
  ASSUME NEW t \in Time, t.seconds >= 0, 2 * (t.seconds + 2) <= Pow2[M],
         Ulp(Exact(t), 1) * Nanos >= 12 * One
  PROVE  LET u == Ulp(Exact(t), 1) IN
         /\ Exact(t) \in Nat /\ Exact(t) < Top /\ 2 * Exact(t) <= Top
         /\ u \in Nat \ {0} /\ Tick < u /\ 2 * u <= One
         /\ Multiple(u, Tick) /\ Multiple(One, u)
         /\ \E j \in 0..2 * P - 1 : u = Pow2[j]
         /\ Exact(t) < Pow2[M] * u
<1> DEFINE s == t.seconds
           r == t.fractions * Tick
           x == Exact(t)
           e == Exponent(x, 1)
           u == Ulp(x, 1)
           w == Pow2[M]
<1>1. r \in 0..One - 1 /\ x = s * One + r
  BY SubSeconds DEF Exact
<1>2. s \in Nat /\ One \in Nat \ {0} /\ w \in Nat \ {0} /\ 2 * (s + 2) <= w
  <2>1. I64 \subseteq Int
    BY Second DEF I64
  <2>2. s \in Int
    BY <2>1 DEF Time
  <2> QED
    BY <2>2, Second
<1>3. Pow2[M + P] = w * One /\ Pow2[M + P] <= Top
  <2>1. M \in Nat /\ P \in Nat /\ M + P <= 3 * P /\ M + 2 * P \in Nat /\ M + P <= M + 2 * P
          /\ M + 2 * P <= 3 * P /\ M + P \in Nat
    BY Widths
  <2> QED
    BY <2>1, PowSum, PowOrder DEF One, Top
<1> HIDE DEF x, r, s, w
<1>4. x \in Nat /\ 2 * x < w * One
  <2>1. s * One \in Nat /\ (s + 1) * One = s * One + One
    BY <1>2
  <2>2. (2 * (s + 1)) * One <= w * One /\ (2 * (s + 1)) * One = 2 * ((s + 1) * One)
    BY <1>2
  <2>3. w * One \in Nat
    BY <1>2
  <2> QED
    BY <1>1, <1>2, <2>1, <2>2, <2>3
<1>5. x < Top /\ 2 * x <= Top /\ Abs(x) = x /\ Abs(x) < 1 * Top /\ Top \in Nat
  <2>1. w * One \in Nat
    BY <1>2
  <2> QED
    BY <1>3, <1>4, <2>1, Powered DEF Abs
<1>6. Binade(x, 1, e) /\ u = Pow2[e] /\ e \in 0..2 * P /\ u \in Nat \ {0}
  BY <1>4, <1>5, UlpIs
<1> HIDE DEF e, u
<1>7. e < P
  <2> SUFFICES ASSUME P <= e PROVE FALSE
    BY <1>6, Widths
  <2> DEFINE k == M + e - 1
  <2>1. e # 0 /\ M + P \in Nat /\ M + e \in Nat /\ M + P <= M + e /\ M + e <= 3 * P
          /\ e \in 1..2 * P
    BY <1>6, Widths
  <2>2. Pow2[M + P] <= Pow2[M + e]
    BY <2>1, PowOrder
  <2>3. Pow2[M + e] = 2 * Pow2[k] /\ Pow2[k] \in Nat
    BY <2>1, Powered
  <2>4. x >= 1 * Pow2[k]
    BY <1>5, <1>6, <2>1 DEF Binade
  <2> HIDE DEF k
  <2>5. w * One <= 2 * Pow2[k] /\ w * One \in Nat
    BY <1>2, <1>3, <2>2, <2>3
  <2> QED
    BY <1>4, <2>3, <2>4, <2>5
<1>8. 2 * u <= One /\ Multiple(One, u)
  <2>1. e \in Nat /\ P \in Nat /\ P <= 3 * P /\ e <= P
    BY <1>6, <1>7, Widths
  <2>2. 2 * Pow2[e] <= Pow2[P] /\ \E q \in Nat \ {0} : Pow2[P] = q * Pow2[e]
    BY <1>7, <2>1, PowOrder
  <2> QED
    BY <1>6, <2>2 DEF Multiple, One
<1>9. Tick < u
  <2> SUFFICES ASSUME u <= Tick PROVE FALSE
    BY <1>6, Second
  <2>1. Tick \in Nat \ {0} /\ Word \in Nat /\ 2 * w <= Word /\ One = Word * Tick
          /\ Nanos \in Nat /\ Nanos < w
    BY Second, Dates DEF w
  <2>2. (2 * w) * Tick <= Word * Tick /\ (2 * w) * Tick = 2 * (w * Tick)
    BY <1>2, <2>1
  <2>3. u * Nanos <= Tick * Nanos /\ Tick * Nanos <= Tick * w /\ Tick * w = w * Tick
    BY <1>2, <1>6, <2>1
  <2>4. u * Nanos \in Nat /\ Tick * Nanos \in Nat /\ w * Tick \in Nat
    BY <1>2, <1>6, <2>1
  <2>5. u * Nanos >= 12 * One
    BY DEF u, x
  <2> QED
    BY <1>2, <2>1, <2>2, <2>3, <2>4, <2>5
<1>10. Multiple(u, Tick)
  <2> DEFINE k == P - B
  <2>1. k \in Nat /\ e \in Nat /\ e <= 3 * P /\ k <= 3 * P
    BY <1>6, Widths
  <2>2. k <= e
    <3> SUFFICES ASSUME e < k PROVE FALSE
      BY <2>1
    <3>1. Pow2[e] <= Pow2[k]
      BY <2>1, PowOrder
    <3> QED
      BY <1>6, <1>9, <3>1, Second DEF Tick
  <2>3. \E q \in Nat \ {0} : Pow2[e] = q * Pow2[k]
    BY <2>1, <2>2, PowOrder
  <2> QED
    BY <1>6, <2>3 DEF Multiple, Tick
<1>11. e \in 0..2 * P - 1
  BY <1>6, <1>7, Widths
<1>12. x < w * u
  <2>1. x < 1 * Pow2[M + e]
    BY <1>5, <1>6 DEF Binade
  <2>2. M \in Nat /\ e \in Nat /\ M + e <= 3 * P
    BY <1>6, Widths
  <2>3. Pow2[M + e] = w * u
    BY <1>6, <2>2, PowSum DEF w
  <2>4. w * u \in Nat
    BY <1>2, <1>6
  <2> QED
    BY <1>4, <2>1, <2>3, <2>4
<1> QED
  BY <1>4, <1>5, <1>6, <1>8, <1>9, <1>10, <1>11, <1>12 DEF x, u, w

(* If it comes from a double, it is that double. *)
LEMMA LateDouble ==
  ASSUME NEW t \in Time, t.seconds >= 0, 2 * (t.seconds + 2) <= Pow2[M],
         Ulp(Exact(t), 1) * Nanos >= 12 * One,
         from_lv_epoch(to_lv_epoch(t)) = t
  PROVE  /\ to_lv_epoch(t) = Exact(t)
         /\ Multiple(Exact(t), Ulp(Exact(t), 1))
<1> DEFINE s == t.seconds
           x == to_lv_epoch(t)
           y == s * One + sub_seconds(t)
           X == Exact(t)
           u == Ulp(X, 1)
           v == Ulp(x, 1)
           h == Word \div 2
<1>1. /\ X \in Nat /\ X < Top /\ 2 * X <= Top /\ u \in Nat \ {0} /\ Tick < u /\ Multiple(u, Tick)
  BY LateDates
<1>2. /\ s \in Nat /\ One \in Nat \ {0} /\ Pow2[M] \in Nat \ {0} /\ 2 * Pow2[M] <= Word
      /\ h \in Nat /\ 2 * h = Word /\ 2 * (s + 2) <= Pow2[M] /\ Tick \in Nat \ {0}
  <2>1. I64 \subseteq Int
    BY Second DEF I64
  <2>2. s \in Int
    BY <2>1 DEF Time
  <2> QED
    BY <2>2, Second
<1>3. /\ x = F64(y) /\ x \in Int /\ y \in Int /\ Abs(y) < Top
      /\ s * One <= x /\ x <= s * One + One
  <2>1. s \in -Pow2[M]..Pow2[M] - 1
    BY <1>2
  <2> QED
    BY <2>1, ToLvEpoch
<1>4. sub_seconds(t) \in 0..One
  BY SubSeconds
<1>5. y \in Nat /\ y < Top
  <2>1. s * One \in Nat
    BY <1>2
  <2> HIDE DEF s
  <2> QED
    BY <1>2, <1>3, <1>4, <2>1 DEF Abs
<1> HIDE DEF y, s
<1>6. x \in Nat /\ x < Top
  <2>1. s * One \in Nat /\ (s + 1) * One = s * One + One
    BY <1>2
  <2>2. s + 1 \in Int /\ Abs(s) <= Pow2[M] /\ Abs(s + 1) <= Pow2[M] /\ P \in 0..2 * P - 1
    BY <1>2, Widths DEF Abs
  <2>3. Abs(x) < Top
    <3>1. s * Pow2[P] <= x /\ x <= (s + 1) * Pow2[P]
      BY <1>3, <2>1 DEF One
    <3> HIDE DEF x
    <3> QED
      BY <1>2, <1>3, <2>2, <3>1, F64Within
  <2> HIDE DEF x
  <2> QED
    BY <1>3, <2>1, <2>3 DEF Abs
<1>7. Multiple(x, v)
  BY <1>3, <1>5, <1>6, DoubleIs
<1>8. x - X \in 0..Tick - 1
  <2>1. Truncated(x) \in Int /\ x - Truncated(x) * One \in 0..One - 1
    BY <1>6, TruncatedIs
  <2> DEFINE q == Truncated(x)
  <2> HIDE DEF q, x
  <2>2. q \in 0..s + 1
    <3>1. q <= -1 => q * One <= (-1) * One
      BY <1>2, <2>1 DEF q
    <3>2. s + 2 <= q => (s + 2) * One <= q * One
      BY <1>2, <2>1 DEF q
    <3>3. (-1) * One = -One /\ (s + 2) * One = s * One + 2 * One /\ s * One \in Nat /\ q * One \in Int
      BY <1>2, <2>1 DEF q
    <3>4. x - q * One \in 0..One - 1
      BY <2>1 DEF q
    <3> QED
      BY <1>2, <1>3, <1>6, <2>1, <3>1, <3>2, <3>3, <3>4 DEF q
  <2>3. q \in I64
    <3> HIDE DEF h
    <3>1. q \in (-h)..(h - 1)
      BY <1>2, <2>2
    <3> QED
      BY <3>1 DEF I64, h
  <2>4. x - Exact(from_lv_epoch(x)) \in 0..Tick - 1
    <3>1. Truncated(x) \in I64 /\ x \in Int /\ x >= 0
      BY <1>6, <2>3 DEF q
    <3>2. x - Exact(from_lv_epoch(x)) \in IF x >= 0 THEN 0..Tick - 1 ELSE (1 - One)..0
      BY ONLY <3>1, FromLvEpoch, Zenon
    <3> QED
      BY ONLY <3>1, <3>2
  <2> QED
    BY <2>4 DEF x
<1> HIDE DEF x, X, h
<1>9. u <= v
  <2>1. Abs(X) <= 1 * Abs(x) /\ Abs(x) < Top
    BY <1>1, <1>2, <1>6, <1>8 DEF Abs
  <2> QED
    BY <1>1, <1>6, <2>1, UlpOrder
<1>10. Multiple(v, u)
  <2>1. Abs(X) < Top /\ Abs(x) < Top
    BY <1>1, <1>6 DEF Abs
  <2>2. X \in Int /\ x \in Int
    BY <1>1, <1>6
  <2>3. Ulp(X, 1) <= Ulp(x, 1)
    BY <1>9
  <2>4. Multiple(Ulp(x, 1), Ulp(X, 1))
    BY ONLY <2>1, <2>2, <2>3, UlpDivides, Zenon
  <2> QED
    BY <2>4
<1>11. v \in Nat \ {0}
  <2>1. Abs(x) < 1 * Top
    BY <1>6, Powered DEF Abs
  <2> QED
    BY <1>6, <2>1, UlpIs
<1> HIDE DEF u, v
<1>12. Multiple(x, u)
  <2>1. u \in Int /\ v \in Int
    BY <1>1, <1>11
  <2> QED
    BY ONLY <1>7, <1>10, <2>1, MultipleOf, Zenon
<1>13. Multiple(x, Tick)
  <2>1. u \in Int /\ Tick \in Int
    BY <1>1, <1>2
  <2> QED
    BY ONLY <1>1, <1>12, <2>1, MultipleOf, Zenon
<1>14. Multiple(X, Tick)
  <2> DEFINE f == t.fractions
  <2>1. f \in Int
    BY Second DEF Time
  <2>2. X = s * One + f * Tick /\ One = Word * Tick
    BY Second DEF X, Exact, s
  <2> HIDE DEF f
  <2>3. s * (Word * Tick) + f * Tick = (s * Word + f) * Tick /\ s * Word + f \in Int
    <3>1. \A a, b, c, d \in Int : a * (b * c) + d * c = (a * b + d) * c /\ a * b + d \in Int
      OBVIOUS
    <3> QED
      BY <1>2, <2>1, <3>1, Second
  <2> QED
    BY ONLY <2>2, <2>3 DEF Multiple
<1>15. x = X
  <2>1. x - X < Tick /\ X - x < Tick
    BY <1>1, <1>2, <1>6, <1>8
  <2> QED
    BY ONLY <1>2, <1>13, <1>14, <2>1, SameMultiple, Zenon
<1> QED
  BY <1>12, <1>15 DEF x, X, u

(* A part of a second, cut to nanoseconds: it stays below a second, and within *)
(* one nanosecond.                                                             *)
LEMMA ToNanos ==
  ASSUME NEW r \in Nat, NEW u \in Nat \ {0}, r + u <= One, u * Nanos >= 12 * One
  PROVE  LET n == F64(r * Nanos) \div One IN
         /\ n \in 0..Nanos - 1
         /\ n * One - r * Nanos <= One /\ r * Nanos - n * One <= One
<1> DEFINE v == r * Nanos
           m == v \div One
           V == F64(v)
           n == V \div One
           w == Pow2[M]
<1>1. One \in Nat \ {0} /\ Nanos \in Nat \ {0} /\ Nanos < w /\ w \in Nat
  BY Second, Dates
<1>2. v \in Nat /\ v <= (Nanos - 12) * One
  <2>1. r * Nanos <= (One - u) * Nanos /\ (One - u) * Nanos = One * Nanos - u * Nanos
    BY <1>1
  <2>2. (Nanos - 12) * One = One * Nanos - 12 * One
    BY <1>1
  <2>3. r * Nanos \in Nat /\ One * Nanos \in Nat /\ u * Nanos \in Nat
    BY <1>1
  <2> QED
    BY <1>1, <2>1, <2>2, <2>3
<1> HIDE DEF v, w
<1>3. \A x \in Int, y \in Nat : y > 0 =>
        /\ x \div y \in Int /\ x % y \in 0..(y - 1)
        /\ x = y * (x \div y) + (x % y)
  OBVIOUS
<1>4. m \in Int /\ m * One <= v /\ v < m * One + One
  <2>1. m \in Int /\ v % One \in 0..(One - 1) /\ v = One * m + (v % One)
    BY ONLY <1>1, <1>2, <1>3
  <2> HIDE DEF m
  <2>2. One * m = m * One /\ m * One \in Int
    BY <1>1, <2>1
  <2> QED
    BY <1>1, <2>1, <2>2
<1> HIDE DEF m
<1>5. m \in 0..Nanos - 12
  <2>1. Nanos - 11 <= m => (Nanos - 11) * One <= m * One
    BY <1>1, <1>4
  <2>2. m <= -1 => m * One <= (-1) * One
    BY <1>1, <1>4
  <2>3. /\ (Nanos - 11) * One = (Nanos - 12) * One + One /\ (-1) * One = -One
        /\ (Nanos - 12) * One \in Int /\ m * One \in Int
    BY <1>1, <1>4
  <2> QED
    BY <1>1, <1>2, <1>4, <2>1, <2>2, <2>3
<1>6. V \in Int /\ m * One <= V /\ V <= m * One + One
  <2>1. Abs(m) <= w /\ Abs(m + 1) <= w /\ P \in 0..2 * P - 1 /\ m + 1 \in Int
    BY <1>1, <1>5, Widths DEF Abs
  <2>2. (m + 1) * One = m * One + One /\ m * One \in Int
    BY <1>1, <1>4
  <2>3. m * Pow2[P] <= v /\ v <= (m + 1) * Pow2[P]
    BY <1>1, <1>2, <1>4, <2>2 DEF One
  <2>4. V \in Int /\ m * Pow2[P] <= V /\ V <= (m + 1) * Pow2[P]
    BY <1>2, <1>4, <2>1, <2>3, F64Within DEF w
  <2> QED
    BY ONLY <2>2, <2>4 DEF One
<1> HIDE DEF V
<1>7. n \in Int /\ n * One <= V /\ V < n * One + One
  <2>1. n \in Int /\ V % One \in 0..(One - 1) /\ V = One * n + (V % One)
    BY ONLY <1>1, <1>3, <1>6
  <2> HIDE DEF n
  <2>2. One * n = n * One /\ n * One \in Int
    BY <1>1, <2>1
  <2> QED
    BY <1>1, <1>6, <2>1, <2>2
<1> HIDE DEF n
<1>8. n \in m..m + 1
  <2>1. n + 1 <= m => (n + 1) * One <= m * One
    BY <1>1, <1>4, <1>7
  <2>2. m + 2 <= n => (m + 2) * One <= n * One
    BY <1>1, <1>4, <1>7
  <2>3. /\ (n + 1) * One = n * One + One /\ (m + 2) * One = m * One + 2 * One
        /\ n * One \in Int /\ m * One \in Int
    BY <1>1, <1>4, <1>7
  <2> QED
    BY <1>1, <1>4, <1>6, <1>7, <2>1, <2>2, <2>3
<1>9. n * One - v <= One /\ v - n * One <= One
  <2>1. n = m \/ n = m + 1
    BY <1>5, <1>8
  <2>2. (m + 1) * One = m * One + One /\ m * One \in Int
    BY <1>1, <1>4
  <2> QED
    BY <1>1, <1>2, <1>4, <2>1, <2>2
<1>10. n \in 0..Nanos - 1
  BY <1>1, <1>5, <1>8
<1> QED
  BY <1>9, <1>10 DEF n, v, V

(* Nanoseconds become a double to half a nanosecond. *)
LEMMA FromNanos ==
  ASSUME NEW n \in 0..Nanos - 1
  PROVE  LET q == Rounded(n * One, Nanos) IN
         /\ q \in Nat
         /\ 2 * (n * One - Nanos * q) < One /\ 2 * (Nanos * q - n * One) < One
<1> DEFINE m == n * One
           q == Rounded(m, Nanos)
           e == Exponent(m, Nanos)
           u == Ulp(m, Nanos)
           w == Pow2[M]
<1>1. /\ One \in Nat \ {0} /\ Nanos \in Nat \ {0} /\ Nanos < w /\ w \in Nat
      /\ n \in Nat /\ n < Nanos /\ n \in 0..2 * Nanos - 1 /\ Top \in Nat
  BY Second, Dates, Powered
<1>2. m \in Nat /\ m < Nanos * One /\ Abs(m) = m
  <2>1. n * One < Nanos * One /\ n * One \in Nat
    BY <1>1
  <2> QED
    BY <2>1 DEF Abs
<1>3. q \in Nat /\ Abs(m) < Nanos * Top
  <2>1. /\ q \in 0..2 * One
        /\ Abs(m) <= Nanos * Abs(2 * One) /\ Abs(2 * One) < Top
    BY <1>1, DatePart
  <2>2. Abs(m) < Nanos * Top
    <3>1. m \in Int /\ 2 * One \in Int /\ Nanos \in Nat \ {0}
      BY <1>1, <1>2
    <3> HIDE DEF m
    <3> QED
      BY ONLY <2>1, <3>1, UlpOrder, Zenon
  <2> HIDE DEF m, q
  <2> QED
    BY <1>1, <2>1, <2>2
<1>4. Binade(m, Nanos, e) /\ u = Pow2[e] /\ e \in 0..2 * P /\ u \in Nat \ {0}
  BY <1>1, <1>2, <1>3, UlpIs
<1>5. q \in Int /\ 2 * m - Nanos * u <= 2 * (Nanos * q) /\ 2 * (Nanos * q) <= 2 * m + Nanos * u
  BY <1>1, <1>2, <1>3, RoundedIs
<1> HIDE DEF m, q, e, u, w
<1>6. M + e <= P
  <2> SUFFICES ASSUME P < M + e PROVE FALSE
    BY <1>4, Widths
  <2>1. e # 0 /\ P \in Nat /\ M + e - 1 \in Nat /\ P <= M + e - 1 /\ M + e - 1 <= 3 * P
    BY <1>4, Widths
  <2> DEFINE y == Pow2[M + e - 1]
  <2>2. One <= y /\ y \in Nat
    BY <2>1, PowOrder DEF One
  <2>3. m >= Nanos * y
    BY <1>2, <1>4, <2>1 DEF Binade
  <2> HIDE DEF y
  <2>4. Nanos * One <= Nanos * y /\ Nanos * One \in Nat /\ Nanos * y \in Nat
    BY <1>1, <2>2
  <2> QED
    BY <1>2, <2>3, <2>4
<1>7. Nanos * u < One
  <2>1. M \in Nat /\ e \in Nat /\ M + e \in Nat /\ M + e <= 3 * P /\ P \in Nat /\ P <= 3 * P
    BY <1>4, Widths
  <2>2. Pow2[M + e] = w * u /\ Pow2[M + e] <= One
    BY <1>4, <1>6, <2>1, PowSum, PowOrder DEF w, One
  <2>3. Nanos * u < w * u /\ Nanos * u \in Nat /\ w * u \in Nat
    BY <1>1, <1>4
  <2> QED
    BY <1>1, <2>2, <2>3
<1>8. 2 * (m - Nanos * q) < One /\ 2 * (Nanos * q - m) < One
  <2>1. Nanos * q \in Int /\ Nanos * u \in Int
    BY <1>1, <1>4, <1>5
  <2> QED
    BY <1>1, <1>2, <1>5, <1>7, <2>1
<1> QED
  BY <1>3, <1>8 DEF m, q

(* The part of a second of a double is a double, so sub_seconds keeps it. *)
LEMMA LateFraction ==
  ASSUME NEW t \in Time, t.seconds >= 0, 2 * (t.seconds + 2) <= Pow2[M],
         Ulp(Exact(t), 1) * Nanos >= 12 * One,
         Multiple(Exact(t), Ulp(Exact(t), 1))
  PROVE  LET r == t.fractions * Tick IN
         /\ r \in Nat /\ Exact(t) = t.seconds * One + r /\ sub_seconds(t) = r
         /\ r + Ulp(Exact(t), 1) <= One
<1> DEFINE s == t.seconds
           r == t.fractions * Tick
           x == Exact(t)
           u == Ulp(x, 1)
           w == Pow2[M]
<1>1. /\ x \in Nat /\ u \in Nat \ {0} /\ x < w * u /\ Multiple(One, u) /\ Multiple(x, u)
      /\ \E j \in 0..2 * P - 1 : u = Pow2[j]
  BY LateDates
<1>2. s \in Nat /\ One \in Nat \ {0} /\ w \in Nat
  <2>1. I64 \subseteq Int
    BY Second DEF I64
  <2>2. s \in Int
    BY <2>1 DEF Time
  <2> QED
    BY <2>2, Second
<1>3. r \in 0..One - 1 /\ x = s * One + r
  BY SubSeconds DEF Exact
<1>4. sub_seconds(t) = F64(r)
  BY DEF sub_seconds
<1> HIDE DEF x, u, r, s, w
<1>5. PICK i \in Int, q \in Int : x = i * u /\ One = q * u
  BY <1>1 DEF Multiple
<1> DEFINE c == i - s * q
<1>6. c \in Int /\ r = c * u
  <2>1. \A a, b, d, g \in Int : a * g - b * (d * g) = (a - b * d) * g /\ a - b * d \in Int
    OBVIOUS
  <2>2. i * u - s * (q * u) = c * u /\ c \in Int
    BY ONLY <1>1, <1>2, <2>1, i \in Int, q \in Int
  <2>3. s * One \in Int /\ r = x - s * One
    BY <1>1, <1>2, <1>3
  <2> QED
    BY ONLY <1>5, <2>2, <2>3
<1> HIDE DEF c
<1>7. c \in 0..w
  <2>1. c <= -1 => c * u <= (-1) * u
    BY <1>1, <1>6
  <2>2. w + 1 <= c => (w + 1) * u <= c * u
    BY <1>1, <1>2, <1>6
  <2>3. (-1) * u = -u /\ (w + 1) * u = w * u + u /\ w * u \in Int /\ c * u \in Int /\ s * One \in Nat
    BY <1>1, <1>2, <1>6
  <2>4. r \in Nat /\ r <= x
    BY <1>2, <1>3, <2>3
  <2> QED
    BY <1>1, <1>2, <1>6, <2>1, <2>2, <2>3, <2>4
<1>8. r + u <= One
  <2>1. q <= c => q * u <= c * u
    BY <1>1, <1>6
  <2>2. c + 1 <= q => (c + 1) * u <= q * u
    BY <1>1, <1>6
  <2>3. (c + 1) * u = c * u + u /\ c * u \in Int /\ q * u \in Int
    <3>1. \A a, g \in Int : (a + 1) * g = a * g + g /\ a * g \in Int
      OBVIOUS
    <3>2. u \in Int
      BY <1>1
    <3> QED
      BY ONLY <1>6, <3>1, <3>2, q \in Int
  <2>4. r < One
    BY <1>2, <1>3
  <2> QED
    BY <1>5, <1>6, <2>1, <2>2, <2>3, <2>4
<1>9. F64(r) = r
  <2>1. PICK j \in 0..2 * P - 1 : u = Pow2[j]
    BY <1>1
  <2>2. Abs(c) <= w
    BY <1>2, <1>7 DEF Abs
  <2>3. F64(c * Pow2[j]) = c * Pow2[j]
    BY <1>6, <2>2, F64Exact DEF w
  <2> QED
    BY ONLY <1>6, <2>1, <2>3
<1> QED
  BY <1>2, <1>3, <1>4, <1>8, <1>9 DEF r, s, x, u

(* A part of a second that goes through nanoseconds comes back to an eighth of *)
(* a step, if a step is twelve nanoseconds.                                    *)
LEMMA ThroughNanos ==
  ASSUME NEW r \in Nat, NEW u \in Nat \ {0}, r + u <= One, u * Nanos >= 12 * One
  PROVE  LET n == F64(r * Nanos) \div One
             q == Rounded(n * One, Nanos)
         IN  /\ n \in 0..Nanos - 1 /\ q \in Nat
             /\ 8 * (q - r) < u /\ 8 * (r - q) < u
<1> DEFINE n == F64(r * Nanos) \div One
           q == Rounded(n * One, Nanos)
           a == n * One
           b == r * Nanos
           c == Nanos * q
<1>1. n \in 0..Nanos - 1 /\ a - b <= One /\ b - a <= One
  BY ToNanos
<1> HIDE DEF n
<1>2. q \in Nat /\ 2 * (a - c) < One /\ 2 * (c - a) < One
  BY <1>1, FromNanos
<1> HIDE DEF q
<1>3. Nanos \in Nat \ {0} /\ One \in Nat /\ a \in Int /\ b \in Int /\ c \in Int
  BY <1>1, <1>2, Second, Dates
<1>4. c - b = Nanos * (q - r)
  BY <1>2, <1>3
<1> DEFINE d == q - r
           g == u * Nanos
<1>5. g \in Nat /\ 12 * One <= g /\ d \in Int /\ Nanos * d = c - b
  BY <1>2, <1>3, <1>4
<1> HIDE DEF a, b, c, d, g
<1>6. 8 * (Nanos * d) < g /\ -(8 * (Nanos * d)) < g
  BY <1>1, <1>2, <1>3, <1>5
<1>7. u <= 8 * d => Nanos * u <= Nanos * (8 * d)
  BY <1>3, <1>5
<1>8. u <= -(8 * d) => Nanos * u <= Nanos * (-(8 * d))
  BY <1>3, <1>5
<1>9. Nanos * (8 * d) = 8 * (Nanos * d) /\ Nanos * (-(8 * d)) = -(8 * (Nanos * d)) /\ Nanos * u = g
        /\ Nanos * d \in Int
  BY <1>3, <1>5 DEF g
<1>10. ~(u <= 8 * d) /\ ~(u <= -(8 * d))
  BY <1>5, <1>6, <1>7, <1>8, <1>9
<1> QED
  BY <1>1, <1>2, <1>5, <1>10 DEF n, q, d

(* What ChronoRoundTrip says of one timestamp. *)
LEMMA RoundTrip ==
  ASSUME NEW t \in Time, try_from(t) # NoDate, UnixSeconds(t) >= 0,
         from_lv_epoch(to_lv_epoch(t)) = t,
         Ulp(Exact(t), 1) * Nanos >= 12 * One
  PROVE  from_chrono(try_from(t)) = t
<1> DEFINE s == t.seconds
           r == t.fractions * Tick
           x == Exact(t)
           u == Ulp(x, 1)
           E == Epoch * One
           h == s - Epoch
           n == F64(r * Nanos) \div One
           q == Rounded(n * One, Nanos)
           p == h * One + q
<1>1. s \in Int /\ s \in I64 /\ Epoch \in Nat \ {0} /\ One \in Nat \ {0} /\ ChronoMax \in Nat
      /\ Pow2[M] \in Nat /\ 2 * (ChronoMax + Epoch + 2) <= Pow2[M] /\ h = s - Epoch
  <2>1. I64 \subseteq Int
    BY Second DEF I64
  <2>2. s \in I64
    BY DEF Time
  <2> QED
    BY <2>1, <2>2, Second, Dates
<1>2. h \in Nat /\ ~Overflows(t)
  <2> DEFINE k == Word \div 2
  <2>1. k \in Nat /\ s \in (-k)..(k - 1) /\ h >= 0
    BY <1>1, Second DEF I64, UnixSeconds
  <2> HIDE DEF k, s
  <2>2. h \in (-k)..(k - 1)
    BY <1>1, <2>1
  <2>3. h \in I64 /\ h = UnixSeconds(t)
    BY <2>2 DEF I64, k, UnixSeconds, s
  <2> QED
    BY <1>1, <2>1, <2>3 DEF Overflows
<1>3. try_from(t) = [secs |-> h, nanos |-> nanoseconds(t)] /\ h <= ChronoMax
  <2>1. try_from(t) = from_timestamp(h, nanoseconds(t))
    BY <1>2 DEF try_from, UnixSeconds
  <2>2. InChrono(h) /\ try_from(t) = [secs |-> h, nanos |-> nanoseconds(t)]
    BY <2>1 DEF from_timestamp
  <2> QED
    BY <1>1, <2>2 DEF InChrono
<1>4. s >= 0 /\ 2 * (s + 2) <= Pow2[M]
  <2> HIDE DEF s
  <2> QED
    BY <1>1, <1>2, <1>3
<1>5. to_lv_epoch(t) = x /\ Multiple(x, u)
  BY <1>4, LateDouble
<1>6. /\ x \in Nat /\ x < Top /\ 2 * x <= Top /\ u \in Nat \ {0} /\ 2 * u <= One /\ Multiple(One, u)
  BY <1>4, LateDates
<1>7. /\ r \in Nat /\ x = s * One + r /\ sub_seconds(t) = r /\ r + u <= One
  BY <1>4, <1>5, LateFraction
<1>8. u * Nanos >= 12 * One
  OBVIOUS
<1>9. nanoseconds(t) = n
  BY <1>7 DEF nanoseconds
<1> HIDE DEF r, u
<1>10. n \in 0..Nanos - 1 /\ q \in Nat /\ 8 * (q - r) < u /\ 8 * (r - q) < u
  BY <1>6, <1>7, <1>8, ThroughNanos
<1> HIDE DEF n, q, x
<1>11. from_chrono(try_from(t)) = from_lv_epoch(F64(F64(F64(h * One) + q) + E))
  BY <1>3, <1>9 DEF from_chrono, from_unix_epoch, q
<1>12. F64(h * One) = h * One /\ h * One \in Nat
  <2>1. P \in 0..2 * P - 1 /\ Abs(h) <= Pow2[M] /\ h \in Int
    BY <1>1, <1>2, <1>3, Widths DEF Abs
  <2>2. F64(h * Pow2[P]) = h * Pow2[P]
    <3> HIDE DEF h
    <3> QED
      BY <2>1, F64Exact
  <2> HIDE DEF h
  <2> QED
    BY <1>1, <1>2, <2>2 DEF One
<1> HIDE DEF s
<1>13. E \in Nat /\ E >= One /\ h * One + E = s * One /\ s * One \in Int
  <2>1. (h + Epoch) * One = h * One + Epoch * One /\ h + Epoch = s
    <3>1. h \in Int /\ h + Epoch = s
      BY <1>1, <1>2
    <3> HIDE DEF h
    <3> QED
      BY <1>1, <3>1
  <2>2. Epoch * One >= 1 * One /\ Epoch * One \in Nat /\ s * One \in Int
    BY <1>1
  <2> QED
    BY <1>1, <2>1, <2>2
<1>14. Multiple(E, u)
  <2>1. Multiple(E, One)
    BY <1>1 DEF Multiple
  <2>2. u \in Int /\ One \in Int
    BY <1>1, <1>6
  <2> HIDE DEF E
  <2> QED
    BY ONLY <1>6, <2>1, <2>2, MultipleOf, Zenon
<1> HIDE DEF E, h
<1>15. /\ p \in Nat /\ p <= x /\ 0 < x
       /\ 8 * (p + E - x) < u /\ 8 * (x - (p + E)) < u
  <2> DEFINE y == h * One
             z == s * One
  <2>1. y \in Nat /\ z \in Int /\ y + E = z /\ x = z + r /\ p = y + q
    BY <1>7, <1>12, <1>13
  <2> HIDE DEF y, z, p
  <2> QED
    BY <1>1, <1>6, <1>7, <1>10, <1>13, <2>1
<1> HIDE DEF p
<1>16. F64(F64(p) + E) = x
  <2>1. Multiple(x, Ulp(x, 1)) /\ Multiple(E, Ulp(x, 1))
          /\ 8 * (p + E - x) < Ulp(x, 1) /\ 8 * (x - (p + E)) < Ulp(x, 1)
    BY <1>5, <1>14, <1>15 DEF u
  <2> QED
    BY ONLY <1>6, <1>13, <1>15, <2>1, ViaUnix, Zenon
<1>17. F64(h * One) + q = p
  BY <1>12 DEF p
<1>18. from_chrono(try_from(t)) = from_lv_epoch(x)
  BY ONLY <1>11, <1>16, <1>17
<1> QED
  BY ONLY <1>5, <1>18, from_lv_epoch(to_lv_epoch(t)) = t

-----------------------------------------------------------------------------
(* The inductive invariant: the terminal holds a timestamp, and the last *)
(* conversion is the one of what it is said to have converted.           *)
IInv ==
  /\ time \in Time
  /\ last.op = "from_lv_epoch" => last.x \in Int /\ time = from_lv_epoch(last.x)
  /\ last.op \in {"from_le_bytes", "to_le_bytes"} => to_le_bytes(time) = last.bytes
  /\ last.op \in {"from_be_bytes", "to_be_bytes"} => to_be_bytes(time) = last.bytes
  /\ last.op = "try_from" => /\ last.date = try_from(time)
                             /\ last.ok <=> try_from(time) # NoDate
  /\ last.op = "from_chrono" => last.date \in Date /\ time = from_chrono(last.date)

(* A double from 1970 stays within what F64 is about. *)
LEMMA FromUnixEpoch ==
  ASSUME NEW x \in (-Word * One)..(Word * One)
  PROVE  from_unix_epoch(x) \in Time
<1> DEFINE E == Epoch * One
           y == x + E
           Q == Pow2[2 * P]
<1>1. /\ One \in Nat \ {0} /\ Word \in Nat \ {0} /\ Epoch \in Nat \ {0} /\ Pow2[M] \in Nat \ {0}
      /\ Epoch < Pow2[M]
  BY Second, Dates
<1>2. /\ B + P <= 2 * P /\ M + P <= 2 * P /\ 2 * P <= 3 * P /\ B + P \in Nat /\ M + P \in Nat
      /\ 2 * P \in Nat /\ 2 * P < M + 2 * P /\ M + 2 * P <= 3 * P /\ M + 2 * P \in Nat
      /\ B \in Nat /\ P \in Nat /\ M \in Nat /\ B + P <= 3 * P /\ M + P <= 3 * P
  BY Widths
<1>3. Pow2[B + P] = Word * One /\ Pow2[M + P] = Pow2[M] * One
  BY <1>2, PowSum DEF Word, One
<1>4. Pow2[B + P] <= Q /\ Pow2[M + P] <= Q /\ 2 * Q <= Top /\ Q \in Nat
  BY <1>2, PowOrder DEF Top
<1> HIDE DEF Q
<1>5. E \in Nat /\ E < Q
  <2>1. Epoch * One < Pow2[M] * One /\ Epoch * One \in Nat /\ Pow2[M] * One \in Nat
    BY <1>1
  <2> QED
    BY <1>3, <1>4, <2>1
<1>6. x \in Int /\ -Q <= x /\ x <= Q
  <2> DEFINE w == Word * One
  <2>1. w \in Nat /\ (-Word) * One = -w /\ -Word * One = -w
    BY <1>1
  <2>2. x \in Int /\ -w <= x /\ x <= w
    <3> HIDE DEF w
    <3>1. x \in (-w)..w
      BY <2>1 DEF w
    <3> QED
      BY <2>1, <3>1
  <2> HIDE DEF w
  <2>3. w <= Q
    BY <1>3, <1>4 DEF w
  <2> QED
    BY <1>4, <2>1, <2>2, <2>3
<1>7. y \in Int /\ Abs(y) < Top
  BY <1>4, <1>5, <1>6, Powered DEF Abs
<1>8. F64(y) \in Int
  <2> HIDE DEF y
  <2> QED
    BY <1>7, F64Is
<1> QED
  BY <1>8, FromLvEpoch DEF from_unix_epoch

LEMMA InitIInv == Init => IInv
BY DEF Init, IInv, NoCall

LEMMA StepIInv == IInv /\ [Next]_vars => IInv'
<1> SUFFICES ASSUME IInv, [Next]_vars
             PROVE  IInv'
  OBVIOUS
<1> USE DEF NoCall
<1>1. ASSUME NEW x \in Double, FromDouble(x)
      PROVE  IInv'
  <2>1. x \in (-Word * One)..(Word * One) /\ x \in Int
    <3>1. Word * One \in Int /\ -Word * One \in Int
      BY Second
    <3> QED
      BY <3>1 DEF Double
  <2>2. CASE From("from_lv_epoch", from_lv_epoch(x), [NoCall EXCEPT !.x = x])
    <3>1. from_lv_epoch(x) \in Time
      BY <2>1, FromLvEpoch
    <3> QED
      BY <2>1, <2>2, <3>1 DEF IInv, From
  <2>3. CASE From("from_unix_epoch", from_unix_epoch(x), [NoCall EXCEPT !.x = x])
    <3>1. from_unix_epoch(x) \in Time
      BY <2>1, FromUnixEpoch
    <3> QED
      BY <2>3, <3>1 DEF IInv, From
  <2> QED
    BY <1>1, <2>2, <2>3 DEF FromDouble
<1>2. ASSUME NEW b \in [1..2 * Bytes -> 0..Radix - 1], FromBytes(b)
      PROVE  IInv'
  <2>1. CASE From("from_le_bytes", from_le_bytes(b), [NoCall EXCEPT !.bytes = b])
    BY <2>1, FromLeBytes DEF IInv, From
  <2>2. CASE From("from_be_bytes", from_be_bytes(b), [NoCall EXCEPT !.bytes = b])
    BY <2>2, FromBeBytes DEF IInv, From
  <2> QED
    BY <1>2, <2>1, <2>2 DEF FromBytes
<1>3. ASSUME NEW d \in Date, FromChrono(d)
      PROVE  IInv'
  <2>1. from_chrono(d) \in Time
    BY FromChronoNear
  <2> QED
    BY <1>3, <2>1 DEF IInv, FromChrono, From
<1>4. CASE ToDouble
  BY <1>4 DEF IInv, ToDouble, To
<1>5. CASE ToBytes
  BY <1>5 DEF IInv, ToBytes, To
<1>6. CASE ToChrono
  BY <1>6 DEF IInv, ToChrono, To
<1>7. CASE PassOn
  BY <1>7 DEF IInv, PassOn
<1>8. CASE UNCHANGED vars
  BY <1>8 DEF IInv, vars
<1> QED
  BY <1>1, <1>2, <1>3, <1>4, <1>5, <1>6, <1>7, <1>8 DEF Next

LEMMA Invariance == Spec => []IInv
BY InitIInv, StepIInv, PTL DEF Spec

-----------------------------------------------------------------------------
(* from_lv_epoch keeps every double in its range up to the part below the unit *)
(* of fractions, and before 1904 up to the second.                             *)
THEOREM EpochIsNear == Spec => []FromEpochIsNear
<1>1. IInv => FromEpochIsNear
  BY FromLvEpoch DEF IInv, FromEpochIsNear
<1> QED
  BY <1>1, Invariance, PTL

(* to_lv_epoch never reverses the order of two instants, and is within a step of *)
(* the doubles, for all seconds that a double can count.                         *)
THEOREM EpochIsMonotone == Spec => []ToEpochIsMonotone
<1>1. IInv => ToEpochIsMonotone
  BY ToEpochMonotone DEF IInv, ToEpochIsMonotone
<1> QED
  BY <1>1, Invariance, PTL

(* A timestamp read in one byte order is written back as the bytes it was read *)
(* from, and in the other order as the reverse of them.                        *)
THEOREM BytesComeBack == Spec => []ByteOrdersAgree
<1>1. IInv => ByteOrdersAgree
  BY OrdersReverse DEF IInv, ByteOrdersAgree
<1> QED
  BY <1>1, Invariance, PTL

(* A date and the timestamp it was made of, or that was made of it, stand for the *)
(* same instant, to the steps that the doubles between them have and before 1904  *)
(* to less than two seconds.                                                      *)
THEOREM ChronoStaysNear == Spec => []ChronoIsNear
<1>1. IInv => ChronoIsNear
  <2> SUFFICES ASSUME IInv PROVE ChronoIsNear
    OBVIOUS
  <2> DEFINE date == last.date
             d == Abs((date.secs + Epoch) * One * Nanos + date.nanos * One - Exact(time) * Nanos)
             step(n) == Nanos * Ulp(n * One, 1)
  <2>1. last.op = "try_from" /\ date # NoDate => d <= One + step(1)
    BY TryFrom DEF IInv
  <2>2. last.op = "from_chrono" =>
          IF date.secs + Epoch >= 0
          THEN d <= One + 2 * step(Abs(date.secs) + Epoch + 2)
          ELSE d < 2 * One * Nanos
    BY FromChronoNear DEF IInv
  <2> QED
    BY <2>1, <2>2, Zenon DEF ChronoIsNear
<1> QED
  BY <1>1, Invariance, PTL

(* A timestamp from 1970 on that came from a double comes back the same from the *)
(* date it is given, when doubles are twelve nanoseconds apart by then: cutting  *)
(* the nanoseconds off loses nothing that the roundings on the way back do not   *)
(* restore.                                                                      *)
THEOREM ChronoComesBack == Spec => []ChronoRoundTrip
<1>1. IInv => ChronoRoundTrip
  BY RoundTrip DEF IInv, ChronoRoundTrip
<1> QED
  BY <1>1, Invariance, PTL

=============================================================================
