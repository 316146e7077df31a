------------------------------ MODULE ModArith ------------------------------
(***************************************************************************)
(* Facts about remainders by a divisor that is not a literal, where the    *)
(* SMT solver needs the quotients spelled out.                             *)
(***************************************************************************)
EXTENDS Integers, TLAPS

LEMMA ModRange ==
  ASSUME NEW n \in Nat \ {0}, NEW x \in Int
  PROVE  x % n \in 0 .. (n - 1)
  BY SMT

LEMMA Quotient ==
  ASSUME NEW n \in Nat \ {0}, NEW x \in Int
  PROVE  \E q \in Int : x = n * q + (x % n)
<1>1. x \div n \in Int /\ x = n * (x \div n) + (x % n)
  BY SMT
<1> QED BY <1>1

(* A multiple of n nearer to zero than n is zero.                          *)
LEMMA SmallMultiple ==
  ASSUME NEW n \in Nat \ {0}, NEW q \in Int, -n < n * q, n * q < n
  PROVE  q = 0
<1>1. CASE q >= 1
  <2>1. n * q >= n  BY <1>1, SMT
  <2> QED BY <2>1, SMT
<1>2. CASE q <= -1
  <2>1. n * q <= -n  BY <1>2, SMT
  <2> QED BY <2>1, SMT
<1> QED BY <1>1, <1>2, SMT

LEMMA ModSmall ==
  ASSUME NEW n \in Nat \ {0}, NEW x \in 0 .. (n - 1)
  PROVE  x % n = x
<1>0. x \in Int  OBVIOUS
<1>1. PICK q \in Int : x = n * q + (x % n)  BY <1>0, Quotient, Zenon
<1>2. x % n \in 0 .. (n - 1)  BY ModRange
<1>3. n * q = x - (x % n)
  <2>1. n * q \in Int  OBVIOUS
  <2> QED BY <1>1, <1>2, <2>1
<1>4. q = 0
  BY <1>2, <1>3, SmallMultiple
<1> QED BY <1>2, <1>3, <1>4, SMT

(* Two numbers less than n apart with the same remainder are equal.        *)
LEMMA ModDistinct ==
  ASSUME NEW n \in Nat \ {0}, NEW x \in Int, NEW y \in Int,
         -n < x - y, x - y < n, x % n = y % n
  PROVE  x = y
<1>1. PICK p \in Int : x = n * p + (x % n)  BY Quotient
<1>2. PICK q \in Int : y = n * q + (y % n)  BY Quotient
<1>3. x % n \in Int /\ y % n \in Int  BY ModRange
<1>4. x - y = n * p - n * q
  <2>1. n * p \in Int /\ n * q \in Int  OBVIOUS
  <2> QED BY <1>1, <1>2, <1>3, <2>1
<1>5. n * (p - q) = n * p - n * q  BY SMT
<1>6. p - q = 0
  <2>1. p - q \in Int  OBVIOUS
  <2> QED BY <1>4, <1>5, <2>1, SmallMultiple
<1> QED BY <1>4, <1>5, <1>6, SMT

(* A remainder may be taken before an addition.                            *)
LEMMA ModAdd ==
  ASSUME NEW n \in Nat \ {0}, NEW x \in Int, NEW y \in Int
  PROVE  ((x % n) + y) % n = (x + y) % n
<1> DEFINE r == x % n
           u == r + y
           v == x + y
<1>1. r \in Int /\ u \in Int /\ v \in Int  BY ModRange
<1>2. PICK p \in Int : x = n * p + r  BY Quotient
<1> HIDE DEF r, u, v
<1>3. PICK q \in Int : u = n * q + (u % n)  BY <1>1, Quotient
<1>4. PICK s \in Int : v = n * s + (v % n)  BY <1>1, Quotient
<1>5. u % n \in 0 .. (n - 1) /\ v % n \in 0 .. (n - 1)
  BY <1>1, ModRange
<1>6. v - u = n * p
  <2>1. n * p \in Int  OBVIOUS
  <2> QED BY <1>1, <1>2, <2>1 DEF u, v
<1> DEFINE m == p - s + q
<1>7. m \in Int  OBVIOUS
<1>8. n * m = n * p - n * s + n * q  BY SMT
<1>9. (v % n) - (u % n) = n * m
  <2>1. n * p \in Int /\ n * s \in Int /\ n * q \in Int  OBVIOUS
  <2>2. (v % n) - (u % n) = (v - u) - n * s + n * q
    BY <1>1, <1>3, <1>4, <1>5, <2>1
  <2> HIDE DEF m
  <2> QED BY <1>1, <1>6, <1>8, <2>1, <2>2
<1>10. m = 0
  <2> HIDE DEF m
  <2> QED BY <1>5, <1>7, <1>9, SmallMultiple
<1>11. u % n = v % n
  <2> HIDE DEF m
  <2> QED BY <1>5, <1>9, <1>10, SMT
<1> QED BY <1>11 DEF r, u, v
=============================================================================
