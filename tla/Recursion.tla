----------------------------- MODULE Recursion -----------------------------
(***************************************************************************)
(* Induction and recursive functions on the natural numbers, in the form   *)
(* in which the provers can use them: with sets and functions where the    *)
(* library's theorems have operators for parameters; and division.         *)
(***************************************************************************)
EXTENDS Integers, WellFoundedInduction, TLAPS

(* Induction: a set with 0 and with the successor of each of its numbers has
   all of them.                                                            *)
LEMMA Induction ==
    ASSUME NEW S, 0 \in S, \A n \in S \cap Nat : n + 1 \in S
    PROVE  Nat \subseteq S
<1> DEFINE T == Nat \ S
<1>1. SUFFICES ASSUME T # {} PROVE FALSE
  OBVIOUS
<1>2. IsWellFoundedOn(OpToRel(<, Nat), Nat)
  BY NatLessThanWellFounded
<1>3. PICK x \in T : \A y \in T : ~(<<y, x>> \in OpToRel(<, Nat))
  BY <1>1, <1>2, WFMin
<1>4. \A y \in T : ~(y < x)
  BY <1>3 DEF OpToRel
<1>5. x \in Nat /\ x \notin S /\ x # 0
  OBVIOUS
<1>6. x - 1 \in Nat /\ x - 1 < x /\ (x - 1) + 1 = x
  BY <1>5
<1>7. x - 1 \in S
  BY <1>4, <1>6
<1> QED BY <1>5, <1>6, <1>7

(* The same up to a number.                                                *)
LEMMA InductionUpTo ==
    ASSUME NEW m \in Nat, NEW S, 0 \in S, \A n \in 0..(m - 1) : n \in S => n + 1 \in S
    PROVE  0..m \subseteq S
<1> DEFINE T == {n \in Nat : n <= m => n \in S}
<1>1. 0 \in T
  OBVIOUS
<1>2. \A n \in T \cap Nat : n + 1 \in T
  OBVIOUS
<1> HIDE DEF T
<1>3. Nat \subseteq T
  BY <1>1, <1>2, Induction
<1> QED BY <1>3 DEF T

(* f has the first value "base", and every other is a step from the one
   before it.                                                              *)
Follows(f, n, base, step) == f[0] = base /\ \A i \in 1..n : f[i] = step[<<i, f[i - 1]>>]

(* Such a function exists.                                                 *)
LEMMA RecursiveFunction ==
    ASSUME NEW n \in Nat, NEW T, NEW base \in T, NEW step \in [(1..n) \X T -> T]
    PROVE  \E f \in [0..n -> T] : Follows(f, n, base, step)
<1> DEFINE S == {m \in 0..n : \E f \in [0..m -> T] : Follows(f, m, base, step)}
<1>1. 0 \in S
  <2> DEFINE f == [i \in 0..0 |-> base]
  <2>1. f \in [0..0 -> T] /\ f[0] = base /\ 1..0 = {} /\ 0 \in 0..n
    OBVIOUS
  <2> HIDE DEF f
  <2> QED BY <2>1 DEF Follows
<1>2. ASSUME NEW m \in 0..(n - 1), m \in S PROVE m + 1 \in S
  <2>1. PICK f \in [0..m -> T] : Follows(f, m, base, step)
    BY <1>2
  <2> DEFINE g == [i \in 0..(m + 1) |-> IF i <= m THEN f[i] ELSE step[<<m + 1, f[m]>>]]
  <2>2. f[m] \in T /\ step[<<m + 1, f[m]>>] \in T
    OBVIOUS
  <2>3. g \in [0..(m + 1) -> T]
    BY <2>2
  <2>4. g[0] = base
    BY <2>1 DEF Follows
  <2>5. ASSUME NEW i \in 1..(m + 1) PROVE g[i] = step[<<i, g[i - 1]>>]
    <3>1. CASE i <= m
      BY <2>1, <3>1 DEF Follows
    <3>2. CASE i = m + 1
      <4>1. g[m + 1] = step[<<m + 1, f[m]>>] /\ g[m] = f[m] /\ i - 1 = m
        BY <3>2
      <4> QED BY <3>2, <4>1
    <3> QED BY <3>1, <3>2
  <2> HIDE DEF g
  <2>6. Follows(g, m + 1, base, step)
    BY <2>4, <2>5 DEF Follows
  <2> QED BY <2>3, <2>6
<1> HIDE DEF S
<1>3. 0..n \subseteq S
  BY <1>1, <1>2, InductionUpTo
<1>4. n \in S
  BY <1>3
<1> QED BY <1>4 DEF S

-----------------------------------------------------------------------------
(* Dividing a hash by the number of bins, and by twice as many.            *)
LEMMA Division ==
    ASSUME NEW h \in Nat, NEW c \in Nat, c > 0
    PROVE  /\ h \div c \in Nat /\ h % c \in 0..(c - 1) /\ h = c * (h \div c) + (h % c)
OBVIOUS

(* Quotient and remainder are the only ones.                               *)
LEMMA UniqueDivision ==
    ASSUME NEW c \in Nat, c > 0, NEW q \in Int, NEW p \in Int, NEW r \in 0..(c - 1),
           NEW s \in 0..(c - 1), c * q + r = c * p + s
    PROVE  q = p /\ r = s
<1>1. c * (q - p) = s - r
  OBVIOUS
<1>2. CASE q > p
  <2>1. c * (q - p) >= c
    BY <1>2
  <2> QED BY <1>1, <2>1
<1>3. CASE p > q
  <2>1. c * (p - q) >= c
    BY <1>3
  <2>2. c * (p - q) = r - s
    OBVIOUS
  <2> QED BY <2>2, <2>1
<1> QED BY <1>2, <1>3

(* Of twice as many bins, a hash has the one that it had or the one as far in
   the upper half.                                                         *)
LEMMA SplitHash ==
    ASSUME NEW h \in Nat, NEW c \in Nat, c > 0
    PROVE  /\ (h \div c) % 2 \in {0, 1}
           /\ h % (2 * c) = IF (h \div c) % 2 = 0 THEN h % c ELSE (h % c) + c
<1> DEFINE q == h \div c
           r == h % c
           d == 2 * c
<1>1. q \in Nat /\ r \in 0..(c - 1) /\ h = c * q + r
  BY Division
<1> HIDE DEF q, r
<1>2. q % 2 \in {0, 1} /\ q \div 2 \in Nat /\ q = 2 * (q \div 2) + (q % 2)
  BY <1>1
<1>3. d \in Nat /\ d > 0
  OBVIOUS
<1>a. h \div d \in Nat /\ h % d \in 0..(d - 1) /\ h = d * (h \div d) + (h % d)
  <2> HIDE DEF d
  <2> QED BY <1>3, Division
<1> DEFINE m == q \div 2
           u == q % 2
<1>4. m \in Nat /\ u \in {0, 1} /\ q = 2 * m + u
  BY <1>2
<1> HIDE DEF m, u
<1>5. c * q = d * m + c * u
  BY <1>4
<1> DEFINE s == IF u = 0 THEN r ELSE r + c
<1>6. c * u + r = s
  <2>1. CASE u = 0
    <3>1. c * 0 = 0
      OBVIOUS
    <3> QED BY <1>1, <2>1, <3>1
  <2>2. CASE u = 1
    <3>1. c * 1 = c
      OBVIOUS
    <3> QED BY <1>1, <2>2, <3>1
  <2> QED BY <1>4, <2>1, <2>2
<1>7. s \in 0..(d - 1)
  BY <1>1
<1>8. h = d * m + s
  <2> DEFINE x == c * q
             y == d * m
             z == c * u
  <2>1. x = y + z /\ h = x + r /\ z + r = s
    BY <1>1, <1>5, <1>6
  <2>2. x \in Int /\ y \in Int /\ z \in Int
    BY <1>1, <1>4
  <2> HIDE DEF x, y, z, s
  <2>3. h = y + s
    BY <1>1, <2>1, <2>2
  <2> QED BY <2>3 DEF y
<1> HIDE DEF d, s
<1>9. h % d = s
  BY <1>3, <1>a, <1>4, <1>7, <1>8, UniqueDivision
<1> QED BY <1>2, <1>9 DEF d, u, q, r, s
=============================================================================
