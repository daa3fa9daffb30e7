--------------------------------- MODULE Numbers ---------------------------------
(***************************************************************************)
(* Facts about natural numbers that several proofs use: induction and      *)
(* recursion, which rest on least elements, and division with remainder.   *)
(***************************************************************************)
EXTENDS Integers, NaturalsInduction, WellFoundedInduction, TLAPS

-----------------------------------------------------------------------------
(* Induction and recursion on the natural numbers.                         *)

\* A set of natural numbers that is not empty has a least element.
LEMMA LeastNumber ==
  ASSUME NEW T \in SUBSET Nat, T # {}
  PROVE  \E x \in T : \A y \in T : x <= y
<1>. DEFINE R == OpToRel(<, Nat)
<1>1. IsWellFoundedOn(R, Nat)
  BY NatLessThanWellFounded
<1>2. R = {ss \in Nat \X Nat : ss[1] < ss[2]}
  BY DEF OpToRel
<1>. HIDE DEF R
<1>3. PICK x \in T : \A y \in T : <<y, x>> \notin R
  BY <1>1, WFMin
<1>4. ASSUME NEW y \in T
      PROVE  x <= y
  <2>1. ~(<<y, x>>[1] < <<y, x>>[2])
    BY <1>2, <1>3, Zenon
  <2>. QED BY <2>1
<1>. QED BY <1>4

\* A set of numbers with 0 and every successor has all of them.
LEMMA Induction ==
  ASSUME NEW S, 0 \in S, \A n \in Nat : n \in S => n + 1 \in S
  PROVE  Nat \subseteq S
<1>. SUFFICES ASSUME Nat \ S # {} PROVE FALSE
  OBVIOUS
<1>1. PICK x \in Nat \ S : \A y \in Nat \ S : x <= y
  BY LeastNumber
<1>2. x - 1 \in Nat /\ x - 1 \in S
  BY <1>1
<1>. QED BY <1>1, <1>2

\* The values after each turn of a loop that runs n times.
Runs(S, first, n, next) ==
  \E f \in [0 .. n -> S] : /\ f[0] = first
                           /\ \A k \in 1 .. n : f[k] = next[<<k, f[k - 1]>>]

\* A loop of n turns has a value after each of them.
LEMMA Recursion ==
  ASSUME NEW S, NEW first \in S, NEW n \in Nat, NEW next \in [(1 .. n) \X S -> S]
  PROVE  Runs(S, first, n, next)
<1>. DEFINE Good(m, f) == /\ f[0] = first
                          /\ \A k \in 1 .. m : f[k] = next[<<k, f[k - 1]>>]
            Reached == {m \in Nat : m <= n => \E f \in [0 .. m -> S] : Good(m, f)}
<1>1. 0 \in Reached
  <2>1. /\ [k \in 0 .. 0 |-> first] \in [0 .. 0 -> S]
        /\ Good(0, [k \in 0 .. 0 |-> first])
    OBVIOUS
  <2>. QED BY <2>1, Zenon
<1>2. ASSUME NEW m \in Nat, m \in Reached
      PROVE  m + 1 \in Reached
  <2>. SUFFICES ASSUME m + 1 <= n
                PROVE  \E f \in [0 .. m + 1 -> S] : Good(m + 1, f)
    OBVIOUS
  <2>1. PICK f \in [0 .. m -> S] : Good(m, f)
    BY <1>2
  <2>2. m + 1 \in 1 .. n /\ f[m] \in S
    OBVIOUS
  <2>3. <<m + 1, f[m]>> \in (1 .. n) \X S
    BY <2>2
  <2>4. next[<<m + 1, f[m]>>] \in S
    BY <2>3
  <2>. DEFINE g == [k \in 0 .. m + 1 |-> IF k = m + 1 THEN next[<<m + 1, f[m]>>]
                                                      ELSE f[k]]
  <2>5. g \in [0 .. m + 1 -> S]
    BY <2>4
  <2>6. g[0] = first
    BY <2>1
  <2>7. ASSUME NEW k \in 1 .. m + 1
        PROVE  g[k] = next[<<k, g[k - 1]>>]
    <3>1. CASE k = m + 1
      <4>1. g[k] = next[<<m + 1, f[m]>>] /\ g[k - 1] = f[m]
        BY <3>1
      <4>. QED BY <3>1, <4>1
    <3>2. CASE k # m + 1
      <4>1. k \in 1 .. m /\ g[k] = f[k] /\ g[k - 1] = f[k - 1]
        BY <3>2
      <4>. QED BY <2>1, <4>1
    <3>. QED BY <3>1, <3>2
  <2>. HIDE DEF g
  <2>. QED BY <2>5, <2>6, <2>7
<1>3. n \in Reached
  <2>. HIDE DEF Reached
  <2>. QED BY <1>1, <1>2, Induction
<1>. QED BY <1>3 DEF Runs

-----------------------------------------------------------------------------
(* Division with remainder.                                                *)

LEMMA DivUnique ==
  ASSUME NEW b \in Nat, b > 0, NEW q \in Nat, NEW r \in 0 .. b - 1
  PROVE  (b * q + r) \div b = q /\ (b * q + r) % b = r
  OBVIOUS

LEMMA DivSplit ==
  ASSUME NEW n \in Nat, NEW b \in Nat, b > 0
  PROVE  /\ n \div b \in Nat /\ n % b \in 0 .. b - 1
         /\ n = b * (n \div b) + (n % b)
  OBVIOUS

\* A multiple of the divisor adds to the quotient alone.
LEMMA DivAdd ==
  ASSUME NEW a \in Nat, NEW n \in Nat, NEW b \in Nat, b > 0
  PROVE  (b * a + n) \div b = a + (n \div b) /\ (b * a + n) % b = n % b
<1>. DEFINE q == n \div b
            r == n % b
<1>1. q \in Nat /\ r \in 0 .. b - 1 /\ n = b * q + r
  BY DivSplit
<1>. HIDE DEF q, r
<1>2. a + q \in Nat /\ b * (a + q) = b * a + b * q
  BY <1>1
<1>3. b * a + n = b * (a + q) + r
  <2>1. b * a \in Nat /\ b * q \in Nat
    BY <1>1
  <2>. QED BY <1>1, <1>2, <2>1
<1>4. (b * (a + q) + r) \div b = a + q /\ (b * (a + q) + r) % b = r
  BY <1>1, <1>2, DivUnique
<1>5. (b * a + n) \div b = a + q /\ (b * a + n) % b = r
  BY <1>3, <1>4
<1>. QED BY <1>5 DEF q, r

\* Truncating to two words and then to one is truncating to one.
LEMMA ModMod ==
  ASSUME NEW n \in Nat, NEW b \in Nat, b > 0
  PROVE  (n % (b * b)) % b = n % b
<1>. DEFINE q == n \div (b * b)
            r == n % (b * b)
<1>1. b * b \in Nat /\ b * b > 0
  OBVIOUS
<1>2. q \in Nat /\ r \in Nat /\ n = (b * b) * q + r
  BY <1>1, DivSplit
<1>. HIDE DEF q, r
<1>3. b * q \in Nat /\ (b * b) * q = b * (b * q)
  BY <1>2
<1>4. n = b * (b * q) + r
  BY <1>2, <1>3
<1>5. (b * (b * q) + r) % b = r % b
  BY <1>2, <1>3, DivAdd
<1>. QED BY <1>4, <1>5 DEF r

LEMMA Division ==
  ASSUME NEW a \in Nat, NEW b \in Nat \ {0}
  PROVE  /\ a \div b \in Nat
         /\ b * (a \div b) <= a
         /\ a < b * (a \div b) + b
  OBVIOUS

LEMMA Multiples ==
  ASSUME NEW b \in Nat, NEW p \in Nat, NEW q \in Nat, p < q
  PROVE  b * p + b <= b * q
  OBVIOUS

LEMMA RemainderOf ==
  ASSUME NEW m \in Nat \ {0}, NEW q \in Nat, NEW r \in 0 .. m - 1
  PROVE  (m * q + r) % m = r
  OBVIOUS

LEMMA Successor ==
  ASSUME NEW n \in Nat, NEW m \in Nat \ {0}
  PROVE  ((n % m) + 1) % m = (n + 1) % m
<1>. DEFINE q == n \div m
            r == n % m
<1>1. q \in Nat /\ r \in 0 .. m - 1 /\ n = m * q + r
  OBVIOUS
<1>. HIDE DEF q, r
<1>2. CASE r + 1 < m
  <2>1. (m * q + (r + 1)) % m = r + 1
    BY <1>1, <1>2, RemainderOf
  <2>. QED BY <1>1, <1>2, <2>1 DEF r
<1>3. CASE r + 1 = m
  <2>1. n + 1 = m * (q + 1) + 0
    BY <1>1, <1>3
  <2>2. (m * (q + 1) + 0) % m = 0
    BY <1>1, RemainderOf
  <2>3. (r + 1) % m = 0
    BY <1>1, <1>3, RemainderOf
  <2>. QED BY <2>1, <2>2, <2>3 DEF r
<1>. QED BY <1>1, <1>2, <1>3

LEMMA ShiftedRemainder ==
  ASSUME NEW a \in Nat, NEW m \in Nat \ {0}, a % m > 0, NEW r \in 0 .. m - 1
  PROVE  (a + r) % m # r
<1>. DEFINE q == a \div m
            f == a % m
<1>1. q \in Nat /\ f \in 1 .. m - 1 /\ a = m * q + f
  OBVIOUS
<1>. HIDE DEF q, f
<1>2. CASE f + r < m
  <2>1. (m * q + (f + r)) % m = f + r
    BY <1>1, <1>2, RemainderOf
  <2>. QED BY <1>1, <2>1
<1>3. CASE f + r >= m
  <2>1. a + r = m * (q + 1) + (f + r - m)
    BY <1>1
  <2>2. f + r - m \in 0 .. m - 1 /\ q + 1 \in Nat
    BY <1>1, <1>3
  <2>3. (a + r) % m = f + r - m
    BY <2>1, <2>2, RemainderOf
  <2>. QED BY <1>1, <2>3
<1>. QED BY <1>1, <1>2, <1>3

=============================================================================
