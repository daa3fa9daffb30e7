----------------------------- MODULE NaturalWords -----------------------------
(***************************************************************************)
(* Unsigned machine words of W bits as natural numbers, with both ways in  *)
(* which arithmetic.hpp computes the middle word of p * v * ~v.            *)
(***************************************************************************)
EXTENDS Naturals

CONSTANTS W,     \* bits in a word
          Radix  \* 2^W

\* 2^n
Power[n \in 0 .. W] == IF n = 0 THEN 1 ELSE 2 * Power[n - 1]

\* arithmetic.hpp shifts by up to 3 bits.
ASSUME RadixAssumption == W \in Nat /\ W >= 3 /\ Radix = Power[W]

NatWord == 0 .. Radix - 1

NatVal(a) == a

NatAdd(a, b) == (a + b) % Radix

NatMod(a, b) == a % b

NatNot(a) == Radix - 1 - a

NatTopBit(a) == 2 * a >= Radix

\* One more bit of a and b: place is its place, sum those in which they differ.
NextBit(r) ==
  [a |-> r.a \div 2, b |-> r.b \div 2, place |-> 2 * r.place,
   sum |-> IF r.a % 2 = r.b % 2 THEN r.sum ELSE r.sum + r.place]

\* The two words bit by bit, from the least significant.
BitByBit(a, b) ==
  LET read[k \in 0 .. W] ==
        IF k = 0 THEN [a |-> a, b |-> b, place |-> 1, sum |-> 0]
                 ELSE NextBit(read[k - 1])
  IN  read

NatXor(a, b) == BitByBit(a, b)[W].sum

NatShiftLeft(a, n) == (a * Power[n]) % Radix

NatShiftRight(a, n) == a \div Power[n]

\* A distance beyond the word goes round.
NatRol(a, n) ==
  LET k == n % W IN ((a * Power[k]) % Radix) + (a \div Power[W - k])

\* store_le32() and load_le32(): the four bytes of a word, least significant
\* first, and the word that four bytes make.
NatStore(a) ==
  [i \in 0..3 |-> (a \div <<1, 256, 65536, 16777216>>[i + 1]) % 256]

NatLoad(b) ==
  (b[0] + 256 * b[1] + 65536 * b[2] + 16777216 * b[3]) % Radix

-----------------------------------------------------------------------------
(* L's product: one multiplication of double width, or two of single.      *)

\* EAHCM_HAS_UINT128: the whole product, then the shift.
WideMulHigh(p, v, nv) == ((p * (v * nv)) \div Radix) % Radix

\* Mutant: the carry out of the low half is lost.
SplitWithoutCarry(p, v, nv) ==
  LET vn == v * nv IN (p * (vn \div Radix)) % Radix

\* Otherwise: the halves of v * nv are multiplied apart, and the sum is
\* truncated to the two-word integer it is computed in.
SplitMulHigh(p, v, nv) ==
  LET vn    == v * nv
      vn_hi == vn \div Radix
      vn_lo == vn % Radix
      term1 == p * vn_hi
      term2 == p * vn_lo
  IN  ((term1 + (term2 \div Radix)) % (Radix * Radix)) % Radix

\* Both builds compute the same word in L(v, p).
PathsAgreeOn(p, v) ==
  WideMulHigh(p, v, NatNot(v)) = SplitMulHigh(p, v, NatNot(v))

=============================================================================
