------------------------------- MODULE ByteWords -------------------------------
(***************************************************************************)
(* 32-bit words as four bytes, least significant first, as load_le32 and   *)
(* store_le32 (types.hpp) lay them out; a whole word does not fit in the   *)
(* integers of TLC.                                                        *)
(***************************************************************************)
EXTENDS Naturals, Sequences, FiniteSetsExt

LOCAL INSTANCE Bitwise

Word32 == [1..4 -> 0..255]

\* A word written as two halves of 16 bits.
Hex(high, low) ==
  <<low % 256, low \div 256, high % 256, high \div 256>>

\* The bytes of the number whose digits in base 256 are c, carries not done.
Carried(c) ==
  LET carry[k \in 0 .. Len(c)] ==
        IF k = 0 THEN 0 ELSE (c[k] + carry[k - 1]) \div 256
  IN  [k \in 1 .. Len(c) |-> (c[k] + carry[k - 1]) % 256]

\* Byte k of a, where the bytes beyond either end are zero.
At(a, k) == IF k \in DOMAIN a THEN a[k] ELSE 0

ByteAdd(a, b) == Carried([k \in 1..4 |-> a[k] + b[k]])

ByteXor(a, b) == [k \in 1..4 |-> a[k] ^^ b[k]]

ByteNot(a) == [k \in 1..4 |-> 255 - a[k]]

\* Distances below 8: the only ones arithmetic.hpp shifts by are 1 and 3.
ByteShiftLeft(a, n) == Carried([k \in 1..4 |-> a[k] * 2 ^ n])

ByteShiftRight(a, n) ==
  [k \in 1..4 |->
     (a[k] \div 2 ^ n) + (At(a, k + 1) % 2 ^ n) * 2 ^ (8 - n)]

\* Whole bytes go round first, then the bits within a byte.
ByteRol(a, n) ==
  LET from(k) == a[((k + 7 - (n \div 8)) % 4) + 1]
      r == n % 8
  IN  [k \in 1..4 |->
         ((from(k) * 2 ^ r) % 256) + (from(k - 1) \div 2 ^ (8 - r))]

ByteTopBit(a) == a[4] >= 128

\* The exact product of two numbers given by their bytes.
Product(a, b) ==
  Carried([k \in 1 .. Len(a) + Len(b) |->
             MapThenSumSet(LAMBDA i : a[i] * At(b, k + 1 - i), DOMAIN a)])

\* The 96-bit product p * (v * nv), shifted by 32 and truncated to 32 bits.
ByteMulHigh(p, v, nv) == SubSeq(Product(p, Product(v, nv)), 5, 8)

\* Long division, bit by bit from the top; b is below 2^30.
ByteMod(a, b) ==
  LET divisor == b[1] + 256 * (b[2] + 256 * (b[3] + 256 * b[4]))
      bit(i)  == (a[(i \div 8) + 1] \div 2 ^ (i % 8)) % 2
      rest[i \in 0 .. 32] ==
        IF i = 32 THEN 0 ELSE (2 * rest[i + 1] + bit(i)) % divisor
  IN  Carried(<<rest[0], 0, 0, 0>>)

=============================================================================
