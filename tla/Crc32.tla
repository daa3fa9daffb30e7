--------------------------------- MODULE Crc32 ---------------------------------
(***************************************************************************)
(* crc32() of src/serialization.cpp, bit by bit.  A register is the set of *)
(* the bits that are one, numbered from the least significant; a byte is a *)
(* number below 256.                                                       *)
(***************************************************************************)
EXTENDS Naturals, Sequences, FiniteSetsExt

Octet == 0..255

PowersOfTwo == <<1, 2, 4, 8, 16, 32, 64, 128>>

BitsOf(byte) == {i \in 0..7 : (byte \div PowersOfTwo[i + 1]) % 2 = 1}

OctetOf ==
  [bits \in SUBSET (0..7) |-> CHOOSE byte \in Octet : BitsOf(byte) = bits]

\* 0xEDB88320
POLYNOMIAL == {5, 8, 9, 15, 19, 20, 21, 23, 24, 26, 27, 29, 30, 31}

\* (crc >> 1) ^ (0xEDB88320 & -(crc & 1))
Shifted(crc) ==
  SymDiff({i - 1 : i \in crc \ {0}}, IF 0 \in crc THEN POLYNOMIAL ELSE {})

\* The inner loop: the register after each of its eight turns.
Turns(crc) ==
  LET turn[j \in 0..8] == IF j = 0 THEN crc ELSE Shifted(turn[j - 1])
  IN  turn

\* The eight turns on a register whose high bits are zero.
Turned == [low \in SUBSET (0..7) |-> Turns(low)[8]]

\* crc ^= byte and the eight turns: a turn is linear and never drops a bit
\* above the lowest, so the high bits only move down by eight.
Taken(crc, byte) ==
  LET mixed == SymDiff(crc, BitsOf(byte))
  IN  SymDiff({i - 8 : i \in mixed \ (0..7)}, Turned[mixed \cap (0..7)])

\* The outer loop: the register after each byte of data.
Registers(data) ==
  LET reg[k \in 0 .. Len(data)] == IF k = 0 THEN 0..31
                                   ELSE Taken(reg[k - 1], data[k])
  IN  reg

\* ~crc, as four bytes.
Checksum(data) ==
  LET final == (0..31) \ Registers(data)[Len(data)]
  IN  [k \in 0..3 |->
         OctetOf[{i - 8 * k : i \in final \cap (8 * k .. 8 * k + 7)}]]

=============================================================================
