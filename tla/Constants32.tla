------------------------------ MODULE Constants32 ------------------------------
(***************************************************************************)
(* The numbers of include/eahcm/constants.hpp as 32-bit words.             *)
(***************************************************************************)
EXTENDS ByteWords

ParamFloor   == Hex(\hE000, \h0000)
DriftMask    == Hex(\h1FF0, \h0000)
DriftEvery   == Hex(0, 64)
PhiFrac      == Hex(\h9E37, \h79B9)
EpsilonConst == Hex(\h243F, \h6A88)
SentinelZero == Hex(\hDEAD, \hBEEF)
SentinelOnes == Hex(\h1337, \h1337)
WordZero     == Hex(0, 0)
WordOne      == Hex(0, 1)
WordOnes     == Hex(\hFFFF, \hFFFF)

=============================================================================
