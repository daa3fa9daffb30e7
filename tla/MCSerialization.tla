---------------------------- MODULE MCSerialization ----------------------------
(***************************************************************************)
(* A finite instance of SerializationProperties for TLC, with the exact    *)
(* 32-bit checksum.                                                        *)
(***************************************************************************)
EXTENDS SerializationProperties, Crc32

\* IEEE 802.3, as the code says: the checksum of the text 123456789.
ASSUME Ieee8023 ==
  LET sum == Checksum([i \in 1..9 |-> 48 + i])
  IN  <<sum[0], sum[1], sum[2], sum[3]>> = <<\h26, \h39, \hF4, \hCB>>

\* The 40 bytes of a body, as a sequence.
MCCrc32(b) == Checksum([i \in 1..40 |-> b[i - 1]])

Num(a, b, c, d) == [i \in 0..3 |-> <<a, b, c, d>>[i + 1]]

\* SERIALIZATION_VERSION = 1.
MCVersion == Num(1, 0, 0, 0)

\* The State of the compact-format test, and the reference State SE-001.
Small ==
  [x |-> Num(42, 0, 0, 0), y |-> Num(43, 0, 0, 0),
   z |-> Num(44, 0, 0, 0), w |-> Num(45, 0, 0, 0),
   alpha |-> Num(0, 0, 0, 224), gamma |-> Num(0, 0, 0, 224),
   mu    |-> Num(0, 0, 0, 224), sigma |-> Num(0, 0, 0, 224),
   counter |-> Num(0, 0, 0, 0)]
Evolved ==
  [x |-> Num(\h78, \h56, \h34, \h12), y |-> Num(\hF0, \hDE, \hBC, \h9A),
   z |-> Num(\h68, \h24, \h57, \h13), w |-> Num(\hAC, \hDF, \hEB, \hAC),
   alpha |-> Num(0, 0, \h70, \hF0), gamma |-> Num(0, 0, \h70, \hF1),
   mu    |-> Num(0, 0, \h70, \hF2), sigma |-> Num(0, 0, \h70, \hF3),
   counter |-> Num(0, 0, 0, 0)]

MCExports == {Small, Evolved}
MCOverwrites == {0, 255}
MCNumbers == {Num(43, 0, 0, 0)}
MCNotes == {Number(Num(7, 0, 0, 0))}

=============================================================================
