------------------------------- MODULE MCSession -------------------------------
(***************************************************************************)
(* A finite instance of Session for TLC: the 10-bit words of MCChaotic, a  *)
(* State just before a drift for the derived one, and a sum of the bytes   *)
(* that ten bits reach as the checksum.                                    *)
(***************************************************************************)
EXTENDS Session, NaturalWords, FiniteSetsExt, TLC

MCDerived(seed) ==
  [x |-> 72, y |-> 618, z |-> 77, w |-> 691,
   alpha |-> 960, gamma |-> 964, mu |-> 968, sigma |-> 972, counter |-> 63]

MCCrc32(b) ==
  NatStore(MapThenSumSet(LAMBDA f : b[4 * f] + b[4 * f + 1], 1..9))

\* A byte of x, and one of the checksum.
MCDamages == {<<5, 255>>, <<41, 0>>}

\* The objects are interchangeable: every definition only quantifies over them.
MCSymmetry == Permutations(Ciphers)

\* Bounds: the objects together are at most MaxWords words into their streams,
\* and none goes on after its first step from the all-zero State.
MCExplored ==
  /\ MapThenSumSet(LAMBDA c : place[c].n, Ciphers) <= MaxWords
  /\ \A c \in Ciphers : place[c].seed = ZeroSeed => place[c].n = 0

\* Two states are the same if they differ in nothing but what no guard, no
\* property and no assignment to anything else reads: the stored key material,
\* the byte an exporter still owed, and the name and outcome of the last call.
MCView ==
  <<live, buffer_pos_, state_, initial_state_, buffer_, message, output,
    place, home, tags, IF blob = <<>> THEN blob ELSE blob.state, ret.bytes>>

=============================================================================
