----------------------------- MODULE MCKeySchedule -----------------------------
(***************************************************************************)
(* The key schedule with the lengths of the code, but for INT_MAX, which   *)
(* is 40 bytes instead of 2 GiB, for HMAC's block, which has 36 bytes so   *)
(* that a size may lie between the two, and for the number of a block,     *)
(* which has five bits instead of eight; on 7-bit words: each constant     *)
(* keeps its seven most significant bits, the drift interval its length.   *)
(***************************************************************************)
EXTENDS KeyScheduleProperties, NaturalWords

MCSymbols == {"0", "1", "2", "x", "v1", "-state-init", "-param-init"}

MCDefaultInfo == <<"v1">>

CallOf(op, key, nonce, salt, info, length) ==
  [op |-> op, key |-> key, nonce |-> nonce, salt |-> salt, info |-> info,
   length |-> length]

DigestOf(a, b, c, d, parameters) ==
  [x |-> a, y |-> b, z |-> c, w |-> d,
   alpha |-> parameters[1], gamma |-> parameters[2],
   mu    |-> parameters[3], sigma |-> parameters[4]]

Bytes(b, n) == [k \in 1..n |-> b]

-----------------------------------------------------------------------------
(* The pairs of clients.                                                   *)

\* Trailing zeros, within HMAC's block and at its end; two nonces whose sizes,
\* narrowed to int, are negative and too small.
MCNonces ==
  {<<>>, <<"0">>, <<"1">>, <<"1", "0">>, Bytes("1", 36),
   Append(Bytes("1", 36), "0"), Bytes("1", 45), Bytes("1", 83)}

\* The default info given explicitly, and infos that look like derived ones.
MCInfos ==
  {<<>>, <<"v1">>, <<"x">>, <<"v1", "-param-init">>}

MCNonceClients ==
  {CallOf("get_init_params", key, nonce, salt, info, 0) :
     key \in {<<>>, <<"1">>, <<"1", "0">>}, nonce \in MCNonces,
     salt \in {<<>>, <<"0">>}, info \in MCInfos}

\* One call with every loop, one whose nonce HMAC cannot take.
MCClients ==
  MCNonceClients
  \cup {CallOf("hkdf", <<"1">>, <<>>, <<>>, <<"x">>, n) : n \in {0, 320, 993}}
  \cup {CallOf("derive_state_with_mixing", <<"1">>, nonce, <<>>, <<>>, n) :
          nonce \in {<<"1">>, Bytes("1", 45)}, n \in {15, 16}}

\* Their words do not matter: only the counter moves.
MCAnyDigest == {DigestOf(0, 0, 0, 0, <<0, 0, 0, 0>>)}
MCOneHash == {<<1, 1, 1, 1>>}
SecondOf(a, b) == b
SameWord(a) == a
ZeroBy(a, n) == 0
FirstOfThree(a, b, c) == a
NotTop(a) == FALSE

-----------------------------------------------------------------------------
(* Lengths and States.                                                     *)

\* Words at the edges of both guards and of the regime.
MCDigests ==
  {DigestOf(0, 127, 9, 77, <<0, 14, 15, 127>>),
   DigestOf(111, 9, 101, 93, <<112, 126, 1, 111>>)}

\* Every word is mixed into every variable.
MCHashes == {[k \in 1..4 |-> h] : h \in NatWord}

\* Lengths around one block and around the limit; refused arguments; and a
\* nonce whose narrowed length is negative.
MCStateCalls ==
  {CallOf("hkdf", <<"1">>, <<>>, <<>>, <<"x">>, n) :
     n \in {0, 16, 32, 33, 992, 993, 1024, 1025}}
  \cup {CallOf(op, key, nonce, <<>>, <<>>, n) :
          op \in {"get_init_params", "derive_state", "derive_state_with_mixing"},
          key \in {<<>>, <<"1">>}, nonce \in {<<"1">>, Bytes("1", 45)},
          n \in {15, 16}}

=============================================================================
