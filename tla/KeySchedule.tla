------------------------------ MODULE KeySchedule ------------------------------
(***************************************************************************)
(* src/key_schedule.cpp: HKDF block by block, get_init_params(),           *)
(* derive_state() and derive_state_with_mixing(), one call after another.  *)
(*                                                                         *)
(* A byte string is a sequence of symbols; a symbol is a byte, or one of   *)
(* the two suffixes of build_info(), which are eleven bytes each.  HMAC is *)
(* a term: equal digests come from equal keys and equal data, after RFC    *)
(* 2104 has hashed a key that is longer than a block and filled the others *)
(* up with zero bytes.  The words of a digest are arbitrary.               *)
(*                                                                         *)
(* drawn is a history variable: what the calls that returned got of HMAC.  *)
(***************************************************************************)
EXTENDS ChaoticCore, Integers, Sequences, FiniteSets

CONSTANTS ZeroByte,                 \* the symbol of the byte 0
          DEFAULT_INFO,             \* "EAHCM-v1"
          StateSuffix, ParamSuffix, \* "-state-init", "-param-init"
          SEED_LEN,                 \* bytes of a seed, and of a hash: 16
          hash_len,                 \* bytes of a digest: 32
          HMAC_BLOCK,               \* bytes of a block of SHA3-256: 136
          MAX_BLOCKS,               \* 255
          BYTES,                    \* values of std::uint8_t: 256
          INT_MAX,                  \* of int
          WARMUP_STEPS, POST_HASH_STEPS,
          Digests,                  \* the words that load_le32() may find in okm
          Hashes,                   \* and in plaintext_hash
          Calls,                    \* the calls that clients make
          MaxDraws                  \* bound: calls that return

\* length is what hkdf() is asked for, and plaintext_hash.size() in
\* derive_state_with_mixing(); hkdf() takes no nonce.
Operations ==
  {"hkdf", "get_init_params", "derive_state", "derive_state_with_mixing"}

VARIABLES call,    \* the call under way
          pc,      \* where it is
          todo,    \* the infos it has yet to expand
          prk, blocks, \* of the expansion under way
          okm,     \* the expansions done, each as its blocks
          params,  \* InitParams
          st,      \* State s
          i,       \* the loop counter of the steps
          ret,     \* how the last call ended
          drawn

vars == <<call, pc, todo, prk, blocks, okm, params, st, i, ret, drawn>>

-----------------------------------------------------------------------------
(* Arguments.                                                              *)

build_salt(nonce, salt) == nonce \o salt

\* Mutant: the suffix takes the place of the client's info.
InfoDropped(info, suffix) == Append(DEFAULT_INFO, suffix)

build_info(info, suffix) ==
  Append(IF info = <<>> THEN DEFAULT_INFO ELSE info, suffix)

SaltOf(c) == build_salt(c.nonce, c.salt)

InfosOf(c) ==
  IF c.op = "hkdf" THEN <<c.info>>
  ELSE <<build_info(c.info, StateSuffix), build_info(c.info, ParamSuffix)>>

LengthOf(c) == IF c.op = "hkdf" THEN c.length ELSE SEED_LEN

ArgumentError(c) ==
  \/ c.op = "derive_state_with_mixing" /\ c.length < SEED_LEN
  \/ c.op # "hkdf" /\ c.key = <<>>

-----------------------------------------------------------------------------
(* HMAC-SHA3-256 and HKDF.                                                 *)

\* static_cast<int>(size)
IntOf(size) ==
  LET low == size % (2 * (INT_MAX + 1))
  IN  IF low <= INT_MAX THEN low ELSE low - 2 * (INT_MAX + 1)

\* All that zero padding leaves of a key: its other bytes, and their places.
Padded(key) ==
  [k \in {j \in DOMAIN key : key[j] # ZeroByte} |-> key[k]]

HmacKey(key) ==
  LET hashed == Len(key) > HMAC_BLOCK
  IN  [hashed |-> hashed, bytes |-> IF hashed THEN key ELSE Padded(key)]

ZeroSalt == [k \in 1..hash_len |-> ZeroByte]

ExtractKey(c) == IF SaltOf(c) = <<>> THEN ZeroSalt ELSE SaltOf(c)

hkdf_extract(c) ==
  [key  |-> HmacKey(SubSeq(ExtractKey(c), 1, IntOf(Len(ExtractKey(c))))),
   data |-> c.key]

\* T(k), from the blocks before it.
Block(info, k) ==
  LET t_prev == IF k = 1 THEN <<>> ELSE <<blocks[k - 1]>>
  IN  [key |-> prk, data |-> <<t_prev, info, k % BYTES>>]

\* Mutant: the limit is one block too high.
LooseLimit(c) == LengthOf(c) > hash_len * (MAX_BLOCKS + 1)

TooLong(c) == LengthOf(c) > hash_len * MAX_BLOCKS

BlocksFor(c) == (LengthOf(c) + hash_len - 1) \div hash_len

-----------------------------------------------------------------------------
(* States.                                                                 *)

InitParams(raw) ==
  [x |-> guard_absorbing(raw.x), y |-> guard_absorbing(raw.y),
   z |-> guard_absorbing(raw.z), w |-> guard_absorbing(raw.w),
   alpha |-> clamp_param(raw.alpha), gamma |-> clamp_param(raw.gamma),
   mu    |-> clamp_param(raw.mu),    sigma |-> clamp_param(raw.sigma)]

\* Mutant: the State is not guarded again.
MixedUnguarded(s, h) ==
  [s EXCEPT !.x = Xor(@, h[1]), !.y = Xor(@, h[2]),
            !.z = Xor(@, h[3]), !.w = Xor(@, h[4])]

MixedWith(s, h) ==
  [s EXCEPT !.x = guard_absorbing(Xor(@, h[1])),
            !.y = guard_absorbing(Xor(@, h[2])),
            !.z = guard_absorbing(Xor(@, h[3])),
            !.w = guard_absorbing(Xor(@, h[4]))]

StepsDue == IF pc = "warmup" THEN WARMUP_STEPS ELSE POST_HASH_STEPS

-----------------------------------------------------------------------------
(* A call.                                                                 *)

NoCall == [op |-> "none", key |-> <<>>, nonce |-> <<>>, salt |-> <<>>,
           info |-> <<>>, length |-> 0]

NoParams ==
  [x |-> Zero, y |-> Zero, z |-> Zero, w |-> Zero,
   alpha |-> Zero, gamma |-> Zero, mu |-> Zero, sigma |-> Zero]

ZeroState ==
  [x |-> Zero, y |-> Zero, z |-> Zero, w |-> Zero, alpha |-> Zero,
   gamma |-> Zero, mu |-> Zero, sigma |-> Zero, counter |-> Zero]

Init ==
  /\ pc = "idle" /\ call = NoCall /\ todo = <<>> /\ prk = <<>>
  /\ blocks = <<>> /\ okm = <<>> /\ params = NoParams /\ st = ZeroState
  /\ i = 0 /\ ret = "none" /\ drawn = {}

\* The call ends, and its local variables with it.
Leave(result) ==
  /\ pc' = "idle" /\ call' = NoCall /\ todo' = <<>> /\ prk' = <<>>
  /\ blocks' = <<>> /\ okm' = <<>> /\ params' = NoParams /\ st' = ZeroState
  /\ i' = 0 /\ ret' = result

Throws(exception) == Leave(exception) /\ UNCHANGED drawn

Returns ==
  Leave("ok") /\ drawn' = drawn \cup {[call |-> call, okm |-> okm]}

Call(c) ==
  /\ pc = "idle" /\ Cardinality(drawn) < MaxDraws
  /\ ~ArgumentError(c)
  /\ call' = c /\ pc' = "extract" /\ todo' = InfosOf(c) /\ ret' = "none"
  /\ UNCHANGED <<prk, blocks, okm, params, st, i, drawn>>

CallRefused(c) ==
  /\ pc = "idle" /\ Cardinality(drawn) < MaxDraws
  /\ ArgumentError(c)
  /\ Throws("KeyError")

Extract ==
  /\ pc = "extract"
  /\ IntOf(Len(ExtractKey(call))) >= 0
  /\ prk' = hkdf_extract(call)
  /\ pc' = "expand"
  /\ UNCHANGED <<call, todo, blocks, okm, params, st, i, ret, drawn>>

LengthRefused ==
  /\ pc = "expand" /\ TooLong(call)
  /\ Throws("invalid_argument")

NextBlockDue ==
  pc = "expand" /\ ~TooLong(call) /\ Len(blocks) < BlocksFor(call)

Expand ==
  /\ NextBlockDue
  /\ blocks' = Append(blocks, Block(Head(todo), Len(blocks) + 1))
  /\ UNCHANGED <<call, pc, todo, prk, okm, params, st, i, ret, drawn>>

\* Mutant: a null result is not noticed, and the digest stays zero.
HmacUnchecked ==
  /\ pc = "extract"
  /\ prk' = [key |-> <<>>, data |-> <<>>]
  /\ pc' = "expand"
  /\ UNCHANGED <<call, todo, blocks, okm, params, st, i, ret, drawn>>

\* HMAC() returns null, as it does for a negative length.
HmacFails ==
  /\ pc = "extract" \/ NextBlockDue
  /\ Throws("runtime_error")

Expanded ==
  /\ pc = "expand" /\ ~TooLong(call) /\ Len(blocks) = BlocksFor(call)
  /\ okm' = Append(okm, blocks) /\ todo' = Tail(todo)
  /\ prk' = <<>> /\ blocks' = <<>>
  /\ pc' = IF Len(todo) > 1 THEN "extract" ELSE "parse"
  /\ UNCHANGED <<call, params, st, i, ret, drawn>>

\* The parsing at the end of get_init_params().
Parse ==
  /\ pc = "parse" /\ call.op # "hkdf"
  /\ \E raw \in Digests : params' = InitParams(raw)
  /\ pc' = "parsed"
  /\ UNCHANGED <<call, todo, prk, blocks, okm, st, i, ret, drawn>>

ReturnSeeds ==
  /\ \/ pc = "parse"  /\ call.op = "hkdf"
     \/ pc = "parsed" /\ call.op = "get_init_params"
  /\ Returns

MakeState ==
  /\ pc = "parsed" /\ call.op # "get_init_params"
  /\ st' = make_state(params)
  /\ i' = 0 /\ pc' = "warmup"
  /\ UNCHANGED <<call, todo, prk, blocks, okm, params, ret, drawn>>

\* Mutant: the loop counts in a byte.
ByteStep ==
  /\ pc \in {"warmup", "mixed"} /\ i < StepsDue
  /\ st' = step(st)
  /\ i' = (i + 1) % BYTES
  /\ UNCHANGED <<call, pc, todo, prk, blocks, okm, params, ret, drawn>>

\* Mutant: the loop goes on at its limit.
ExtraStep ==
  /\ pc \in {"warmup", "mixed"} /\ i <= StepsDue
  /\ st' = step(st)
  /\ i' = i + 1
  /\ UNCHANGED <<call, pc, todo, prk, blocks, okm, params, ret, drawn>>

\* Mutant: the first turn of the loop steps twice.
LateStep ==
  /\ pc \in {"warmup", "mixed"} /\ i < StepsDue
  /\ st' = IF i = 0 THEN step(step(st)) ELSE step(st)
  /\ i' = i + 1
  /\ UNCHANGED <<call, pc, todo, prk, blocks, okm, params, ret, drawn>>

Step ==
  /\ pc \in {"warmup", "mixed"} /\ i < StepsDue
  /\ st' = step(st)
  /\ i' = i + 1
  /\ UNCHANGED <<call, pc, todo, prk, blocks, okm, params, ret, drawn>>

Mix ==
  /\ pc = "warmup" /\ i = WARMUP_STEPS
  /\ call.op = "derive_state_with_mixing"
  /\ \E h \in Hashes : st' = MixedWith(st, h)
  /\ i' = 0 /\ pc' = "mixed"
  /\ UNCHANGED <<call, todo, prk, blocks, okm, params, ret, drawn>>

ReturnState ==
  /\ pc \in {"warmup", "mixed"} /\ i = StepsDue
  /\ pc = "mixed" \/ call.op = "derive_state"
  /\ Returns

\* What happens in a call once it has begun.
Proceed ==
  \/ Extract \/ Expand \/ Expanded \/ LengthRefused \/ HmacFails
  \/ Parse \/ ReturnSeeds \/ MakeState \/ Step \/ Mix \/ ReturnState

Next == Proceed \/ \E c \in Calls : Call(c) \/ CallRefused(c)

Spec == Init /\ [][Next]_vars

\* The thread that makes the calls keeps running; no call waits for another.
FairSpec == Spec /\ WF_vars(Proceed)

=============================================================================
