------------------------- MODULE KeyScheduleProperties -------------------------
(***************************************************************************)
(* What must hold of the key schedule, for the calls of module Cipher and  *)
(* for those that only tests and other clients make.                       *)
(***************************************************************************)
EXTENDS KeySchedule, WordLaws

CONSTANT Symbols

ASSUME WordsAssumption ==
  Digests \subseteq RawSeed /\ Hashes \subseteq [1..4 -> Word]

ASSUME CallAssumption ==
  Calls \subseteq [op : Operations, key : Seq(Symbols), nonce : Seq(Symbols),
                   salt : Seq(Symbols), info : Seq(Symbols), length : Nat]

\* The suffixes differ, and one block is enough for a seed.
ASSUME HkdfAssumption ==
  /\ DEFAULT_INFO \in Seq(Symbols)
  /\ {StateSuffix, ParamSuffix, ZeroByte} \subseteq Symbols
  /\ StateSuffix # ParamSuffix
  /\ hash_len \in Nat /\ SEED_LEN \in 1 .. hash_len
  /\ MAX_BLOCKS \in Nat \ {0} /\ BYTES \in Nat /\ MAX_BLOCKS < BYTES
  /\ INT_MAX \in Nat /\ hash_len <= INT_MAX
  /\ HMAC_BLOCK \in Nat /\ hash_len <= HMAC_BLOCK
  /\ WARMUP_STEPS \in Nat /\ POST_HASH_STEPS \in Nat

\* constants.hpp: both loops end where the parameters have just drifted, and
\* clamping a parameter that is clamped already moves it.
ASSUME ScheduleAssumption ==
  /\ WARMUP_STEPS % 64 = 0 /\ POST_HASH_STEPS % 64 = 0
  /\ WARMUP_STEPS > 0 /\ POST_HASH_STEPS > 0
  /\ Val(PARAM_FLOOR) % Val(DRIFT_MASK) > 0

-----------------------------------------------------------------------------
(* Invariants.                                                             *)

Stepping == pc \in {"warmup", "mixed"}

\* The State is made of words, and the control of a call fits what it has done.
TypeOK ==
  /\ call \in Calls \cup {NoCall}
  /\ pc \in {"idle", "extract", "expand", "parse", "parsed", "warmup", "mixed"}
  /\ params \in RawSeed /\ st \in State
  /\ i \in Nat /\ (Stepping => i <= StepsDue)
  /\ pc \in {"extract", "expand"} =>
       /\ Len(okm) < Len(InfosOf(call))
       /\ todo = SubSeq(InfosOf(call), Len(okm) + 1, Len(InfosOf(call)))

\* The draws of get_init_params() and of the two derivations.
SeedDraws == {d \in drawn : d.call.op # "hkdf"}

EffectiveInfo(c) == IF c.info = <<>> THEN DEFAULT_INFO ELSE c.info

\* The bytes of nonce and salt that HMAC is told of: the size is narrowed to
\* int, so that of 4 GiB and more only the remainder is left.
EffectiveSalt(c) ==
  SubSeq(SaltOf(c), 1, Len(SaltOf(c)) % (2 * (INT_MAX + 1)))

ByteAt(u, k) == IF k \in DOMAIN u THEN u[k] ELSE ZeroByte

\* Two byte strings are one key of HMAC: they are equal, or they differ in
\* nothing but zero bytes at the end that fill up one block.
OneHmacKey(u, v) ==
  IF Len(u) <= HMAC_BLOCK /\ Len(v) <= HMAC_BLOCK
  THEN \A k \in 1 .. HMAC_BLOCK : ByteAt(u, k) = ByteAt(v, k)
  ELSE u = v

\* Exactly which derivations share a seed, for nonces and salts of any sizes:
\* those for the same purpose (variables or parameters), of the same key, of
\* the same context, and of nonces and salts that are one key of HMAC, taken
\* together and cut to the size that is left of theirs.  No info is mistaken
\* for another with its suffix, no failure of HMAC gives two clients one seed,
\* and nothing but the arguments enters a seed.
DerivationsApart ==
  \A a, b \in SeedDraws : \A j, k \in 1..2 :
    a.okm[j] = b.okm[k] <=>
      /\ j = k
      /\ a.call.key = b.call.key
      /\ EffectiveInfo(a.call) = EffectiveInfo(b.call)
      /\ OneHmacKey(EffectiveSalt(a.call), EffectiveSalt(b.call))

\* The counter of blocks, one byte, neither wraps nor repeats: whatever length
\* is asked for, block k is the one that HKDF numbers k, and as many blocks are
\* made as the length takes.
BlocksNumbered ==
  /\ pc = "expand" => \A k \in DOMAIN blocks : blocks[k].data[3] = k
  /\ \A d \in drawn : d.call.op = "hkdf" =>
       /\ \A k \in DOMAIN d.okm[1] : d.okm[1][k].data[3] = k
       /\ hash_len * Len(d.okm[1]) >= d.call.length

\* The State that is warmed up has other parameters, all four of them, than
\* get_init_params() reports: they are clamped once more, and clamping is not
\* idempotent.
ClampedTwice ==
  pc = "warmup" /\ i = 0 =>
    /\ st.alpha # params.alpha /\ st.gamma # params.gamma
    /\ st.mu # params.mu       /\ st.sigma # params.sigma

\* No hash, not even one made of the warmed-up variables or of their
\* complements, leaves a variable at an absorbing value to be stepped from.
MixedNotAbsorbing == pc = "mixed" /\ i = 0 => NoneAbsorbing(st)

\* The steps a State has taken since make_state().
StepsTaken == IF pc = "mixed" THEN WARMUP_STEPS + i ELSE i

\* A State that is released has just drifted: its counter is at a multiple of
\* the drift interval and its parameters, which lie in the chaotic regime, were
\* drawn from the variables one step before, after any hash was mixed in.
ReleasedAtDrift ==
  /\ Stepping => Val(st.counter) = StepsTaken % Size /\ AllInRegime(st)
  /\ Stepping /\ i = StepsDue => DriftDue(st.counter)

-----------------------------------------------------------------------------
(* The end of a call.                                                      *)

\* How many steps a call may still take: to extract, to expand block by block
\* and to go on, for each info; to parse, to make the State, to mix; and the
\* steps of both loops.
StatementsLeft ==
  LET expansions == Len(todo) * (BlocksFor(call) + 2)
      steps      == WARMUP_STEPS + POST_HASH_STEPS
  IN  CASE pc = "extract" -> expansions + steps + 3
        [] pc = "expand"  -> expansions - 1 - Len(blocks) + steps + 3
        [] pc = "parse"   -> steps + 3
        [] pc = "parsed"  -> steps + 2
        [] pc = "warmup"  -> steps + 1 - i
        [] pc = "mixed"   -> POST_HASH_STEPS - i
        [] OTHER          -> 0

\* No turn of a loop is for nothing: at any length, and whatever the widths of
\* the counters, each step of a call brings its end nearer.
EndNearer ==
  [][pc # "idle" =>
       \/ pc' = "idle"
       \/ StatementsLeft' \in 0 .. StatementsLeft - 1]_vars


\* Every call ends: no loop of the key schedule runs for ever, at no length
\* and whatever HMAC does.
EveryCallReturns == pc # "idle" ~> pc = "idle"

-----------------------------------------------------------------------------
(* What the repository says and the code does not do.                      *)

\* MANUAL.md: nonces ensure that identical keys produce different keystreams.
NoncesSeparate ==
  \A a, b \in SeedDraws :
    a.call.nonce # b.call.nonce /\ [a.call EXCEPT !.nonce = b.call.nonce] = b.call
      => a.okm # b.okm

=============================================================================
