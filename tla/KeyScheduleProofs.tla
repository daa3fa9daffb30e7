--------------------------- MODULE KeyScheduleProofs ---------------------------
(***************************************************************************)
(* Proofs about the key schedule, for any clients, lengths and words.      *)
(***************************************************************************)
EXTENDS KeyScheduleProperties, WordLawsProofs, SequenceTheorems, Numbers

\* The laws are used as they are written.
USE DEF WordLaw, OperationLaw, ShiftLaw, ProductLaw, RegimeLaw

-----------------------------------------------------------------------------
(* Sequences whose elements need no common type.                           *)

IsSeq(s) == s \in Seq({s[k] : k \in DOMAIN s})

LEMMA EmptyIsSeq == IsSeq(<<>>) /\ Len(<<>>) = 0
  BY DEF IsSeq

LEMMA AppendIsSeq ==
  ASSUME NEW s, IsSeq(s), NEW e
  PROVE  /\ IsSeq(Append(s, e))
         /\ Len(s) \in Nat /\ Len(Append(s, e)) = Len(s) + 1
         /\ DOMAIN s = 1 .. Len(s)
         /\ DOMAIN Append(s, e) = 1 .. Len(s) + 1
         /\ \A k \in 1 .. Len(s) : Append(s, e)[k] = s[k]
         /\ Append(s, e)[Len(s) + 1] = e
<1>. DEFINE S == {s[k] : k \in DOMAIN s} \cup {e}
            t == Append(s, e)
<1>1. s \in Seq(S)
  BY DEF IsSeq
<1>2. /\ t \in Seq(S) /\ Len(s) \in Nat /\ Len(t) = Len(s) + 1
      /\ DOMAIN s = 1 .. Len(s) /\ DOMAIN t = 1 .. Len(t)
      /\ \A k \in 1 .. Len(s) : t[k] = s[k]
      /\ t[Len(s) + 1] = e
  BY <1>1, AppendProperties, LenProperties
<1>3. t \in Seq({t[k] : k \in DOMAIN t})
  BY <1>2
<1>. QED BY <1>2, <1>3 DEF IsSeq

-----------------------------------------------------------------------------
(* The operators of the key schedule.                                      *)

\* Zero padding keeps byte strings of one length apart.
LEMMA PaddingSeparates ==
  ASSUME NEW S, NEW s \in Seq(S), NEW t \in Seq(S),
         Len(s) = Len(t), Padded(s) = Padded(t)
  PROVE  s = t
<1>1. /\ DOMAIN s = 1 .. Len(s) /\ DOMAIN t = 1 .. Len(s)
      /\ s \in [1 .. Len(s) -> S] /\ t \in [1 .. Len(s) -> S]
  BY LenProperties
<1>. DEFINE A == {j \in DOMAIN s : s[j] # ZeroByte}
            B == {j \in DOMAIN t : t[j] # ZeroByte}
<1>2. A = DOMAIN Padded(s) /\ B = DOMAIN Padded(t)
  BY DEF Padded
<1>3. A = B
  BY <1>2
<1>4. ASSUME NEW k \in 1 .. Len(s) PROVE s[k] = t[k]
  <2>1. CASE k \in A
    <3>1. Padded(s)[k] = s[k] /\ Padded(t)[k] = t[k]
      BY <1>3, <2>1 DEF Padded
    <3>. QED BY <3>1
  <2>2. CASE k \notin A
    BY <1>1, <1>3, <2>2
  <2>. QED BY <2>1, <2>2
<1>. QED BY <1>1, <1>4

\* Zero padding makes one of two byte strings that fit a block exactly where they
\* are the same byte by byte once filled up.
LEMMA PaddingExact ==
  ASSUME NEW S, NEW s \in Seq(S), NEW t \in Seq(S),
         Len(s) <= HMAC_BLOCK, Len(t) <= HMAC_BLOCK
  PROVE  Padded(s) = Padded(t)
           <=> \A k \in 1 .. HMAC_BLOCK : ByteAt(s, k) = ByteAt(t, k)
<1>. DEFINE A == {j \in DOMAIN s : s[j] # ZeroByte}
            B == {j \in DOMAIN t : t[j] # ZeroByte}
<1>1. /\ DOMAIN s = 1 .. Len(s) /\ DOMAIN t = 1 .. Len(t)
      /\ Len(s) \in Nat /\ Len(t) \in Nat /\ HMAC_BLOCK \in Nat
  BY LenProperties, HkdfAssumption
<1>2. /\ DOMAIN s \subseteq 1 .. HMAC_BLOCK
      /\ DOMAIN t \subseteq 1 .. HMAC_BLOCK
  BY <1>1
<1>3. /\ Padded(s) = [k \in A |-> s[k]] /\ Padded(t) = [k \in B |-> t[k]]
      /\ A = DOMAIN Padded(s) /\ B = DOMAIN Padded(t)
  BY DEF Padded
<1>4. ASSUME Padded(s) = Padded(t), NEW k \in 1 .. HMAC_BLOCK
      PROVE  ByteAt(s, k) = ByteAt(t, k)
  <2>1. A = B
    BY <1>3, <1>4
  <2>2. CASE k \in A
    <3>1. Padded(s)[k] = s[k] /\ Padded(t)[k] = t[k]
      BY <1>3, <2>1, <2>2
    <3>. QED BY <1>4, <2>1, <2>2, <3>1 DEF ByteAt
  <2>3. CASE k \notin A
    <3>1. ByteAt(s, k) = ZeroByte
      BY <2>3 DEF ByteAt
    <3>2. ByteAt(t, k) = ZeroByte
      BY <2>1, <2>3 DEF ByteAt
    <3>. QED BY <3>1, <3>2
  <2>. QED BY <2>2, <2>3
<1>5. ASSUME \A k \in 1 .. HMAC_BLOCK : ByteAt(s, k) = ByteAt(t, k)
      PROVE  Padded(s) = Padded(t)
  <2>1. ASSUME NEW k \in A PROVE k \in B /\ s[k] = t[k]
    <3>1. ByteAt(s, k) = s[k] /\ ByteAt(s, k) = ByteAt(t, k) /\ s[k] # ZeroByte
      BY <1>2, <1>5 DEF ByteAt
    <3>. QED BY <3>1 DEF ByteAt
  <2>2. ASSUME NEW k \in B PROVE k \in A
    <3>1. ByteAt(t, k) = t[k] /\ ByteAt(s, k) = ByteAt(t, k) /\ t[k] # ZeroByte
      BY <1>2, <1>5 DEF ByteAt
    <3>. QED BY <3>1 DEF ByteAt
  <2>. HIDE DEF A, B
  <2>3. A = B
    BY <2>1, <2>2
  <2>4. [k \in A |-> s[k]] = [k \in B |-> t[k]]
    BY <2>1, <2>3
  <2>. QED BY <1>3, <2>4
<1>. QED BY <1>4, <1>5

\* OneHmacKey says which byte strings are one key of HMAC.
LEMMA HmacKeyExact ==
  ASSUME NEW S, NEW s \in Seq(S), NEW t \in Seq(S)
  PROVE  HmacKey(s) = HmacKey(t) <=> OneHmacKey(s, t)
<1>1. Len(s) \in Nat /\ Len(t) \in Nat /\ HMAC_BLOCK \in Nat
  BY LenProperties, HkdfAssumption
<1>2. ASSUME NEW u \in {s, t}
      PROVE  /\ HmacKey(u).hashed = (Len(u) > HMAC_BLOCK)
             /\ HmacKey(u).bytes = IF Len(u) > HMAC_BLOCK THEN u ELSE Padded(u)
             /\ HmacKey(u) = [hashed |-> HmacKey(u).hashed, bytes |-> HmacKey(u).bytes]
  BY DEF HmacKey
<1>3. CASE Len(s) <= HMAC_BLOCK /\ Len(t) <= HMAC_BLOCK
  <2>1. /\ HmacKey(s).bytes = Padded(s) /\ HmacKey(t).bytes = Padded(t)
        /\ HmacKey(s).hashed = HmacKey(t).hashed
    <3>1. ~(Len(s) > HMAC_BLOCK) /\ ~(Len(t) > HMAC_BLOCK)
      BY <1>1, <1>3
    <3>. QED BY <1>2, <3>1
  <2>2. HmacKey(s) = HmacKey(t) <=> Padded(s) = Padded(t)
    BY <1>2, <2>1
  <2>. QED BY <1>3, <2>2, PaddingExact DEF OneHmacKey
<1>4. CASE Len(s) > HMAC_BLOCK /\ Len(t) > HMAC_BLOCK
  <2>1. HmacKey(s).bytes = s /\ HmacKey(t).bytes = t
    BY <1>2, <1>4
  <2>2. ~(Len(s) <= HMAC_BLOCK)
    BY <1>1, <1>4
  <2>. QED BY <2>1, <2>2 DEF OneHmacKey
<1>5. CASE (Len(s) > HMAC_BLOCK) # (Len(t) > HMAC_BLOCK)
  <2>1. HmacKey(s) # HmacKey(t)
    BY <1>2, <1>5
  <2>2. s # t /\ ~(Len(s) <= HMAC_BLOCK /\ Len(t) <= HMAC_BLOCK)
    BY <1>1, <1>5
  <2>. QED BY <2>1, <2>2 DEF OneHmacKey
<1>. QED BY <1>1, <1>3, <1>4, <1>5

\* Zero padding keeps byte strings of one length apart.
LEMMA OneLengthApart ==
  ASSUME NEW S, NEW s \in Seq(S), NEW t \in Seq(S),
         Len(s) = Len(t), OneHmacKey(s, t)
  PROVE  s = t
<1>1. CASE Len(s) <= HMAC_BLOCK
  <2>1. Padded(s) = Padded(t)
    BY <1>1, PaddingExact DEF OneHmacKey
  <2>. QED BY <2>1, PaddingSeparates
<1>2. CASE ~(Len(s) <= HMAC_BLOCK)
  BY <1>2 DEF OneHmacKey
<1>. QED BY <1>1, <1>2

\* Where HMAC accepts a size, it is told the remainder.
LEMMA Narrowed ==
  ASSUME NEW size \in Nat, IntOf(size) >= 0
  PROVE  IntOf(size) = size % (2 * (INT_MAX + 1)) /\ IntOf(size) \in 0 .. size
<1>. DEFINE m == 2 * (INT_MAX + 1)
            low == size % m
<1>1. INT_MAX \in Nat /\ m \in Nat \ {0}
  BY HkdfAssumption
<1>. HIDE DEF m
<1>2. low \in 0 .. m - 1 /\ low <= size
  BY <1>1
<1>3. IntOf(size) = IF low <= INT_MAX THEN low ELSE low - m
  BY DEF IntOf, m
<1>. HIDE DEF low
<1>4. IntOf(size) = low
  BY <1>1, <1>2, <1>3
<1>. QED BY <1>2, <1>4 DEF low, m

\* An info is recovered from what build_info() makes of it, and so is its use.
LEMMA InfoRecovered ==
  ASSUME NEW a \in Calls, NEW b \in Calls, a.op # "hkdf", b.op # "hkdf",
         NEW j \in 1..2, NEW k \in 1..2, InfosOf(a)[j] = InfosOf(b)[k]
  PROVE  j = k /\ EffectiveInfo(a) = EffectiveInfo(b)
<1>. DEFINE suffix(n) == IF n = 1 THEN StateSuffix ELSE ParamSuffix
<1>1. /\ EffectiveInfo(a) \in Seq(Symbols) /\ EffectiveInfo(b) \in Seq(Symbols)
      /\ suffix(j) \in Symbols /\ suffix(k) \in Symbols
  BY CallAssumption, HkdfAssumption DEF EffectiveInfo
<1>2. /\ InfosOf(a)[j] = Append(EffectiveInfo(a), suffix(j))
      /\ InfosOf(b)[k] = Append(EffectiveInfo(b), suffix(k))
  <2>1. ASSUME NEW c \in Calls, c.op # "hkdf", NEW n \in 1..2
        PROVE  InfosOf(c)[n] = Append(EffectiveInfo(c), suffix(n))
    <3>1. InfosOf(c) = <<Append(EffectiveInfo(c), StateSuffix),
                         Append(EffectiveInfo(c), ParamSuffix)>>
      BY <2>1 DEF InfosOf, build_info, EffectiveInfo
    <3>. QED BY <3>1
  <2>. QED BY <2>1
<1>. DEFINE e == suffix(j)
            f == suffix(k)
            v == EffectiveInfo(a)
            w == EffectiveInfo(b)
<1>. HIDE DEF suffix
<1>3. v \in Seq(Symbols) /\ w \in Seq(Symbols) /\ e \in Symbols /\ f \in Symbols
      /\ Append(v, e) = Append(w, f)
  BY <1>1, <1>2
<1>. HIDE DEF e, f, v, w
<1>4. v = w /\ e = f
  BY <1>3, AppendInjective
<1>. QED BY <1>4, HkdfAssumption DEF suffix, e, f, v, w

LEMMA BlocksEnough ==
  ASSUME NEW c \in Calls
  PROVE  /\ BlocksFor(c) \in Nat
         /\ hash_len * BlocksFor(c) >= LengthOf(c)
         /\ LengthOf(c) > 0 => BlocksFor(c) >= 1
         /\ ~TooLong(c) => BlocksFor(c) <= MAX_BLOCKS
<1>1. /\ LengthOf(c) \in Nat /\ hash_len \in Nat \ {0} /\ MAX_BLOCKS \in Nat
  BY CallAssumption, HkdfAssumption DEF LengthOf, Operations
<1>. DEFINE a == LengthOf(c) + hash_len - 1
            n == a \div hash_len
<1>2. a \in Nat
  BY <1>1
<1>3. n \in Nat /\ hash_len * n <= a /\ a < hash_len * n + hash_len
  BY <1>1, <1>2, Division
<1>4. BlocksFor(c) = n
  BY DEF BlocksFor
<1>. HIDE DEF n
<1>5. hash_len * n >= LengthOf(c)
  BY <1>1, <1>3
<1>6. LengthOf(c) > 0 => n >= 1
  BY <1>1, <1>3
<1>7. ASSUME ~TooLong(c) PROVE n <= MAX_BLOCKS
  <2>. SUFFICES ASSUME MAX_BLOCKS < n PROVE FALSE
    BY <1>1, <1>3
  <2>1. hash_len * MAX_BLOCKS + hash_len <= hash_len * n
    BY <1>1, <1>3, Multiples
  <2>2. LengthOf(c) <= hash_len * MAX_BLOCKS
    BY <1>1, <1>7 DEF TooLong
  <2>. QED BY <1>1, <1>3, <2>1, <2>2
<1>. QED BY <1>3, <1>4, <1>5, <1>6, <1>7

LEMMA ParamsType ==
  ASSUME NEW raw \in RawSeed
  PROVE  InitParams(raw) \in RawSeed
  BY GuardType, ClampInRegime DEF InitParams, RawSeed

\* Clamping a parameter that has been clamped moves it.
LEMMA ClampMoves ==
  ASSUME NEW raw \in Word
  PROVE  clamp_param(clamp_param(raw)) # clamp_param(raw)
<1>. DEFINE floor == Val(PARAM_FLOOR)
            mask  == Val(DRIFT_MASK)
<1>1. /\ floor \in Nat /\ mask \in Nat \ {0} /\ Size \in Nat
      /\ floor + mask <= Size /\ floor % mask > 0
  BY WordAssumption, RegimeAssumption, ScheduleAssumption
<1>2. ASSUME NEW v \in Word
      PROVE  Val(clamp_param(v)) = floor + (Val(v) % mask)
  <2>1. /\ Val(v) \in Nat /\ Mod(v, DRIFT_MASK) \in Word
        /\ Val(Mod(v, DRIFT_MASK)) = Val(v) % mask
    BY <1>1, WordAssumption, RegimeAssumption, OperationAssumption
  <2>2. Val(clamp_param(v)) = (floor + (Val(v) % mask)) % Size
    BY <2>1, RegimeAssumption, OperationAssumption DEF clamp_param
  <2>3. Val(v) % mask \in 0 .. mask - 1
    BY <1>1, <2>1
  <2>. DEFINE p == Val(v) % mask
  <2>. HIDE DEF floor, mask, p
  <2>4. (floor + p) % Size = floor + p
    BY <1>1, <2>3 DEF p
  <2>. QED BY <2>2, <2>4 DEF p
<1>. DEFINE r == Val(raw) % mask
<1>3. r \in 0 .. mask - 1
  BY <1>1, WordAssumption
<1>4. clamp_param(raw) \in Word
  BY ClampInRegime
<1>5. /\ Val(clamp_param(raw)) = floor + r
      /\ Val(clamp_param(clamp_param(raw))) = floor + ((floor + r) % mask)
  BY <1>2, <1>4
<1>. HIDE DEF floor, mask, r
<1>6. (floor + r) % mask # r
  BY <1>1, <1>3, ShiftedRemainder
<1>7. (floor + r) % mask \in Nat
  BY <1>1, <1>3
<1>. QED BY <1>1, <1>3, <1>5, <1>6, <1>7

-----------------------------------------------------------------------------
(* What is known of the blocks of a call, while it runs and afterwards.    *)

Chain(c, j, bs) ==
  \A k \in 1 .. Len(bs) : /\ bs[k].key = hkdf_extract(c)
                          /\ bs[k].data[2] = InfosOf(c)[j]
                          /\ bs[k].data[3] = k
                          /\ k = 1 => bs[k] = [key  |-> hkdf_extract(c),
                                              data |-> <<<<>>, InfosOf(c)[j], 1>>]

Made(c, o) ==
  /\ IsSeq(o) /\ Len(o) <= Len(InfosOf(c))
  /\ \A j \in 1 .. Len(o) : Len(o[j]) = BlocksFor(c) /\ IsSeq(o[j]) /\ Chain(c, j, o[j])
  /\ Len(o) > 0 => ~TooLong(c) /\ IntOf(Len(ExtractKey(c))) >= 0

DerivationInv ==
  /\ pc # "idle" => call \in Calls /\ Made(call, okm)
  /\ pc = "idle" => okm = <<>>
  /\ pc \in {"idle", "extract"} => blocks = <<>>
  /\ pc = "expand" =>
       /\ prk = hkdf_extract(call) /\ IntOf(Len(ExtractKey(call))) >= 0
       /\ IsSeq(blocks) /\ Len(blocks) <= BlocksFor(call)
       /\ Chain(call, Len(okm) + 1, blocks)
  /\ pc \notin {"idle", "extract", "expand"} => Len(okm) = Len(InfosOf(call))
  /\ \A d \in drawn : /\ d.call \in Calls /\ Made(d.call, d.okm)
                      /\ Len(d.okm) = Len(InfosOf(d.call))

LEMMA InfosType ==
  ASSUME NEW c \in Calls
  PROVE  InfosOf(c) \in Seq(Seq(Symbols)) /\ Len(InfosOf(c)) \in 1..2
<1>1. /\ c.info \in Seq(Symbols) /\ EffectiveInfo(c) \in Seq(Symbols)
      /\ StateSuffix \in Symbols /\ ParamSuffix \in Symbols
  BY CallAssumption, HkdfAssumption DEF EffectiveInfo
<1>2. /\ Append(EffectiveInfo(c), StateSuffix) \in Seq(Symbols)
      /\ Append(EffectiveInfo(c), ParamSuffix) \in Seq(Symbols)
  BY <1>1, AppendProperties
<1>3. InfosOf(c) = IF c.op = "hkdf" THEN <<c.info>>
                   ELSE <<Append(EffectiveInfo(c), StateSuffix),
                          Append(EffectiveInfo(c), ParamSuffix)>>
  BY DEF InfosOf, build_info, EffectiveInfo
<1>. QED BY <1>1, <1>2, <1>3

LEMMA NothingMade == ASSUME NEW c \in Calls PROVE Made(c, <<>>)
  BY EmptyIsSeq, InfosType DEF Made

LEMMA IdleType == NoCall \notin Calls
  BY CallAssumption DEF NoCall, Operations

-----------------------------------------------------------------------------
(* Type correctness.                                                       *)

LEMMA ZerosType == ZeroState \in State /\ NoParams \in RawSeed
  BY WordAssumption DEF ZeroState, NoParams, State, RawSeed

LEMMA InitInv == Init => TypeOK /\ DerivationInv
  BY ZerosType DEF Init, TypeOK, DerivationInv, Stepping

\* A call that ends leaves the types behind it that hold between calls.
LEMMA LeaveType == ASSUME NEW result, Leave(result) PROVE TypeOK'
  BY ZerosType DEF Leave, TypeOK, Stepping

LEMMA MixedType ==
  ASSUME NEW s \in State, NEW h \in Hashes
  PROVE  /\ MixedWith(s, h) \in State
         /\ NoneAbsorbing(MixedWith(s, h))
         /\ Parameters(MixedWith(s, h)) = Parameters(s)
         /\ MixedWith(s, h).counter = s.counter
<1>1. /\ s.x \in Word /\ s.y \in Word /\ s.z \in Word /\ s.w \in Word
      /\ h[1] \in Word /\ h[2] \in Word /\ h[3] \in Word /\ h[4] \in Word
  BY WordsAssumption DEF State
<1>2. /\ Xor(s.x, h[1]) \in Word /\ Xor(s.y, h[2]) \in Word
      /\ Xor(s.z, h[3]) \in Word /\ Xor(s.w, h[4]) \in Word
  BY <1>1, OperationAssumption
<1>. DEFINE a == guard_absorbing(Xor(s.x, h[1]))
            b == guard_absorbing(Xor(s.y, h[2]))
            c == guard_absorbing(Xor(s.z, h[3]))
            d == guard_absorbing(Xor(s.w, h[4]))
<1>3. /\ a \in Word /\ b \in Word /\ c \in Word /\ d \in Word
      /\ ~Absorbing(a) /\ ~Absorbing(b) /\ ~Absorbing(c) /\ ~Absorbing(d)
  BY <1>2, GuardType
<1>4. MixedWith(s, h) = [s EXCEPT !.x = a, !.y = b, !.z = c, !.w = d]
  BY DEF MixedWith
<1>. DEFINE t == MixedWith(s, h)
<1>. HIDE DEF a, b, c, d
<1>5. t \in State
  BY <1>3, <1>4 DEF State
<1>6. /\ t.x = a /\ t.y = b /\ t.z = c /\ t.w = d
      /\ t.alpha = s.alpha /\ t.gamma = s.gamma /\ t.mu = s.mu
      /\ t.sigma = s.sigma /\ t.counter = s.counter
  BY <1>4 DEF State
<1>. HIDE DEF t
<1>7. NoneAbsorbing(t) /\ Parameters(t) = Parameters(s) /\ t.counter = s.counter
  BY <1>3, <1>6 DEF NoneAbsorbing, Parameters
<1>. QED BY <1>5, <1>7 DEF t

LEMMA TypeNext == TypeOK /\ DerivationInv /\ [Next]_vars => TypeOK'
<1>. SUFFICES ASSUME TypeOK, DerivationInv, [Next]_vars PROVE TypeOK'
  OBVIOUS
<1>1. ASSUME NEW c \in Calls, Call(c) PROVE TypeOK'
  <2>1. /\ call' = c /\ pc' = "extract" /\ todo' = InfosOf(c)
        /\ okm' = <<>> /\ params' = params /\ st' = st /\ i' = i
    BY <1>1 DEF Call, DerivationInv
  <2>2. todo' = SubSeq(InfosOf(c), 1, Len(InfosOf(c)))
    BY <2>1, InfosType, SubSeqFull
  <2>. QED BY <2>1, <2>2, InfosType, EmptyIsSeq DEF TypeOK, Stepping
<1>2. ASSUME NEW c \in Calls, CallRefused(c) PROVE TypeOK'
  BY <1>2, LeaveType DEF CallRefused, Throws
<1>3. CASE Extract
  BY <1>3 DEF Extract, TypeOK, Stepping
<1>4. CASE Expand
  BY <1>4 DEF Expand, NextBlockDue, TypeOK, Stepping
<1>5. CASE Expanded
  <2>. DEFINE I == InfosOf(call)
              n == Len(okm)
  <2>1. /\ pc = "expand" /\ call' = call /\ call \in Calls
        /\ okm' = Append(okm, blocks) /\ todo' = Tail(todo)
        /\ pc' = IF Len(todo) > 1 THEN "extract" ELSE "parse"
        /\ params' = params /\ st' = st /\ i' = i
    BY <1>5 DEF Expanded, DerivationInv
  <2>2. /\ n \in Nat /\ n < Len(I) /\ Len(okm') = n + 1
        /\ todo = SubSeq(I, n + 1, Len(I))
    BY <2>1, AppendIsSeq DEF TypeOK, DerivationInv, Made
  <2>3. I \in Seq(Seq(Symbols)) /\ Len(I) \in 1..2
    BY <2>1, InfosType
  <2>. HIDE DEF I, n
  <2>4. Tail(todo) = SubSeq(I, n + 2, Len(I)) /\ Len(todo) = Len(I) - n
    <3>1. n + 1 \in 1 .. Len(I) /\ Len(I) \in n + 1 .. Len(I)
      BY <2>2, <2>3
    <3>2. Tail(SubSeq(I, n + 1, Len(I))) = SubSeq(I, n + 1 + 1, Len(I))
      BY <2>3, <3>1, HeadTailOfSubSeq
    <3>3. \A k \in n + 1 .. Len(I) : I[k] \in Seq(Symbols)
      BY <2>2, <2>3
    <3>4. Len(SubSeq(I, n + 1, Len(I))) = Len(I) - (n + 1) + 1
      <4>1. n + 1 \in Int /\ Len(I) \in Int /\ n + 1 <= Len(I)
        BY <2>2, <2>3
      <4>2. Len(SubSeq(I, n + 1, Len(I)))
              = IF n + 1 <= Len(I) THEN Len(I) - (n + 1) + 1 ELSE 0
        BY <3>3, <4>1, SubSeqProperties, Zenon
      <4>. QED BY <4>1, <4>2
    <3>. QED BY <2>2, <2>3, <3>2, <3>4
  <2>5. pc' \in {"extract", "expand"} =>
          /\ Len(okm') < Len(InfosOf(call'))
          /\ todo' = SubSeq(InfosOf(call'), Len(okm') + 1, Len(InfosOf(call')))
    <3>1. ASSUME pc' \in {"extract", "expand"} PROVE n + 1 < Len(I)
      BY <2>1, <2>2, <2>3, <2>4, <3>1
    <3>2. Len(okm') + 1 = n + 2 /\ InfosOf(call') = I
      BY <2>1, <2>2 DEF I
    <3>. QED BY <2>1, <2>2, <2>4, <3>1, <3>2
  <2>. QED BY <2>1, <2>5 DEF TypeOK, Stepping
<1>6. CASE LengthRefused
  BY <1>6, LeaveType DEF LengthRefused, Throws
<1>7. CASE HmacFails
  BY <1>7, LeaveType DEF HmacFails, Throws
<1>8. CASE Parse
  <2>1. params' \in RawSeed
    BY <1>8, WordsAssumption, ParamsType DEF Parse
  <2>. QED BY <1>8, <2>1 DEF Parse, TypeOK, Stepping
<1>9. CASE ReturnSeeds
  BY <1>9, LeaveType DEF ReturnSeeds, Returns
<1>10. CASE MakeState
  <2>1. st' \in State
    BY <1>10, SeedSound DEF MakeState, TypeOK
  <2>. QED BY <1>10, <2>1, HkdfAssumption DEF MakeState, TypeOK, Stepping, StepsDue
<1>11. CASE Step
  <2>1. st' \in State
    BY <1>11, StepEffect DEF Step, TypeOK
  <2>. QED BY <1>11, <2>1, HkdfAssumption DEF Step, TypeOK, Stepping, StepsDue
<1>12. CASE Mix
  <2>1. st' \in State
    BY <1>12, MixedType DEF Mix, TypeOK
  <2>. QED BY <1>12, <2>1, HkdfAssumption DEF Mix, TypeOK, Stepping, StepsDue
<1>13. CASE ReturnState
  BY <1>13, LeaveType DEF ReturnState, Returns
<1>14. CASE UNCHANGED vars
  BY <1>14 DEF vars, TypeOK, Stepping, StepsDue
<1>. QED BY <1>1, <1>2, <1>3, <1>4, <1>5, <1>6, <1>7, <1>8, <1>9, <1>10, <1>11,
         <1>12, <1>13, <1>14 DEF Next, Proceed

-----------------------------------------------------------------------------
(* The blocks.                                                             *)

LEMMA LeaveInv ==
  ASSUME NEW result, DerivationInv, Leave(result),
         \/ drawn' = drawn
         \/ /\ drawn' = drawn \cup {[call |-> call, okm |-> okm]}
            /\ pc \notin {"idle", "extract", "expand"}
  PROVE  DerivationInv'
<1>1. pc' = "idle" /\ okm' = <<>> /\ blocks' = <<>>
  BY DEF Leave
<1>2. ASSUME NEW d \in drawn'
      PROVE  /\ d.call \in Calls /\ Made(d.call, d.okm)
             /\ Len(d.okm) = Len(InfosOf(d.call))
  BY <1>2 DEF DerivationInv
<1>. QED BY <1>1, <1>2 DEF DerivationInv

LEMMA DerivationNext == TypeOK /\ DerivationInv /\ [Next]_vars => DerivationInv'
<1>. SUFFICES ASSUME TypeOK, DerivationInv, [Next]_vars PROVE DerivationInv'
  OBVIOUS
<1>1. ASSUME NEW c \in Calls, Call(c) PROVE DerivationInv'
  <2>1. /\ pc' = "extract" /\ call' = c /\ okm' = <<>> /\ blocks' = <<>>
        /\ drawn' = drawn
    BY <1>1 DEF Call, DerivationInv
  <2>. QED BY <2>1, NothingMade DEF DerivationInv
<1>2. ASSUME NEW c \in Calls, CallRefused(c) PROVE DerivationInv'
  BY <1>2, LeaveInv DEF CallRefused, Throws
<1>3. CASE Extract
  <2>1. /\ pc = "extract" /\ pc' = "expand" /\ prk' = hkdf_extract(call)
        /\ call' = call /\ okm' = okm /\ drawn' = drawn /\ blocks' = <<>>
        /\ IntOf(Len(ExtractKey(call))) >= 0 /\ call \in Calls
    BY <1>3 DEF Extract, DerivationInv
  <2>2. BlocksFor(call) \in Nat /\ Chain(call, Len(okm) + 1, <<>>)
    BY <2>1, BlocksEnough DEF Chain
  <2>. QED BY <2>1, <2>2, EmptyIsSeq DEF DerivationInv
<1>4. CASE Expand
  <2>. DEFINE n == Len(blocks)
              b == Block(Head(todo), n + 1)
  <2>1. /\ pc = "expand" /\ pc' = "expand" /\ prk' = prk /\ call' = call
        /\ okm' = okm /\ drawn' = drawn /\ blocks' = Append(blocks, b)
        /\ ~TooLong(call) /\ n < BlocksFor(call) /\ call \in Calls
    BY <1>4 DEF Expand, NextBlockDue, DerivationInv
  <2>2. /\ IsSeq(blocks') /\ n \in Nat /\ Len(blocks') = n + 1
        /\ \A k \in 1 .. n : blocks'[k] = blocks[k]
        /\ blocks'[n + 1] = b
    BY <2>1, AppendIsSeq DEF DerivationInv
  <2>3. Len(blocks') <= BlocksFor(call) /\ n + 1 <= MAX_BLOCKS
    BY <2>1, <2>2, BlocksEnough, HkdfAssumption
  <2>4. Head(todo) = InfosOf(call)[Len(okm) + 1]
    <3>1. /\ InfosOf(call) \in Seq(Seq(Symbols)) /\ Len(InfosOf(call)) \in Nat
          /\ Len(okm) \in Nat /\ Len(okm) < Len(InfosOf(call))
          /\ todo = SubSeq(InfosOf(call), Len(okm) + 1, Len(InfosOf(call)))
      BY <2>1, InfosType, AppendIsSeq DEF TypeOK, DerivationInv, Made
    <3>2. /\ Len(okm) + 1 \in 1 .. Len(InfosOf(call))
          /\ Len(InfosOf(call)) \in Len(okm) + 1 .. Len(InfosOf(call))
      BY <3>1
    <3>. QED BY <3>1, <3>2, HeadTailOfSubSeq
  <2>5. /\ b.key = prk /\ b.data[2] = Head(todo) /\ b.data[3] = n + 1
        /\ n + 1 = 1 => b = [key |-> prk, data |-> <<<<>>, Head(todo), 1>>]
    <3>1. b.data[3] = (n + 1) % BYTES /\ b.key = prk /\ b.data[2] = Head(todo)
      BY DEF Block
    <3>2. n + 1 \in Nat /\ n + 1 < BYTES /\ BYTES \in Nat
      BY <2>2, <2>3, HkdfAssumption
    <3>3. (n + 1) % BYTES = n + 1
      BY <3>2
    <3>4. ASSUME n + 1 = 1
          PROVE  b = [key |-> prk, data |-> <<<<>>, Head(todo), 1>>]
      BY <3>3, <3>4 DEF Block
    <3>. QED BY <3>1, <3>3, <3>4
  <2>. HIDE DEF b
  <2>6. Chain(call, Len(okm) + 1, blocks')
    <3>. SUFFICES ASSUME NEW k \in 1 .. n + 1
                  PROVE  /\ blocks'[k].key = hkdf_extract(call)
                         /\ blocks'[k].data[2] = InfosOf(call)[Len(okm) + 1]
                         /\ blocks'[k].data[3] = k
                         /\ k = 1 => blocks'[k] = [key  |-> hkdf_extract(call),
                                                 data |-> <<<<>>, InfosOf(call)[Len(okm) + 1], 1>>]
      BY <2>2 DEF Chain
    <3>1. CASE k \in 1 .. n
      <4>1. Chain(call, Len(okm) + 1, blocks) /\ blocks'[k] = blocks[k]
        BY <2>1, <2>2, <3>1 DEF DerivationInv
      <4>. QED BY <3>1, <4>1 DEF Chain
    <3>2. CASE k = n + 1
      BY <2>1, <2>2, <2>4, <2>5, <3>2 DEF DerivationInv
    <3>. QED BY <2>2, <3>1, <3>2
  <2>. QED BY <2>1, <2>2, <2>3, <2>6 DEF DerivationInv
<1>5. CASE Expanded
  <2>. DEFINE n == Len(okm)
  <2>1. /\ pc = "expand" /\ pc' \in {"extract", "parse"} /\ call' = call
        /\ okm' = Append(okm, blocks) /\ drawn' = drawn /\ blocks' = <<>>
        /\ ~TooLong(call) /\ Len(blocks) = BlocksFor(call) /\ call \in Calls
        /\ IntOf(Len(ExtractKey(call))) >= 0 /\ IsSeq(blocks)
        /\ Chain(call, n + 1, blocks) /\ Made(call, okm) /\ n < Len(InfosOf(call))
    BY <1>5 DEF Expanded, DerivationInv, TypeOK
  <2>2. /\ IsSeq(okm') /\ n \in Nat /\ Len(okm') = n + 1
        /\ \A j \in 1 .. n : okm'[j] = okm[j]
        /\ okm'[n + 1] = blocks
    BY <2>1, AppendIsSeq DEF Made
  <2>3. Made(call, okm')
    <3>1. ASSUME NEW j \in 1 .. n + 1
          PROVE  /\ Len(okm'[j]) = BlocksFor(call) /\ IsSeq(okm'[j])
                 /\ Chain(call, j, okm'[j])
      <4>1. CASE j \in 1 .. n
        BY <2>1, <2>2, <4>1 DEF Made
      <4>2. CASE j = n + 1
        BY <2>1, <2>2, <4>2
      <4>. QED BY <2>2, <4>1, <4>2
    <3>. QED BY <2>1, <2>2, <3>1, InfosType DEF Made
  <2>4. pc' = "parse" => Len(okm') = Len(InfosOf(call))
    <3>1. /\ pc' = IF Len(todo) > 1 THEN "extract" ELSE "parse"
          /\ todo = SubSeq(InfosOf(call), n + 1, Len(InfosOf(call)))
      BY <1>5, <2>1 DEF Expanded, TypeOK
    <3>2. /\ InfosOf(call) \in Seq(Seq(Symbols)) /\ Len(InfosOf(call)) \in Nat
          /\ \A k \in n + 1 .. Len(InfosOf(call)) : InfosOf(call)[k] \in Seq(Symbols)
      BY <2>1, <2>2, InfosType
    <3>. DEFINE I == InfosOf(call)
    <3>. HIDE DEF I
    <3>3. Len(SubSeq(I, n + 1, Len(I))) = Len(I) - n
      <4>1. n + 1 \in Int /\ Len(I) \in Int /\ n + 1 <= Len(I)
        BY <2>1, <2>2, <3>2 DEF I
      <4>2. \A k \in n + 1 .. Len(I) : I[k] \in Seq(Symbols)
        BY <3>2 DEF I
      <4>3. Len(SubSeq(I, n + 1, Len(I))) = Len(I) - (n + 1) + 1
        BY <4>1, <4>2, SubSeqProperties
      <4>. QED BY <2>2, <4>1, <4>3
    <3>. QED BY <2>1, <2>2, <3>1, <3>2, <3>3 DEF I
  <2>. QED BY <2>1, <2>3, <2>4 DEF DerivationInv
<1>6. CASE LengthRefused
  BY <1>6, LeaveInv DEF LengthRefused, Throws
<1>7. CASE HmacFails
  BY <1>7, LeaveInv DEF HmacFails, Throws
<1>8. CASE Parse
  BY <1>8 DEF Parse, DerivationInv
<1>9. CASE ReturnSeeds
  BY <1>9, LeaveInv DEF ReturnSeeds, Returns
<1>10. CASE MakeState
  BY <1>10 DEF MakeState, DerivationInv
<1>11. CASE Step
  BY <1>11 DEF Step, DerivationInv
<1>12. CASE Mix
  BY <1>12 DEF Mix, DerivationInv
<1>13. CASE ReturnState
  BY <1>13, LeaveInv DEF ReturnState, Returns
<1>14. CASE UNCHANGED vars
  BY <1>14 DEF vars, DerivationInv
<1>. QED BY <1>1, <1>2, <1>3, <1>4, <1>5, <1>6, <1>7, <1>8, <1>9, <1>10, <1>11,
         <1>12, <1>13, <1>14 DEF Next, Proceed

\* For any clients and any lengths, the State is made of words and the control
\* of a call fits what it has done.
THEOREM TypeCorrect == Spec => []TypeOK
  BY InitInv, TypeNext, DerivationNext, PTL DEF Spec

LEMMA DerivationCorrect == Spec => []DerivationInv
  BY InitInv, TypeNext, DerivationNext, PTL DEF Spec

-----------------------------------------------------------------------------
(* What the seeds are worth.                                               *)

LEMMA SaltType ==
  ASSUME NEW c \in Calls
  PROVE  SaltOf(c) \in Seq(Symbols) /\ Len(SaltOf(c)) \in Nat
<1>1. c.nonce \in Seq(Symbols) /\ c.salt \in Seq(Symbols)
  BY CallAssumption
<1>. QED BY <1>1, ConcatProperties, LenProperties DEF SaltOf, build_salt

\* The key of HKDF-Extract is the salt, as far as HMAC is told of it: no salt
\* at all and the zero bytes in its place are one key.
LEMMA ExtractExact ==
  ASSUME NEW c \in Calls, IntOf(Len(ExtractKey(c))) >= 0
  PROVE  /\ hkdf_extract(c) = [key |-> HmacKey(EffectiveSalt(c)), data |-> c.key]
         /\ EffectiveSalt(c) \in Seq(Symbols)
<1>1. SaltOf(c) \in Seq(Symbols) /\ Len(SaltOf(c)) \in Nat
  BY SaltType
<1>2. CASE SaltOf(c) = <<>>
  <2>1. ZeroSalt \in Seq(Symbols) /\ Len(ZeroSalt) = hash_len /\ hash_len \in Nat
    <3>1. hash_len \in Nat /\ ZeroByte \in Symbols
      BY HkdfAssumption
    <3>2. ZeroSalt \in [1 .. hash_len -> Symbols]
      BY <3>1 DEF ZeroSalt
    <3>. QED BY <3>1, <3>2
  <2>2. ExtractKey(c) = ZeroSalt
    BY <1>2 DEF ExtractKey
  <2>3. IntOf(hash_len) = hash_len
    <3>1. hash_len % (2 * (INT_MAX + 1)) = hash_len
      <4>1. INT_MAX \in Nat /\ hash_len <= INT_MAX
        BY HkdfAssumption
      <4>. QED BY <2>1, <4>1
    <3>. QED BY <3>1, HkdfAssumption DEF IntOf
  <2>4. SubSeq(ZeroSalt, 1, hash_len) = ZeroSalt
    BY <2>1, SubSeqFull
  <2>5. EffectiveSalt(c) = <<>> /\ <<>> \in Seq(Symbols) /\ Len(<<>>) = 0
    <3>1. Len(SaltOf(c)) = 0
      BY <1>2
    <3>2. INT_MAX \in Nat
      BY HkdfAssumption
    <3>3. 0 % (2 * (INT_MAX + 1)) = 0
      BY <3>2
    <3>4. SubSeq(SaltOf(c), 1, 0) = <<>>
      BY <1>1, SubSeqEmpty
    <3>. QED BY <3>1, <3>3, <3>4 DEF EffectiveSalt
  <2>6. OneHmacKey(ZeroSalt, <<>>)
    <3>1. Len(ZeroSalt) <= HMAC_BLOCK /\ 0 <= HMAC_BLOCK
      BY <2>1, HkdfAssumption
    <3>2. \A k \in 1 .. HMAC_BLOCK : ByteAt(ZeroSalt, k) = ByteAt(<<>>, k)
      BY DEF ByteAt, ZeroSalt
    <3>. QED BY <2>5, <3>1, <3>2 DEF OneHmacKey
  <2>7. HmacKey(ZeroSalt) = HmacKey(<<>>)
    BY <2>1, <2>5, <2>6, HmacKeyExact
  <2>. QED BY <2>1, <2>2, <2>3, <2>4, <2>5, <2>7 DEF hkdf_extract
<1>3. CASE SaltOf(c) # <<>>
  <2>1. ExtractKey(c) = SaltOf(c)
    BY <1>3 DEF ExtractKey
  <2>. DEFINE size == Len(SaltOf(c))
  <2>2. IntOf(size) = size % (2 * (INT_MAX + 1)) /\ IntOf(size) \in 0 .. size
    BY <1>1, <2>1, Narrowed
  <2>3. SubSeq(SaltOf(c), 1, IntOf(size)) = EffectiveSalt(c)
    BY <2>2 DEF EffectiveSalt
  <2>4. SubSeq(SaltOf(c), 1, IntOf(size)) \in Seq(Symbols)
    <3>. DEFINE salt == SaltOf(c)
                n == IntOf(size)
    <3>1. salt \in Seq(Symbols) /\ n \in 0 .. Len(salt)
      BY <1>1, <2>2
    <3>. HIDE DEF salt, n
    <3>2. \A k \in 1 .. n : salt[k] \in Symbols
      BY <3>1
    <3>3. SubSeq(salt, 1, n) \in Seq(Symbols)
      BY <3>1, <3>2, SubSeqProperties
    <3>. QED BY <3>3 DEF salt, n
  <2>. QED BY <2>1, <2>3, <2>4 DEF hkdf_extract
<1>. QED BY <1>2, <1>3

\* A seed is one block, whose key and data are those of its derivation.
LEMMA SeedTerm ==
  ASSUME DerivationInv, NEW d \in SeedDraws, NEW n \in 1..2
  PROVE  /\ d.call \in Calls /\ d.call.op # "hkdf"
         /\ IntOf(Len(ExtractKey(d.call))) >= 0
         /\ d.okm[n] = <<[key  |-> hkdf_extract(d.call),
                          data |-> <<<<>>, InfosOf(d.call)[n], 1>>]>>
<1>1. /\ d.call \in Calls /\ d.call.op # "hkdf" /\ Made(d.call, d.okm)
      /\ Len(d.okm) = Len(InfosOf(d.call))
  BY DEF SeedDraws, DerivationInv
<1>2. Len(d.okm) = 2
  BY <1>1 DEF InfosOf
<1>3. BlocksFor(d.call) = 1
  <2>1. hash_len \in Nat /\ SEED_LEN \in 1 .. hash_len
    BY HkdfAssumption
  <2>2. (SEED_LEN + hash_len - 1) \div hash_len = 1
    <3>. DEFINE a == SEED_LEN + hash_len - 1
                q == a \div hash_len
    <3>1. a \in Nat /\ hash_len \in Nat \ {0} /\ a >= hash_len /\ a < 2 * hash_len
      BY <2>1
    <3>2. q \in Nat /\ hash_len * q <= a /\ a < hash_len * q + hash_len
      BY <3>1, Division
    <3>. HIDE DEF a, q
    <3>3. q # 0
      BY <3>1, <3>2
    <3>4. ~(2 <= q)
      <4>. SUFFICES ASSUME 2 <= q PROVE FALSE
        OBVIOUS
      <4>1. hash_len * 1 + hash_len <= hash_len * q
        BY <3>1, <3>2, Multiples
      <4>. QED BY <3>1, <3>2, <4>1
    <3>5. q = 1
      BY <3>2, <3>3, <3>4
    <3>. QED BY <3>5 DEF a, q
  <2>. QED BY <1>1, <2>2 DEF BlocksFor, LengthOf
<1>4. /\ Chain(d.call, n, d.okm[n]) /\ Len(d.okm[n]) = 1 /\ IsSeq(d.okm[n])
      /\ IntOf(Len(ExtractKey(d.call))) >= 0
  BY <1>1, <1>2, <1>3 DEF Made
<1>. DEFINE term == [key |-> hkdf_extract(d.call), data |-> <<<<>>, InfosOf(d.call)[n], 1>>]
            o == d.okm[n]
<1>5. o[1] = term
  BY <1>4 DEF Chain
<1>. HIDE DEF term, o
<1>6. o = <<term>>
  BY <1>4, <1>5 DEF IsSeq, o
<1>. QED BY <1>1, <1>4, <1>6 DEF term, o

\* For any keys, nonces, salts and infos of any lengths, and whatever HMAC and
\* the narrowing to int do: which derivations share a seed.
THEOREM DerivationsApartCorrect == Spec => []DerivationsApart
<1>1. DerivationInv => DerivationsApart
  <2>. SUFFICES ASSUME DerivationInv,
                       NEW a \in SeedDraws, NEW b \in SeedDraws,
                       NEW j \in 1..2, NEW k \in 1..2
                PROVE  a.okm[j] = b.okm[k] <=>
                         /\ j = k
                         /\ a.call.key = b.call.key
                         /\ EffectiveInfo(a.call) = EffectiveInfo(b.call)
                         /\ OneHmacKey(EffectiveSalt(a.call), EffectiveSalt(b.call))
    BY DEF DerivationsApart
  <2>. DEFINE p == hkdf_extract(a.call)
              q == hkdf_extract(b.call)
              v == InfosOf(a.call)[j]
              w == InfosOf(b.call)[k]
              u == EffectiveSalt(a.call)
              t == EffectiveSalt(b.call)
  <2>1. /\ a.call \in Calls /\ a.call.op # "hkdf"
        /\ b.call \in Calls /\ b.call.op # "hkdf"
        /\ a.okm[j] = <<[key |-> p, data |-> <<<<>>, v, 1>>]>>
        /\ b.okm[k] = <<[key |-> q, data |-> <<<<>>, w, 1>>]>>
        /\ IntOf(Len(ExtractKey(a.call))) >= 0
        /\ IntOf(Len(ExtractKey(b.call))) >= 0
    BY SeedTerm
  <2>2. /\ p = [key |-> HmacKey(u), data |-> a.call.key] /\ u \in Seq(Symbols)
        /\ q = [key |-> HmacKey(t), data |-> b.call.key] /\ t \in Seq(Symbols)
    BY <2>1, ExtractExact
  <2>3. HmacKey(u) = HmacKey(t) <=> OneHmacKey(u, t)
    BY <2>2, HmacKeyExact
  <2>4. v = w <=> j = k /\ EffectiveInfo(a.call) = EffectiveInfo(b.call)
    <3>1. v = w => j = k /\ EffectiveInfo(a.call) = EffectiveInfo(b.call)
      BY <2>1, InfoRecovered
    <3>2. ASSUME j = k, EffectiveInfo(a.call) = EffectiveInfo(b.call) PROVE v = w
      BY <2>1, <3>2 DEF InfosOf, build_info, EffectiveInfo
    <3>. QED BY <3>1, <3>2
  <2>. HIDE DEF p, q, v, w, u, t
  <2>5. p = q <=> HmacKey(u) = HmacKey(t) /\ a.call.key = b.call.key
    <3>1. /\ p.key = HmacKey(u) /\ p.data = a.call.key
          /\ q.key = HmacKey(t) /\ q.data = b.call.key
      BY <2>2
    <3>. QED BY <2>2, <3>1
  <2>6. a.okm[j] = b.okm[k] <=> p = q /\ v = w
    <3>1. ASSUME NEW x, NEW y, NEW x2, NEW y2,
                 <<[key |-> x, data |-> <<<<>>, y, 1>>]>>
                   = <<[key |-> x2, data |-> <<<<>>, y2, 1>>]>>
          PROVE  x = x2 /\ y = y2
      <4>1. [key |-> x, data |-> <<<<>>, y, 1>>] = [key |-> x2, data |-> <<<<>>, y2, 1>>]
        BY <3>1
      <4>2. x = x2 /\ <<<<>>, y, 1>> = <<<<>>, y2, 1>>
        BY <4>1
      <4>. QED BY <4>2
    <3>. QED BY <2>1, <3>1
  <2>. QED BY <2>3, <2>4, <2>5, <2>6 DEF u, t
<1>. QED BY <1>1, DerivationCorrect, PTL

\* Nonces and salts that are equally long together, and shorter than 4 GiB, are
\* one key of HMAC only where they are equal.
THEOREM EqualSizesApart ==
  ASSUME NEW a \in Calls, NEW b \in Calls,
         Len(SaltOf(a)) = Len(SaltOf(b)), Len(SaltOf(a)) < 2 * (INT_MAX + 1),
         OneHmacKey(EffectiveSalt(a), EffectiveSalt(b))
  PROVE  SaltOf(a) = SaltOf(b)
<1>1. ASSUME NEW c \in {a, b} PROVE EffectiveSalt(c) = SaltOf(c) /\ SaltOf(c) \in Seq(Symbols)
  <2>1. SaltOf(c) \in Seq(Symbols) /\ Len(SaltOf(c)) \in Nat /\ INT_MAX \in Nat
        /\ Len(SaltOf(c)) < 2 * (INT_MAX + 1)
    BY SaltType, HkdfAssumption
  <2>2. Len(SaltOf(c)) % (2 * (INT_MAX + 1)) = Len(SaltOf(c))
    BY <2>1
  <2>3. SubSeq(SaltOf(c), 1, Len(SaltOf(c))) = SaltOf(c)
    BY <2>1, SubSeqFull
  <2>. QED BY <2>1, <2>2, <2>3 DEF EffectiveSalt
<1>. QED BY <1>1, OneLengthApart

\* For any length asked for, block k carries the number k, and the blocks are
\* enough.
THEOREM BlocksNumberedCorrect == Spec => []BlocksNumbered
<1>1. DerivationInv => BlocksNumbered
  <2>. SUFFICES ASSUME DerivationInv PROVE BlocksNumbered
    OBVIOUS
  <2>1. ASSUME pc = "expand", NEW k \in DOMAIN blocks PROVE blocks[k].data[3] = k
    <3>1. DOMAIN blocks = 1 .. Len(blocks)
      BY <2>1, AppendIsSeq DEF DerivationInv
    <3>. QED BY <2>1, <3>1 DEF DerivationInv, Chain
  <2>2. ASSUME NEW d \in drawn, d.call.op = "hkdf"
        PROVE  /\ \A k \in DOMAIN d.okm[1] : d.okm[1][k].data[3] = k
               /\ hash_len * Len(d.okm[1]) >= d.call.length
    <3>1. /\ d.call \in Calls /\ Made(d.call, d.okm)
          /\ Len(d.okm) = Len(InfosOf(d.call))
      BY DEF DerivationInv
    <3>2. Len(d.okm) = 1
      BY <2>2, <3>1 DEF InfosOf
    <3>3. /\ IsSeq(d.okm[1]) /\ Chain(d.call, 1, d.okm[1])
          /\ Len(d.okm[1]) = BlocksFor(d.call)
      BY <3>1, <3>2 DEF Made
    <3>4. DOMAIN d.okm[1] = 1 .. Len(d.okm[1])
      BY <3>3, AppendIsSeq
    <3>. QED BY <2>2, <3>1, <3>3, <3>4, BlocksEnough DEF Chain, LengthOf
  <2>. QED BY <2>1, <2>2 DEF BlocksNumbered
<1>. QED BY <1>1, DerivationCorrect, PTL

-----------------------------------------------------------------------------
(* The State.                                                              *)

\* Besides the counter itself, its place in the drift interval is followed.
StateInv ==
  /\ pc \in {"parsed", "warmup", "mixed"} => \E raw \in RawSeed : params = InitParams(raw)
  /\ Stepping => /\ Val(st.counter) = StepsTaken % Size
                 /\ Val(st.counter) % 64 = StepsTaken % 64
                 /\ AllInRegime(st)
  /\ pc = "warmup" /\ i = 0 => st = make_state(params)
  /\ MixedNotAbsorbing

LEMMA InitState == Init => StateInv
  BY DEF Init, StateInv, Stepping, MixedNotAbsorbing

LEMMA NotStepping ==
  ASSUME pc' \notin {"parsed", "warmup", "mixed"} PROVE StateInv'
  BY DEF StateInv, Stepping, MixedNotAbsorbing

LEMMA StateNext == TypeOK /\ StateInv /\ [Next]_vars => StateInv'
<1>. SUFFICES ASSUME TypeOK, StateInv, [Next]_vars PROVE StateInv'
  OBVIOUS
<1>1. CASE \/ \E c \in Calls : Call(c) \/ CallRefused(c)
           \/ Extract \/ Expand \/ Expanded \/ LengthRefused \/ HmacFails
           \/ ReturnSeeds \/ ReturnState
  <2>1. pc' \notin {"parsed", "warmup", "mixed"}
    BY <1>1 DEF Call, CallRefused, Extract, Expand, NextBlockDue, Expanded,
                LengthRefused, HmacFails, ReturnSeeds, ReturnState, Throws, Returns, Leave
  <2>. QED BY <2>1, NotStepping
<1>2. CASE Parse
  BY <1>2, WordsAssumption DEF Parse, StateInv, Stepping, MixedNotAbsorbing
<1>3. CASE MakeState
  <2>1. /\ pc' = "warmup" /\ i' = 0 /\ st' = make_state(params) /\ params' = params
        /\ params \in RawSeed /\ \E raw \in RawSeed : params = InitParams(raw)
    BY <1>3 DEF MakeState, StateInv, TypeOK
  <2>2. AllInRegime(st') /\ Val(st'.counter) = 0
    BY <2>1, SeedSound, WordAssumption
  <2>3. 0 % Size = 0
    BY WordAssumption
  <2>. QED BY <2>1, <2>2, <2>3 DEF StateInv, Stepping, StepsTaken, MixedNotAbsorbing,
                                   AllInRegime, InRegime
<1>4. CASE Step
  <2>1. /\ Stepping /\ pc' = pc /\ i' = i + 1 /\ st' = step(st) /\ params' = params
        /\ st \in State /\ st.counter \in Word /\ i \in Nat
    BY <1>4 DEF Step, Stepping, TypeOK, State
  <2>2. StepsTaken \in Nat /\ StepsTaken' = StepsTaken + 1 /\ Size \in Nat \ {0}
    BY <2>1, HkdfAssumption, WordAssumption DEF StepsTaken
  <2>3. st'.counter = Add(st.counter, One)
    BY <2>1, StepEffect
  <2>4. Val(st'.counter) = StepsTaken' % Size
    <3>1. Val(Add(st.counter, One)) = (Val(st.counter) + 1) % Size
      <4>1. One \in Word /\ Val(One) = 1
        BY WordAssumption
      <4>2. Val(Add(st.counter, One)) = (Val(st.counter) + Val(One)) % Size
        BY <2>1, <4>1, OperationAssumption
      <4>. QED BY <4>1, <4>2
    <3>2. Val(st.counter) = StepsTaken % Size
      BY <2>1 DEF StateInv
    <3>3. ((StepsTaken % Size) + 1) % Size = (StepsTaken + 1) % Size
      BY <2>2, Successor
    <3>. QED BY <2>2, <2>3, <3>1, <3>2, <3>3
  <2>5. Val(st'.counter) % 64 = StepsTaken' % 64
    <3>1. Val(st.counter) % 64 = StepsTaken % 64
      BY <2>1 DEF StateInv
    <3>2. Val(st'.counter) % 64
            = IF Val(st.counter) % 64 = 63 THEN 0 ELSE (Val(st.counter) % 64) + 1
      BY <2>1, <2>3, DriftPosition
    <3>. QED BY <2>2, <3>1, <3>2
  <2>6. AllInRegime(st')
    BY <2>1, StepEffect DEF StateInv, Parameters, AllInRegime
  <2>7. /\ pc' \in {"warmup", "mixed"} => \E raw \in RawSeed : params' = InitParams(raw)
        /\ i' # 0
    BY <2>1 DEF StateInv, Stepping
  <2>. QED BY <2>1, <2>4, <2>5, <2>6, <2>7 DEF StateInv, Stepping, MixedNotAbsorbing
<1>5. CASE Mix
  <2>1. /\ pc = "warmup" /\ i = WARMUP_STEPS /\ pc' = "mixed" /\ i' = 0
        /\ params' = params /\ st \in State
        /\ \E h \in Hashes : st' = MixedWith(st, h)
    BY <1>5 DEF Mix, TypeOK
  <2>2. /\ NoneAbsorbing(st') /\ st'.counter = st.counter
        /\ Parameters(st') = Parameters(st)
    BY <2>1, MixedType
  <2>3. StepsTaken' = StepsTaken
    BY <2>1, HkdfAssumption DEF StepsTaken
  <2>4. AllInRegime(st')
    BY <2>1, <2>2 DEF StateInv, Stepping, Parameters, AllInRegime
  <2>. QED BY <2>1, <2>2, <2>3, <2>4
           DEF StateInv, Stepping, MixedNotAbsorbing, NoneAbsorbing
<1>6. CASE UNCHANGED vars
  BY <1>6 DEF vars, StateInv, Stepping, StepsTaken, MixedNotAbsorbing, NoneAbsorbing,
              AllInRegime, InRegime
<1>. QED BY <1>1, <1>2, <1>3, <1>4, <1>5, <1>6 DEF Next, Proceed

LEMMA StateCorrect == Spec => [](TypeOK /\ StateInv)
  BY InitInv, TypeNext, DerivationNext, InitState, StateNext, PTL DEF Spec

\* For any seed, make_state() takes other parameters than get_init_params()
\* reports, each of the four.
THEOREM ClampedTwiceCorrect == Spec => []ClampedTwice
<1>1. StateInv => ClampedTwice
  <2>. SUFFICES ASSUME StateInv, pc = "warmup", i = 0
                PROVE  /\ st.alpha # params.alpha /\ st.gamma # params.gamma
                       /\ st.mu # params.mu       /\ st.sigma # params.sigma
    BY DEF ClampedTwice
  <2>1. PICK raw \in RawSeed : params = InitParams(raw)
    BY DEF StateInv
  <2>2. st = make_state(params)
    BY DEF StateInv
  <2>3. /\ raw.alpha \in Word /\ raw.gamma \in Word
        /\ raw.mu \in Word /\ raw.sigma \in Word
    BY DEF RawSeed
  <2>4. /\ params.alpha = clamp_param(raw.alpha) /\ params.gamma = clamp_param(raw.gamma)
        /\ params.mu = clamp_param(raw.mu) /\ params.sigma = clamp_param(raw.sigma)
    BY <2>1 DEF InitParams
  <2>5. /\ st.alpha = clamp_param(params.alpha) /\ st.gamma = clamp_param(params.gamma)
        /\ st.mu = clamp_param(params.mu) /\ st.sigma = clamp_param(params.sigma)
    BY <2>2 DEF make_state
  <2>. QED BY <2>3, <2>4, <2>5, ClampMoves
<1>. QED BY <1>1, StateCorrect, PTL

\* Whatever the hash, the steps after it start from no absorbing variable.
THEOREM MixedCorrect == Spec => []MixedNotAbsorbing
<1>1. StateInv => MixedNotAbsorbing
  BY DEF StateInv
<1>. QED BY <1>1, StateCorrect, PTL

\* Whatever the seed and the hash, a State is released just after a drift.
THEOREM ReleasedCorrect == Spec => []ReleasedAtDrift
<1>1. TypeOK /\ StateInv => ReleasedAtDrift
  <2>. SUFFICES ASSUME TypeOK, StateInv, Stepping, i = StepsDue
                PROVE  DriftDue(st.counter)
    BY DEF ReleasedAtDrift, StateInv
  <2>1. StepsTaken % 64 = 0
    BY HkdfAssumption, ScheduleAssumption DEF StepsTaken, StepsDue, Stepping
  <2>2. Val(st.counter) % 64 = 0 /\ st.counter \in Word
    BY <2>1 DEF StateInv, TypeOK, State
  <2>. QED BY <2>2, DriftPosition
<1>. QED BY <1>1, StateCorrect, PTL

-----------------------------------------------------------------------------
(* The end of a call.                                                      *)

LEMMA ExpansionsLeft ==
  ASSUME NEW n \in Nat, NEW turns \in Nat
  PROVE  n * turns \in Nat /\ (n + 1) * turns = n * turns + turns
  OBVIOUS

LEMMA TodoType ==
  ASSUME TypeOK, DerivationInv, pc \in {"extract", "expand"}
  PROVE  Len(todo) \in Nat \ {0} /\ Len(Tail(todo)) = Len(todo) - 1
<1>. DEFINE I == InfosOf(call)
            n == Len(okm)
<1>1. /\ n \in Nat /\ n < Len(I) /\ todo = SubSeq(I, n + 1, Len(I))
      /\ I \in Seq(Seq(Symbols)) /\ Len(I) \in Nat
  BY InfosType, LenProperties DEF DerivationInv, Made, IsSeq, TypeOK
<1>. HIDE DEF I, n
<1>2. /\ n + 1 \in Int /\ Len(I) \in Int /\ n + 1 <= Len(I)
      /\ \A k \in n + 1 .. Len(I) : I[k] \in Seq(Symbols)
  BY <1>1
<1>3. todo \in Seq(Seq(Symbols)) /\ Len(todo) = Len(I) - (n + 1) + 1
  BY <1>1, <1>2, SubSeqProperties
<1>4. Len(todo) \in Nat \ {0}
  BY <1>1, <1>3
<1>. QED BY <1>3, <1>4

LEMMA StepsType ==
  ASSUME DerivationInv, pc # "idle"
  PROVE  /\ call \in Calls /\ BlocksFor(call) \in Nat
         /\ WARMUP_STEPS \in Nat /\ POST_HASH_STEPS \in Nat
  BY BlocksEnough, HkdfAssumption DEF DerivationInv

\* At any length, each step of a call takes one of a finite number that were
\* left.
THEOREM EndNearerCorrect == Spec => EndNearer
<1>. DEFINE Nearer == \/ pc' = "idle"
                      \/ StatementsLeft' \in 0 .. StatementsLeft - 1
<1>1. ASSUME TypeOK, DerivationInv, Next, pc # "idle" PROVE Nearer
  <2>1. /\ call \in Calls /\ BlocksFor(call) \in Nat
        /\ WARMUP_STEPS \in Nat /\ POST_HASH_STEPS \in Nat
        /\ i \in Nat /\ (Stepping => i <= StepsDue)
    BY <1>1, StepsType DEF TypeOK
  <2>. DEFINE turns == BlocksFor(call) + 2
              steps == WARMUP_STEPS + POST_HASH_STEPS
              n     == Len(todo)
  <2>2. turns \in Nat /\ steps \in Nat
    BY <2>1
  <2>. HIDE DEF turns, steps, n
  <2>3. CASE Extract
    <3>1. /\ pc = "extract" /\ pc' = "expand" /\ todo' = todo /\ call' = call
          /\ Len(blocks') = 0
      BY <1>1, <2>3 DEF Extract, DerivationInv
    <3>2. n \in Nat
      BY <1>1, <3>1, TodoType DEF n
    <3>3. n * turns \in Nat
      BY <2>2, <3>2, ExpansionsLeft
    <3>4. /\ StatementsLeft = n * turns + steps + 3
          /\ StatementsLeft' = n * turns - 1 - 0 + steps + 3
      BY <3>1 DEF StatementsLeft, BlocksFor, LengthOf, turns, steps, n
    <3>. QED BY <2>2, <3>3, <3>4
  <2>4. CASE Expand
    <3>1. /\ pc = "expand" /\ pc' = "expand" /\ todo' = todo /\ call' = call
          /\ Len(blocks) < BlocksFor(call) /\ Len(blocks) \in Nat
          /\ Len(blocks') = Len(blocks) + 1
      BY <1>1, <2>4, AppendIsSeq DEF Expand, NextBlockDue, DerivationInv
    <3>2. n - 1 \in Nat /\ n \in Nat
      BY <1>1, <3>1, TodoType DEF n
    <3>3. n * turns \in Nat /\ n * turns >= turns
      <4>1. /\ (n - 1) * turns \in Nat
            /\ ((n - 1) + 1) * turns = (n - 1) * turns + turns
        BY <2>2, <3>2, ExpansionsLeft
      <4>2. (n - 1) + 1 = n
        BY <3>2
      <4>. QED BY <2>2, <4>1, <4>2
    <3>4. /\ StatementsLeft = n * turns - 1 - Len(blocks) + steps + 3
          /\ StatementsLeft' = n * turns - 1 - (Len(blocks) + 1) + steps + 3
      BY <3>1 DEF StatementsLeft, BlocksFor, LengthOf, turns, steps, n
    <3>5. Len(blocks) + 1 <= turns - 2
      BY <2>1, <3>1 DEF turns
    <3>. DEFINE m == n * turns
    <3>6. /\ m \in Nat /\ m >= turns
          /\ StatementsLeft = m - 1 - Len(blocks) + steps + 3
          /\ StatementsLeft' = m - 1 - (Len(blocks) + 1) + steps + 3
      BY <3>3, <3>4
    <3>. HIDE DEF m
    <3>. QED BY <2>2, <3>1, <3>5, <3>6
  <2>5. CASE Expanded
    <3>1. /\ pc = "expand" /\ todo' = Tail(todo) /\ call' = call
          /\ Len(blocks) = BlocksFor(call)
          /\ pc' = IF n > 1 THEN "extract" ELSE "parse"
      BY <2>5 DEF Expanded, n
    <3>2. n - 1 \in Nat /\ n \in Nat /\ Len(Tail(todo)) = n - 1
      BY <1>1, <3>1, TodoType DEF n
    <3>3. (n - 1) * turns \in Nat /\ n * turns = (n - 1) * turns + turns
      <4>1. /\ (n - 1) * turns \in Nat
            /\ ((n - 1) + 1) * turns = (n - 1) * turns + turns
        BY <2>2, <3>2, ExpansionsLeft
      <4>2. (n - 1) + 1 = n
        BY <3>2
      <4>. QED BY <4>1, <4>2
    <3>4. StatementsLeft = n * turns - 1 - BlocksFor(call) + steps + 3
      BY <3>1 DEF StatementsLeft, turns, steps, n
    <3>5. StatementsLeft = (n - 1) * turns + 1 + steps + 3
      BY <2>1, <2>2, <3>3, <3>4 DEF turns
    <3>6. StatementsLeft' \in {(n - 1) * turns + steps + 3, steps + 3}
      BY <3>1, <3>2 DEF StatementsLeft, BlocksFor, LengthOf, turns, steps, n
    <3>. QED BY <2>2, <3>3, <3>5, <3>6
  <2>6. CASE Parse
    BY <2>1, <2>6 DEF Parse, StatementsLeft, steps
  <2>7. CASE MakeState
    BY <2>1, <2>7 DEF MakeState, StatementsLeft, steps
  <2>8. CASE Step
    <3>1. /\ pc \in {"warmup", "mixed"} /\ pc' = pc /\ i' = i + 1 /\ i < StepsDue
      BY <2>8 DEF Step
    <3>2. CASE pc = "warmup"
      BY <2>1, <3>1, <3>2 DEF StatementsLeft, StepsDue, steps
    <3>3. CASE pc = "mixed"
      BY <2>1, <3>1, <3>3 DEF StatementsLeft, StepsDue
    <3>. QED BY <3>1, <3>2, <3>3
  <2>9. CASE Mix
    BY <2>1, <2>9 DEF Mix, StatementsLeft, steps
  <2>10. CASE LengthRefused \/ HmacFails \/ ReturnSeeds \/ ReturnState
    BY <2>10 DEF LengthRefused, HmacFails, ReturnSeeds, ReturnState, Throws, Returns, Leave
  <2>11. Proceed
    BY <1>1 DEF Next, Call, CallRefused
  <2>. HIDE DEF Nearer
  <2>. QED BY <2>3, <2>4, <2>5, <2>6, <2>7, <2>8, <2>9, <2>10, <2>11 DEF Proceed
<1>2. TypeOK /\ DerivationInv /\ [Next]_vars =>
        [pc # "idle" => \/ pc' = "idle"
                        \/ StatementsLeft' \in 0 .. StatementsLeft - 1]_vars
  BY <1>1
<1>. QED BY <1>2, InitInv, TypeNext, DerivationNext, PTL DEF Spec, EndNearer

=============================================================================
