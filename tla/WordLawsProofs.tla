----------------------------- MODULE WordLawsProofs -----------------------------
(***************************************************************************)
(* Proofs about the operators of the chaotic core, for machine words of    *)
(* any width that obey the laws of module WordLaws.                        *)
(***************************************************************************)
EXTENDS WordLaws, TLAPS

\* The laws are used as they are written.
USE DEF WordLaw, OperationLaw, ShiftLaw, ProductLaw, RegimeLaw

-----------------------------------------------------------------------------
(* The primitives yield words.                                             *)

LEMMA LType == ASSUME NEW v \in Word, NEW p \in Word PROVE L(v, p) \in Word
  BY WordAssumption, ProductAssumption DEF L

LEMMA FType == ASSUME NEW v \in Word PROVE F(v) \in Word
<1>1. Folded(v) \in Word
  BY WordAssumption, OperationAssumption, ShiftAssumption DEF Folded
<1>. QED BY <1>1, RegimeAssumption DEF F

LEMMA RType == ASSUME NEW w \in Word PROVE R(w) \in Word
<1>1. Rol(w, 13) \in Word /\ Rol(w, 7) \in Word /\ ShiftRight(w, 3) \in Word
  BY ShiftAssumption
<1>. QED BY <1>1, OperationAssumption DEF R

LEMMA GuardType ==
  ASSUME NEW v \in Word
  PROVE  guard_absorbing(v) \in Word /\ ~Absorbing(guard_absorbing(v))
  BY RegimeAssumption DEF guard_absorbing, Absorbing

\* A clamped parameter is a word of the chaotic regime.
LEMMA ClampInRegime ==
  ASSUME NEW raw \in Word
  PROVE  clamp_param(raw) \in Word /\ InRegime(clamp_param(raw))
<1>1. /\ PARAM_FLOOR \in Word /\ DRIFT_MASK \in Word
      /\ Val(PARAM_FLOOR) \in Nat /\ Val(DRIFT_MASK) \in Nat /\ Val(raw) \in Nat
      /\ Val(DRIFT_MASK) > 0 /\ Size \in Nat
  BY WordAssumption, RegimeAssumption
<1>2. /\ Mod(raw, DRIFT_MASK) \in Word
      /\ Val(Mod(raw, DRIFT_MASK)) = Val(raw) % Val(DRIFT_MASK)
  BY <1>1, OperationAssumption
<1>3. /\ Val(Mod(raw, DRIFT_MASK)) \in Nat
      /\ Val(Mod(raw, DRIFT_MASK)) < Val(DRIFT_MASK)
  BY <1>1, <1>2
<1>4. /\ Val(PARAM_FLOOR) + Val(Mod(raw, DRIFT_MASK)) \in Nat
      /\ Val(PARAM_FLOOR) + Val(Mod(raw, DRIFT_MASK)) < Size
  BY <1>1, <1>3, RegimeAssumption
<1>5. /\ clamp_param(raw) \in Word
      /\ Val(clamp_param(raw))
           = (Val(PARAM_FLOOR) + Val(Mod(raw, DRIFT_MASK))) % Size
  BY <1>1, <1>2, OperationAssumption DEF clamp_param
<1>6. Val(clamp_param(raw)) = Val(PARAM_FLOOR) + Val(Mod(raw, DRIFT_MASK))
  BY <1>1, <1>4, <1>5
<1>. QED BY <1>1, <1>3, <1>5, <1>6 DEF InRegime

\* What make_state() returns: a State of the chaotic regime at counter zero,
\* with no variable at a value that L() would send to zero.
THEOREM SeedSound ==
  ASSUME NEW raw \in RawSeed
  PROVE  /\ make_state(raw) \in State
         /\ AllInRegime(make_state(raw))
         /\ NoneAbsorbing(make_state(raw))
         /\ make_state(raw).counter = Zero
<1>1. /\ raw.x \in Word /\ raw.y \in Word /\ raw.z \in Word /\ raw.w \in Word
      /\ raw.alpha \in Word /\ raw.gamma \in Word
      /\ raw.mu \in Word /\ raw.sigma \in Word
  BY DEF RawSeed
<1>. QED BY <1>1, GuardType, ClampInRegime, WordAssumption
         DEF make_state, State, AllInRegime, NoneAbsorbing

-----------------------------------------------------------------------------
(* One step.                                                               *)

LEMMA IterateType ==
  ASSUME NEW st \in State
  PROVE  /\ Iterate(st) \in State
         /\ Iterate(st).counter = Add(st.counter, One)
         /\ Parameters(Iterate(st)) = Parameters(st)
<1>1. /\ st.x \in Word /\ st.y \in Word /\ st.z \in Word /\ st.w \in Word
      /\ st.alpha \in Word /\ st.gamma \in Word /\ st.mu \in Word
      /\ st.sigma \in Word /\ st.counter \in Word /\ One \in Word
      /\ EPSILON_CONST \in Word
  BY WordAssumption, RegimeAssumption DEF State
<1>2. \A a, b \in Word : Add(a, b) \in Word /\ Xor(a, b) \in Word
  BY OperationAssumption
<1>3. \A a \in Word : \A n \in {5, 11, 17, 23, 31} : Rol(a, n) \in Word
  BY ShiftAssumption
<1>4. Xor(Rol(st.counter, 5), EPSILON_CONST) \in Word
  BY <1>1, <1>2, <1>3
<1>5. Add(Add(L(st.x, st.alpha), Xor(F(st.z), Rol(st.y, 11))),
          Xor(Rol(st.counter, 5), EPSILON_CONST)) \in Word
  BY <1>1, <1>2, <1>3, <1>4, LType, FType
<1>6. Add(L(st.y, st.gamma), Xor(R(st.w), Rol(st.x, 17))) \in Word
  BY <1>1, <1>2, <1>3, LType, RType
<1>7. Add(L(st.z, st.mu), Xor(F(st.x), Rol(st.w, 23))) \in Word
  BY <1>1, <1>2, <1>3, LType, FType
<1>8. Add(L(st.w, st.sigma), Xor(R(st.y), Rol(st.z, 31))) \in Word
  BY <1>1, <1>2, <1>3, LType, RType
<1>9. Add(st.counter, One) \in Word
  BY <1>1, <1>2
<1>. QED BY <1>5, <1>6, <1>7, <1>8, <1>9 DEF Iterate, State, Parameters

LEMMA DriftType ==
  ASSUME NEW st \in State, NEW prev \in State
  PROVE  /\ drift_parameters(st, prev) \in State
         /\ drift_parameters(st, prev).counter = st.counter
         /\ AllInRegime(drift_parameters(st, prev))
<1>. DEFINE fold == Xor(Xor(Xor(prev.x, prev.y), prev.z), prev.w)
<1>1. \A a, b \in Word : Xor(a, b) \in Word
  BY OperationAssumption
<1>2. fold \in Word
  BY <1>1 DEF State
<1>3. \A n \in {3, 11, 19, 27} : Rol(fold, n) \in Word
  BY <1>2, ShiftAssumption
<1>4. /\ Xor(st.alpha, Rol(fold, 3)) \in Word /\ Xor(st.gamma, Rol(fold, 11)) \in Word
      /\ Xor(st.mu, Rol(fold, 19)) \in Word /\ Xor(st.sigma, Rol(fold, 27)) \in Word
  BY <1>1, <1>3 DEF State
<1>. HIDE DEF fold
<1>. DEFINE a == clamp_param(Xor(st.alpha, Rol(fold, 3)))
            b == clamp_param(Xor(st.gamma, Rol(fold, 11)))
            c == clamp_param(Xor(st.mu, Rol(fold, 19)))
            d == clamp_param(Xor(st.sigma, Rol(fold, 27)))
<1>5. /\ a \in Word /\ b \in Word /\ c \in Word /\ d \in Word
      /\ InRegime(a) /\ InRegime(b) /\ InRegime(c) /\ InRegime(d)
  BY <1>4, ClampInRegime
<1>6. drift_parameters(st, prev)
        = [st EXCEPT !.alpha = a, !.gamma = b, !.mu = c, !.sigma = d]
  BY DEF drift_parameters, fold
<1>. HIDE DEF a, b, c, d
<1>7. /\ drift_parameters(st, prev) \in State
      /\ drift_parameters(st, prev).counter = st.counter
      /\ drift_parameters(st, prev).alpha = a
      /\ drift_parameters(st, prev).gamma = b
      /\ drift_parameters(st, prev).mu = c
      /\ drift_parameters(st, prev).sigma = d
  BY <1>5, <1>6 DEF State
<1>. QED BY <1>5, <1>7 DEF AllInRegime

\* A step is a word-for-word step: the counter goes up by one, and the
\* parameters either stay or, at a boundary, are all clamped again.
LEMMA StepEffect ==
  ASSUME NEW st \in State
  PROVE  /\ step(st) \in State
         /\ step(st).counter = Add(st.counter, One)
         /\ IF DriftDue(Add(st.counter, One))
            THEN AllInRegime(step(st))
            ELSE Parameters(step(st)) = Parameters(st)
<1>1. CASE DriftDue(Iterate(st).counter)
  BY <1>1, IterateType, DriftType DEF step
<1>2. CASE ~DriftDue(Iterate(st).counter)
  BY <1>2, IterateType DEF step
<1>. QED BY <1>1, <1>2

\* The position of a word within the drift interval, and how + 1 moves it.
LEMMA DriftPosition ==
  ASSUME NEW n \in Word
  PROVE  /\ Val(n) % 64 \in 0..63
         /\ Add(n, One) \in Word
         /\ DriftDue(n) <=> Val(n) % 64 = 0
         /\ Val(Add(n, One)) % 64
              = IF Val(n) % 64 = 63 THEN 0 ELSE (Val(n) % 64) + 1
<1>1. Val(n) \in 0 .. Size - 1 /\ Size \in Nat /\ Size % 64 = 0
  BY WordAssumption, RegimeAssumption
<1>2. Val(Add(n, One)) = (Val(n) + 1) % Size /\ Add(n, One) \in Word
  BY WordAssumption, OperationAssumption
<1>3. (Val(n) + 1) % Size = IF Val(n) + 1 = Size THEN 0 ELSE Val(n) + 1
  BY <1>1
<1>4. DriftDue(n) <=> Val(n) % 64 = 0
  <2>1. /\ DRIFT_INTERVAL \in Word /\ Val(DRIFT_INTERVAL) = 64
        /\ Val(DRIFT_INTERVAL) > 0
        /\ Zero \in Word /\ Val(Zero) = 0
    BY RegimeAssumption, WordAssumption
  <2>2. /\ Mod(n, DRIFT_INTERVAL) \in Word
        /\ Val(Mod(n, DRIFT_INTERVAL)) = Val(n) % Val(DRIFT_INTERVAL)
    BY <2>1, OperationAssumption, Zenon
  <2>3. Mod(n, DRIFT_INTERVAL) = Zero <=> Val(Mod(n, DRIFT_INTERVAL)) = 0
    BY <2>1, <2>2, WordAssumption
  <2>. QED BY <2>1, <2>2, <2>3 DEF DriftDue
<1>. QED BY <1>1, <1>2, <1>3, <1>4

=============================================================================
