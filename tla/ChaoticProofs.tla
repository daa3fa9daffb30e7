----------------------------- MODULE ChaoticProofs -----------------------------
(***************************************************************************)
(* Proofs about a chaotic State whose machine words obey the laws of       *)
(* module WordLaws; that those of W bits do, and the constants of          *)
(* constants.hpp in 32; and that both builds of arithmetic.hpp agree.      *)
(***************************************************************************)
EXTENDS ChaoticBuilds, WordLawsProofs, Numbers

\* The laws are used as they are written.
USE DEF WordLaw, OperationLaw, ShiftLaw, ProductLaw, RegimeLaw

-----------------------------------------------------------------------------
(* Type correctness.                                                       *)

LEMMA InitType == Init => TypeOK
  BY SeedSound, InputAssumption DEF Init, TypeOK

LEMMA NextType == TypeOK /\ [Next]_vars => TypeOK'
<1>. SUFFICES ASSUME TypeOK, [Next]_vars PROVE TypeOK'
  OBVIOUS
<1>1. CASE Seed
  BY <1>1, SeedSound, InputAssumption DEF Seed, Load, TypeOK
<1>2. CASE Import
  BY <1>2, InputAssumption DEF Import, Load, TypeOK
<1>3. CASE Step
  <2>1. age' \in 0 .. MaxAge
    BY <1>3, InputAssumption DEF Step, TypeOK
  <2>2. s' \in State /\ base' \in State
    BY <1>3, StepEffect DEF Step, TypeOK
  <2>. QED BY <2>1, <2>2 DEF TypeOK
<1>4. CASE UNCHANGED vars
  BY <1>4 DEF vars, TypeOK
<1>. QED BY <1>1, <1>2, <1>3, <1>4 DEF Next

\* Whatever is seeded or imported, and however often it is stepped, the State
\* consists of machine words.
THEOREM TypeCorrect == Spec => []TypeOK
  BY InitType, NextType, PTL DEF Spec

-----------------------------------------------------------------------------
(* The regime.                                                             *)

\* Why an imported State is in the regime after 64 steps: until it is, the
\* steps taken since the import all lie within one drift interval.
OutsideIsYoung ==
  ~AllInRegime(s) =>
    /\ ~AllInRegime(base)
    /\ Val(s.counter) % 64 = (Val(base.counter) % 64) + age

LEMMA RegimeNext == TypeOK /\ OutsideIsYoung /\ [Next]_vars => OutsideIsYoung'
<1>. SUFFICES ASSUME TypeOK, OutsideIsYoung, [Next]_vars PROVE OutsideIsYoung'
  OBVIOUS
<1>1. CASE Seed
  BY <1>1, SeedSound, InputAssumption DEF Seed, Load, OutsideIsYoung
<1>2. ASSUME NEW st \in State, Load(st) PROVE OutsideIsYoung'
  <2>1. s' = st /\ base' = st /\ age' = 0
    BY <1>2 DEF Load
  <2>2. Val(st.counter) % 64 \in 0..63
    BY DriftPosition DEF State
  <2>. QED BY <2>1, <2>2 DEF OutsideIsYoung
<1>3. CASE Import
  BY <1>2, <1>3, InputAssumption DEF Import
<1>4. CASE Step
  <2>1. /\ s' = step(s) /\ base' = base /\ age' = age + 1 /\ age \in Nat
        /\ s \in State /\ s.counter \in Word /\ base.counter \in Word
    BY <1>4, InputAssumption DEF Step, TypeOK, State
  <2>2. CASE DriftDue(Add(s.counter, One))
    BY <2>1, <2>2, StepEffect DEF OutsideIsYoung
  <2>3. CASE ~DriftDue(Add(s.counter, One))
    <3>1. Parameters(s') = Parameters(s) /\ s'.counter = Add(s.counter, One)
      BY <2>1, <2>3, StepEffect
    <3>2. AllInRegime(s') <=> AllInRegime(s)
      BY <3>1 DEF Parameters, AllInRegime
    <3>3. /\ Val(s.counter) % 64 \in 0..63 /\ Val(base.counter) % 64 \in 0..63
          /\ Val(s'.counter) % 64 = (Val(s.counter) % 64) + 1
      BY <2>1, <2>3, <3>1, DriftPosition
    <3>4. ASSUME ~AllInRegime(s')
          PROVE  /\ ~AllInRegime(base')
                 /\ Val(s'.counter) % 64 = (Val(base'.counter) % 64) + age'
      BY <2>1, <3>2, <3>3, <3>4 DEF OutsideIsYoung
    <3>. QED BY <3>4 DEF OutsideIsYoung, AllInRegime, InRegime
  <2>. QED BY <2>2, <2>3
<1>5. CASE UNCHANGED vars
  BY <1>5 DEF vars, OutsideIsYoung, AllInRegime, InRegime
<1>. QED BY <1>1, <1>3, <1>4, <1>5 DEF Next

\* A seeded State stays in the chaotic regime for ever; an imported one, whose
\* parameters nobody checks, is there after 64 steps whatever it held.
THEOREM RegimeCorrect == Spec => []RegimeWithinOneInterval
<1>1. Init => OutsideIsYoung
  BY SeedSound, InputAssumption DEF Init, OutsideIsYoung
<1>2. TypeOK /\ OutsideIsYoung => RegimeWithinOneInterval
  <2>. SUFFICES ASSUME TypeOK, OutsideIsYoung, ~AllInRegime(s)
                PROVE  ~AllInRegime(base) /\ ~(age >= 64)
    BY DEF RegimeWithinOneInterval
  <2>1. /\ s.counter \in Word /\ base.counter \in Word /\ age \in Nat
    BY InputAssumption DEF TypeOK, State
  <2>2. Val(s.counter) % 64 \in 0..63 /\ Val(base.counter) % 64 \in 0..63
    BY <2>1, DriftPosition
  <2>. QED BY <2>1, <2>2 DEF OutsideIsYoung
<1>. QED BY <1>1, <1>2, InitType, NextType, RegimeNext, PTL DEF Spec

\* Where in the drift interval a State is, told from where it was loaded.
OnSchedule == Val(s.counter) % 64 = (Val(base.counter) + age) % 64

LEMMA ScheduleNext == TypeOK /\ OnSchedule /\ [Next]_vars => OnSchedule'
<1>. SUFFICES ASSUME TypeOK, OnSchedule, [Next]_vars PROVE OnSchedule'
  OBVIOUS
<1>1. ASSUME NEW st \in State, Load(st) PROVE OnSchedule'
  <2>1. s' = st /\ base' = st /\ age' = 0
    BY <1>1 DEF Load
  <2>2. Val(st.counter) + 0 = Val(st.counter)
    BY WordAssumption DEF State
  <2>. QED BY <2>1, <2>2 DEF OnSchedule
<1>2. CASE Seed
  BY <1>1, <1>2, SeedSound, InputAssumption DEF Seed
<1>3. CASE Import
  BY <1>1, <1>3, InputAssumption DEF Import
<1>4. CASE Step
  <2>1. /\ s' = step(s) /\ base' = base /\ age' = age + 1 /\ age \in Nat
        /\ s \in State /\ s.counter \in Word /\ base.counter \in Word
    BY <1>4, InputAssumption DEF Step, TypeOK, State
  <2>2. s'.counter = Add(s.counter, One)
    BY <2>1, StepEffect
  <2>3. Val(s'.counter) % 64
          = IF Val(s.counter) % 64 = 63 THEN 0 ELSE (Val(s.counter) % 64) + 1
    BY <2>1, <2>2, DriftPosition
  <2>4. Val(base.counter) \in Nat
    BY <2>1, WordAssumption
  <2>5. \A n \in Nat : (n + 1) % 64 = IF n % 64 = 63 THEN 0 ELSE (n % 64) + 1
    OBVIOUS
  <2>. QED BY <2>1, <2>3, <2>4, <2>5 DEF OnSchedule
<1>5. CASE UNCHANGED vars
  BY <1>5 DEF vars, OnSchedule
<1>. QED BY <1>2, <1>3, <1>4, <1>5 DEF Next

\* The redrawn parameters depend on the State before the step alone.
LEMMA DriftDraws ==
  ASSUME NEW st \in State
  PROVE  Parameters(step(st)) = IF DriftDue(Add(st.counter, One))
                                THEN Parameters(drift_parameters(st, st))
                                ELSE Parameters(st)
<1>1. /\ Iterate(st) \in State /\ Iterate(st).counter = Add(st.counter, One)
      /\ Parameters(Iterate(st)) = Parameters(st)
  BY IterateType
<1>2. ASSUME NEW a \in State, NEW b \in State, Parameters(a) = Parameters(b)
      PROVE  Parameters(drift_parameters(a, st)) = Parameters(drift_parameters(b, st))
  BY <1>2 DEF drift_parameters, Parameters, State
<1>. QED BY <1>1, <1>2 DEF step

\* Drift keeps to its schedule however a State was loaded, and for however
\* many turns of the counter it is stepped.
THEOREM DriftCorrect == Spec => DriftsOnSchedule
<1>1. Init => OnSchedule
  <2>. SUFFICES ASSUME Init PROVE OnSchedule
    OBVIOUS
  <2>1. s \in State /\ base = s /\ age = 0
    BY SeedSound, InputAssumption DEF Init
  <2>2. Val(s.counter) + 0 = Val(s.counter)
    BY <2>1, WordAssumption DEF State
  <2>. QED BY <2>1, <2>2 DEF OnSchedule
<1>2. ASSUME TypeOK, OnSchedule, OnSchedule', Step
      PROVE  Parameters(s') = IF (Val(base.counter) + age') % 64 = 0
                              THEN Parameters(drift_parameters(s, s))
                              ELSE Parameters(s)
  <2>1. s' = step(s) /\ base' = base /\ s \in State /\ s.counter \in Word
    BY <1>2 DEF Step, TypeOK, State
  <2>2. s'.counter = Add(s.counter, One) /\ Add(s.counter, One) \in Word
    BY <2>1, StepEffect, DriftPosition
  <2>3. DriftDue(Add(s.counter, One)) <=> (Val(base.counter) + age') % 64 = 0
    BY <1>2, <2>1, <2>2, DriftPosition DEF OnSchedule
  <2>. QED BY <2>1, <2>3, DriftDraws
<1>3. TypeOK /\ OnSchedule /\ OnSchedule' /\ [Next]_vars
        => [Step => Parameters(s') = IF (Val(base.counter) + age') % 64 = 0
                                     THEN Parameters(drift_parameters(s, s))
                                     ELSE Parameters(s)]_vars
  BY <1>2
<1>. QED BY <1>1, <1>3, ScheduleNext, TypeCorrect, PTL DEF Spec, DriftsOnSchedule

-----------------------------------------------------------------------------
(* The counter.                                                            *)

\* The counter counts the steps since the State was loaded, once around.
CounterCountsSteps ==
  age < Size =>
    Val(s.counter) = IF Val(base.counter) + age < Size
                     THEN Val(base.counter) + age
                     ELSE Val(base.counter) + age - Size

LEMMA CounterNext ==
  TypeOK /\ CounterCountsSteps /\ [Next]_vars => CounterCountsSteps'
<1>. SUFFICES ASSUME TypeOK, CounterCountsSteps, [Next]_vars
              PROVE  CounterCountsSteps'
  OBVIOUS
<1>1. ASSUME NEW st \in State, Load(st) PROVE CounterCountsSteps'
  <2>1. s' = st /\ base' = st /\ age' = 0
    BY <1>1 DEF Load
  <2>2. Val(st.counter) \in 0 .. Size - 1 /\ Size \in Nat
    BY WordAssumption DEF State
  <2>. QED BY <2>1, <2>2 DEF CounterCountsSteps
<1>2. CASE Seed
  BY <1>1, <1>2, SeedSound, InputAssumption DEF Seed
<1>3. CASE Import
  BY <1>1, <1>3, InputAssumption DEF Import
<1>4. CASE Step
  <2>1. /\ s' = step(s) /\ base' = base /\ age' = age + 1 /\ age \in Nat
        /\ s \in State /\ s.counter \in Word /\ base.counter \in Word
    BY <1>4, InputAssumption DEF Step, TypeOK, State
  <2>2. s'.counter = Add(s.counter, One)
    BY <2>1, StepEffect
  <2>3. Val(s'.counter) = (Val(s.counter) + 1) % Size
    <3>1. One \in Word /\ Val(One) = 1
      BY WordAssumption
    <3>2. Val(Add(s.counter, One)) = (Val(s.counter) + Val(One)) % Size
      BY <2>1, <3>1, OperationAssumption
    <3>. QED BY <2>2, <3>1, <3>2
  <2>4. /\ Val(s.counter) \in 0 .. Size - 1 /\ Val(base.counter) \in 0 .. Size - 1
        /\ Size \in Nat
    BY <2>1, WordAssumption
  <2>5. (Val(s.counter) + 1) % Size
          = IF Val(s.counter) + 1 = Size THEN 0 ELSE Val(s.counter) + 1
    BY <2>4
  <2>. QED BY <2>1, <2>3, <2>4, <2>5 DEF CounterCountsSteps
<1>5. CASE UNCHANGED vars
  BY <1>5 DEF vars, CounterCountsSteps
<1>. QED BY <1>2, <1>3, <1>4, <1>5 DEF Next

\* No trajectory returns to the State it was loaded with in fewer steps than
\* the counter has values: the keystream's period is at least that long.
THEOREM NoEarlyCycleCorrect == Spec => []NoEarlyCycle
<1>1. Init => CounterCountsSteps
  <2>. SUFFICES ASSUME Init PROVE CounterCountsSteps
    OBVIOUS
  <2>1. s \in State /\ base = s /\ age = 0
    BY SeedSound, InputAssumption DEF Init
  <2>2. Val(s.counter) \in 0 .. Size - 1 /\ Size \in Nat
    BY <2>1, WordAssumption DEF State
  <2>. QED BY <2>1, <2>2 DEF CounterCountsSteps
<1>2. TypeOK /\ CounterCountsSteps => NoEarlyCycle
  <2>. SUFFICES ASSUME TypeOK, CounterCountsSteps, 0 < age, age < Size, s = base
                PROVE  FALSE
    BY DEF NoEarlyCycle
  <2>1. /\ age \in Nat /\ Size \in Nat
        /\ Val(base.counter) \in 0 .. Size - 1
        /\ Val(base.counter) = IF Val(base.counter) + age < Size
                               THEN Val(base.counter) + age
                               ELSE Val(base.counter) + age - Size
    BY InputAssumption, WordAssumption DEF TypeOK, State, CounterCountsSteps
  <2>. QED BY <2>1
<1>. QED BY <1>1, <1>2, InitType, NextType, CounterNext, PTL DEF Spec

-----------------------------------------------------------------------------
(* The machine.                                                            *)

LEMMA PowerUnfold ==
  /\ Power[0] = 1
  /\ \A k \in 1 .. W : Power[k] = 2 * Power[k - 1]
  /\ \A k \in 0 .. W : Power[k] \in Nat \ {0}
<1>. DEFINE Turn == [kp \in (1 .. W) \X Nat |-> 2 * kp[2]]
<1>1. W \in Nat /\ 1 \in Nat /\ Turn \in [(1 .. W) \X Nat -> Nat]
  BY RadixAssumption
<1>. HIDE DEF Turn
<1>2. Runs(Nat, 1, W, Turn)
  BY <1>1, Recursion, Zenon
<1>3. PICK f \in [0 .. W -> Nat] : /\ f[0] = 1
                                   /\ \A k \in 1 .. W : f[k] = Turn[<<k, f[k - 1]>>]
  BY <1>2 DEF Runs
<1>4. ASSUME NEW k \in 1 .. W PROVE f[k] = 2 * f[k - 1]
  <2>1. <<k, f[k - 1]>> \in (1 .. W) \X Nat
    BY <1>1
  <2>2. Turn[<<k, f[k - 1]>>] = 2 * f[k - 1]
    BY <2>1 DEF Turn
  <2>. QED BY <1>3, <2>2
<1>5. f = [n \in 0 .. W |-> IF n = 0 THEN 1 ELSE 2 * f[n - 1]]
  BY <1>1, <1>3, <1>4
<1>6. Power = [n \in 0 .. W |-> IF n = 0 THEN 1 ELSE 2 * Power[n - 1]]
  BY <1>5, Zenon DEF Power
<1>7. Power[0] = 1 /\ \A k \in 1 .. W : Power[k] = 2 * Power[k - 1]
  BY <1>1, <1>6
<1>. DEFINE Positive == {k \in Nat : k <= W => Power[k] \in Nat \ {0}}
<1>8. 0 \in Positive
  BY <1>7
<1>9. ASSUME NEW k \in Nat, k \in Positive PROVE k + 1 \in Positive
  <2>. SUFFICES ASSUME k + 1 <= W PROVE Power[k + 1] \in Nat \ {0}
    OBVIOUS
  <2>1. k + 1 \in 1 .. W /\ (k + 1) - 1 = k /\ Power[k] \in Nat \ {0}
    BY <1>1, <1>9
  <2>2. Power[k + 1] = 2 * Power[k]
    BY <1>7, <2>1
  <2>. QED BY <2>1, <2>2
<1>10. Nat \subseteq Positive
  <2>. HIDE DEF Positive
  <2>. QED BY <1>8, <1>9, Induction
<1>. QED BY <1>1, <1>7, <1>10

LEMMA PowerAdd ==
  ASSUME NEW m \in Nat, NEW n \in Nat, m + n <= W
  PROVE  Power[m + n] = Power[m] * Power[n]
<1>. DEFINE Adds == {k \in Nat : m + k <= W => Power[m + k] = Power[m] * Power[k]}
<1>1. 0 \in Adds
  <2>1. m + 0 = m /\ (m <= W => Power[m] \in Nat) /\ Power[0] = 1
    BY PowerUnfold
  <2>. QED BY <2>1
<1>2. ASSUME NEW k \in Nat, k \in Adds PROVE k + 1 \in Adds
  <2>. SUFFICES ASSUME m + (k + 1) <= W
                PROVE  Power[m + (k + 1)] = Power[m] * Power[k + 1]
    OBVIOUS
  <2>1. /\ m + (k + 1) \in 1 .. W /\ (m + (k + 1)) - 1 = m + k
        /\ k + 1 \in 1 .. W /\ (k + 1) - 1 = k /\ W \in Nat
        /\ m \in 0 .. W /\ k \in 0 .. W
    BY RadixAssumption
  <2>2. Power[m + (k + 1)] = 2 * Power[m + k] /\ Power[k + 1] = 2 * Power[k]
    BY <2>1, PowerUnfold
  <2>3. Power[m + k] = Power[m] * Power[k]
    BY <1>2, <2>1
  <2>4. Power[m] \in Nat /\ Power[k] \in Nat
    BY <2>1, PowerUnfold
  <2>5. 2 * (Power[m] * Power[k]) = Power[m] * (2 * Power[k])
    BY <2>4
  <2>. QED BY <2>2, <2>3, <2>5
<1>3. Nat \subseteq Adds
  <2>. HIDE DEF Adds
  <2>. QED BY <1>1, <1>2, Induction
<1>. QED BY <1>3

LEMMA RadixType == W \in Nat /\ Radix \in Nat /\ Radix >= 8
<1>1. /\ Power[1] = 2 * Power[0] /\ Power[2] = 2 * Power[1]
      /\ Power[3] = 2 * Power[2] /\ Power[0] = 1
  <2>1. 1 \in 1 .. W /\ 2 \in 1 .. W /\ 3 \in 1 .. W
    BY RadixAssumption
  <2>2. /\ Power[1] = 2 * Power[1 - 1] /\ Power[2] = 2 * Power[2 - 1]
        /\ Power[3] = 2 * Power[3 - 1]
    BY <2>1, PowerUnfold
  <2>. QED BY <2>2, PowerUnfold
<1>2. Power[3 + (W - 3)] = Power[3] * Power[W - 3]
  BY RadixAssumption, PowerAdd
<1>3. 3 + (W - 3) = W /\ W - 3 \in 0 .. W
  BY RadixAssumption
<1>4. Power[W - 3] \in Nat \ {0}
  BY <1>3, PowerUnfold
<1>. QED BY <1>1, <1>2, <1>3, <1>4, RadixAssumption

\* The bits in which two words differ make up a word.
LEMMA XorType ==
  ASSUME NEW a \in NatWord, NEW b \in NatWord
  PROVE  NatXor(a, b) \in NatWord
<1>. DEFINE Record == [a : Nat, b : Nat, place : Nat, sum : Nat]
            first  == [a |-> a, b |-> b, place |-> 1, sum |-> 0]
            Turn   == [kr \in (1 .. W) \X Record |-> NextBit(kr[2])]
<1>1. W \in Nat /\ first \in Record
  BY RadixType DEF NatWord
<1>2. ASSUME NEW r \in Record
      PROVE  /\ NextBit(r) \in Record /\ NextBit(r).place = 2 * r.place
             /\ r.sum < r.place => NextBit(r).sum < NextBit(r).place
  <2>1. /\ r.a \in Nat /\ r.b \in Nat /\ r.place \in Nat /\ r.sum \in Nat
        /\ r.a \div 2 \in Nat /\ r.b \div 2 \in Nat
    OBVIOUS
  <2>. QED BY <2>1 DEF NextBit
<1>3. Turn \in [(1 .. W) \X Record -> Record]
  BY <1>2
<1>. HIDE DEF Turn, Record, first
<1>4. Runs(Record, first, W, Turn)
  BY <1>1, <1>3, Recursion, Zenon
<1>5. PICK f \in [0 .. W -> Record] :
        /\ f[0] = first
        /\ \A k \in 1 .. W : f[k] = Turn[<<k, f[k - 1]>>]
  BY <1>4 DEF Runs
<1>6. ASSUME NEW k \in 1 .. W PROVE f[k] = NextBit(f[k - 1]) /\ f[k - 1] \in Record
  <2>1. <<k, f[k - 1]>> \in (1 .. W) \X Record /\ f[k - 1] \in Record
    BY <1>1
  <2>2. Turn[<<k, f[k - 1]>>] = NextBit(f[k - 1])
    BY <2>1 DEF Turn
  <2>. QED BY <1>5, <2>1, <2>2
<1>7. f = [k \in 0 .. W |-> IF k = 0 THEN first ELSE NextBit(f[k - 1])]
  BY <1>1, <1>5, <1>6
<1>. DEFINE t == BitByBit(a, b)
<1>8. t = [k \in 0 .. W |-> IF k = 0 THEN first ELSE NextBit(t[k - 1])]
  BY <1>7, Zenon DEF BitByBit, first
<1>. HIDE DEF t
<1>9. t[0] = first /\ \A k \in 1 .. W : t[k] = NextBit(t[k - 1])
  BY <1>1, <1>8
<1>. DEFINE Fits == {k \in Nat : k <= W => /\ t[k] \in Record
                                           /\ t[k].place = Power[k]
                                           /\ t[k].sum < t[k].place}
<1>10. 0 \in Fits
  <2>1. first.place = 1 /\ first.sum = 0 /\ Power[0] = 1
    BY PowerUnfold DEF first
  <2>. QED BY <1>1, <1>9, <2>1
<1>11. ASSUME NEW k \in Nat, k \in Fits PROVE k + 1 \in Fits
  <2>. SUFFICES ASSUME k + 1 <= W
                PROVE  /\ t[k + 1] \in Record /\ t[k + 1].place = Power[k + 1]
                       /\ t[k + 1].sum < t[k + 1].place
    OBVIOUS
  <2>1. /\ k + 1 \in 1 .. W /\ (k + 1) - 1 = k /\ t[k] \in Record
        /\ t[k].place = Power[k] /\ t[k].sum < t[k].place
    BY <1>1, <1>11
  <2>2. t[k + 1] = NextBit(t[k]) /\ Power[k + 1] = 2 * Power[k]
    BY <1>9, <2>1, PowerUnfold
  <2>. QED BY <1>2, <2>1, <2>2
<1>12. W \in Fits
  <2>. HIDE DEF Fits
  <2>. QED BY <1>1, <1>10, <1>11, Induction
<1>13. t[W].sum \in Nat /\ t[W].sum < Radix
  BY <1>1, <1>12, RadixAssumption DEF Record
<1>. QED BY <1>13, RadixType DEF NatXor, NatWord, t

\* What goes round fills the places that are left free.
LEMMA RolType ==
  ASSUME NEW a \in NatWord, NEW n \in Nat
  PROVE  NatRol(a, n) \in NatWord
<1>. DEFINE k == n % W
            P == Power[k]
            Q == Power[W - k]
            q == a \div Q
            r == a % Q
<1>1. /\ W \in Nat /\ W >= 3 /\ Radix \in Nat /\ a \in Nat /\ a < Radix
      /\ k \in 0 .. W /\ W - k \in 0 .. W /\ k \in Nat /\ W - k \in Nat
      /\ k + (W - k) = W
  BY RadixType, RadixAssumption DEF NatWord
<1>2. P \in Nat \ {0} /\ Q \in Nat \ {0}
  BY <1>1, PowerUnfold
<1>3. Radix = P * Q
  BY <1>1, PowerAdd, RadixAssumption
<1>4. NatRol(a, n) = ((a * P) % Radix) + (a \div Q)
  BY DEF NatRol
<1>. HIDE DEF k, P, Q
<1>5. q \in Nat /\ r \in 0 .. Q - 1 /\ a = Q * q + r
  BY <1>1, <1>2, DivSplit
<1>6. a \div Q = q
  OBVIOUS
<1>. HIDE DEF q, r
<1>7. q < P
  <2>. SUFFICES ASSUME P <= q PROVE FALSE
    BY <1>2, <1>5
  <2>1. Q * P <= Q * q
    BY <1>2, <1>5
  <2>2. P * Q = Q * P
    BY <1>2
  <2>. QED BY <1>1, <1>2, <1>3, <1>5, <2>1, <2>2
<1>8. (a * P) % Radix = P * r
  <2>1. a * P = (P * Q) * q + P * r
    BY <1>2, <1>5
  <2>2. P * r \in Nat /\ P * r + P <= P * Q
    BY <1>2, <1>5
  <2>3. P * r \in 0 .. Radix - 1
    BY <1>1, <1>2, <1>3, <2>2
  <2>4. (Radix * q + P * r) % Radix = P * r
    BY <1>1, <1>5, <2>3, DivUnique
  <2>. QED BY <1>3, <2>1, <2>4
<1>9. P * r + P <= Radix /\ P * r \in Nat
  BY <1>2, <1>3, <1>5
<1>. QED BY <1>1, <1>2, <1>4, <1>5, <1>6, <1>7, <1>8, <1>9 DEF NatWord

\* A constant of constants.hpp, written as two halves.
Hex(high, low) == high * 65536 + low

Machine ==
  INSTANCE WordLaws WITH
    Word <- NatWord, Val <- NatVal, Size <- Radix, Add <- NatAdd, Mod <- NatMod,
    Xor <- NatXor, Not <- NatNot, ShiftLeft <- NatShiftLeft,
    ShiftRight <- NatShiftRight, Rol <- NatRol, MulHigh <- WideMulHigh,
    TopBit <- NatTopBit, Zero <- 0, One <- 1, AllOnes <- Radix - 1,
    PARAM_FLOOR    <- Hex(\hE000, \h0000), DRIFT_MASK    <- Hex(\h1FF0, \h0000),
    PHI_FRAC       <- Hex(\h9E37, \h79B9), EPSILON_CONST <- Hex(\h243F, \h6A88),
    SENTINEL_ZERO  <- Hex(\hDEAD, \hBEEF), SENTINEL_ONES <- Hex(\h1337, \h1337),
    DRIFT_INTERVAL <- 64

\* Nothing is assumed of words that natural numbers of any width do not have.
THEOREM WordsAreLawful ==
  /\ Machine!WordLaw /\ Machine!OperationLaw
  /\ Machine!ShiftLaw /\ Machine!ProductLaw
<1>1. Machine!WordLaw
  BY RadixType DEF Machine!WordLaw, NatWord, NatVal
<1>2. ASSUME NEW a \in NatWord, NEW b \in NatWord
      PROVE  /\ NatAdd(a, b) \in NatWord /\ NatNot(a) \in NatWord
             /\ NatAdd(a, b) = (a + b) % Radix
             /\ b > 0 => NatMod(a, b) \in NatWord /\ NatMod(a, b) = a % b
  BY RadixType DEF NatAdd, NatNot, NatMod, NatWord
<1>3. Machine!OperationLaw
  BY <1>2, XorType DEF Machine!OperationLaw, NatVal
<1>4. ASSUME NEW a \in NatWord
      PROVE  NatShiftLeft(a, 1) \in NatWord /\ NatShiftRight(a, 3) \in NatWord
  <2>1. 1 \in 0 .. W /\ 3 \in 0 .. W /\ a \in Nat /\ a < Radix
    BY RadixType, RadixAssumption DEF NatWord
  <2>2. Power[1] \in Nat /\ Power[3] \in Nat \ {0}
    BY <2>1, PowerUnfold
  <2>3. (a * Power[1]) % Radix \in NatWord
    BY <2>1, <2>2, RadixType DEF NatWord
  <2>4. a \div Power[3] \in Nat /\ a \div Power[3] <= a
    <3>. DEFINE d == Power[3]
    <3>. HIDE DEF d
    <3>1. d \in Nat \ {0}
      BY <2>2 DEF d
    <3>2. a \div d \in Nat /\ d * (a \div d) <= a
      BY <2>1, <3>1, Division
    <3>3. a \div d <= d * (a \div d)
      BY <3>1, <3>2
    <3>. QED BY <2>1, <3>1, <3>2, <3>3 DEF d
  <2>. QED BY <2>1, <2>3, <2>4, RadixType DEF NatShiftLeft, NatShiftRight, NatWord
<1>5. Machine!ShiftLaw
  BY <1>4, RolType DEF Machine!ShiftLaw
<1>6. ASSUME NEW p \in NatWord, NEW v \in NatWord
      PROVE  WideMulHigh(p, v, NatNot(v)) \in NatWord
  <2>. DEFINE n == p * (v * NatNot(v))
  <2>1. p \in Nat /\ v \in Nat /\ NatNot(v) \in Nat
    BY RadixType DEF NatWord, NatNot
  <2>2. v * NatNot(v) \in Nat
    BY <2>1
  <2>3. n \in Nat
    BY <2>1, <2>2
  <2>. HIDE DEF n
  <2>4. n \div Radix \in Nat
    BY <2>3, RadixType
  <2>5. (n \div Radix) % Radix \in 0 .. Radix - 1
    BY <2>4, RadixType
  <2>. QED BY <2>5 DEF WideMulHigh, NatWord, n
<1>7. Machine!ProductLaw
  BY <1>6 DEF Machine!ProductLaw
<1>. QED BY <1>1, <1>3, <1>5, <1>7

\* Nor of the constants that those of constants.hpp do not have in 32 bits.
THEOREM ConstantsAreLawful ==
  ASSUME W = 32
  PROVE  Machine!RegimeLaw
<1>1. Radix = 4294967296
  <2>1. Power[0] = 1 /\ \A k \in 1 .. 32 : Power[k] = 2 * Power[k - 1]
    BY PowerUnfold
  <2>2. Power[4] = 16
    <3>1. /\ Power[1] = 2 * Power[1 - 1] /\ Power[2] = 2 * Power[2 - 1]
          /\ Power[3] = 2 * Power[3 - 1] /\ Power[4] = 2 * Power[4 - 1]
      BY <2>1
    <3>. QED BY <2>1, <3>1, SMT
  <2>3. /\ Power[4 + 4] = Power[4] * Power[4] /\ Power[8 + 8] = Power[8] * Power[8]
        /\ Power[16 + 16] = Power[16] * Power[16]
    BY PowerAdd
  <2>4. Power[8] = 256
    BY <2>2, <2>3, SMT
  <2>5. Power[16] = 65536
    BY <2>3, <2>4
  <2>6. Power[32] = 4294967296
    BY <2>3, <2>5, SMT
  <2>. QED BY <2>6, RadixAssumption, SMT
<1>2. /\ Hex(\hE000, \h0000) = 3758096384 /\ Hex(\h1FF0, \h0000) = 535822336
      /\ Hex(\h9E37, \h79B9) = 2654435769 /\ Hex(\h243F, \h6A88) = 608135816
      /\ Hex(\hDEAD, \hBEEF) = 3735928559 /\ Hex(\h1337, \h1337) = 322376503
  BY SMT DEF Hex
<1>. HIDE DEF Hex
<1>3. 4294967296 % 64 = 0
  BY SMT
<1>4. \A n \in Nat : n < Radix => n \in NatWord
  BY RadixType DEF NatWord
<1>5. \A n \in {3758096384, 535822336, 64, 2654435769, 608135816,
                3735928559, 322376503} : n \in Nat /\ n < Radix
  BY <1>1, SMT
<1>6. \A n \in {3758096384, 535822336, 64, 2654435769, 608135816,
                3735928559, 322376503} : n \in NatWord
  BY <1>4, <1>5, SMT
<1>7. 535822336 > 0 /\ 3758096384 + 535822336 <= Radix /\ Radix % 64 = 0
  BY <1>1, <1>3, SMT
<1>8. {3735928559, 322376503} \cap {0, Radix - 1} = {} /\ 2654435769 # 0
  BY <1>1, SMT
<1>. QED BY <1>2, <1>6, <1>7, <1>8, SMT DEF Machine!RegimeLaw, NatVal

\* No bit of a word of up to 32 is lost in the four bytes it is stored in: what
\* module Session assumes of store_le32() and load_le32().
THEOREM BytesAreLawful ==
  ASSUME Radix <= 4294967296
  PROVE  \A v \in NatWord : NatStore(v) \in [0..3 -> 0..255] /\ NatLoad(NatStore(v)) = v
<1>. SUFFICES ASSUME NEW v \in NatWord
              PROVE  NatStore(v) \in [0..3 -> 0..255] /\ NatLoad(NatStore(v)) = v
  OBVIOUS
<1>. DEFINE b == NatStore(v)
<1>1. v \in Nat /\ v < Radix /\ v < 4294967296 /\ Radix \in Nat
  BY RadixType, SMT DEF NatWord
<1>2. /\ b[0] = (v \div 1) % 256 /\ b[1] = (v \div 256) % 256
      /\ b[2] = (v \div 65536) % 256 /\ b[3] = (v \div 16777216) % 256
  BY DEF NatStore
<1>3. b \in [0..3 -> 0..255]
  <2>1. \A i \in 0..3 : <<1, 256, 65536, 16777216>>[i + 1] \in {1, 256, 65536, 16777216}
    OBVIOUS
  <2>2. \A d \in {1, 256, 65536, 16777216} : (v \div d) % 256 \in 0..255
    BY <1>1, SMT
  <2>. QED BY <2>1, <2>2 DEF NatStore
<1>. HIDE DEF b
<1>4. b[0] + 256 * b[1] + 65536 * b[2] + 16777216 * b[3] = v
  BY <1>1, <1>2, SMT
<1>5. v % Radix = v
  BY <1>1
<1>6. NatLoad(b) = v % Radix
  BY <1>4, SMT DEF NatLoad
<1>. QED BY <1>3, <1>5, <1>6, SMT DEF b

-----------------------------------------------------------------------------
(* The two builds.                                                         *)

\* L() is the same function whether the compiler offers __uint128_t or not:
\* the split multiplication loses no carry, for words of any width.
THEOREM BothPathsAgree == \A p, v \in NatWord : PathsAgreeOn(p, v)
<1>. SUFFICES ASSUME NEW p \in NatWord, NEW v \in NatWord
              PROVE  PathsAgreeOn(p, v)
  OBVIOUS
<1>. DEFINE vn == v * NatNot(v)
            hi == vn \div Radix
            lo == vn % Radix
<1>1. Radix \in Nat /\ Radix > 0 /\ p \in Nat /\ v \in Nat /\ NatNot(v) \in Nat
  BY RadixType DEF NatWord, NatNot
<1>2. vn \in Nat
  BY <1>1
<1>. HIDE DEF vn
<1>3. hi \in Nat /\ lo \in Nat /\ vn = Radix * hi + lo
  BY <1>1, <1>2, DivSplit
<1>. HIDE DEF hi, lo
<1>4. p * hi \in Nat /\ p * lo \in Nat
  BY <1>1, <1>3
<1>5. p * vn = Radix * (p * hi) + p * lo
  BY <1>1, <1>3
<1>6. (p * vn) \div Radix = p * hi + ((p * lo) \div Radix)
  <2>1. (Radix * (p * hi) + p * lo) \div Radix = p * hi + ((p * lo) \div Radix)
    <3>. DEFINE a == p * hi
                n == p * lo
    <3>1. a \in Nat /\ n \in Nat
      BY <1>4
    <3>. HIDE DEF a, n
    <3>2. (Radix * a + n) \div Radix = a + (n \div Radix)
      BY <1>1, <3>1, DivAdd
    <3>. QED BY <3>2 DEF a, n
  <2>. QED BY <1>5, <2>1
<1>7. (p * lo) \div Radix \in Nat
  BY <1>1, <1>4, DivSplit
<1>8. p * hi + ((p * lo) \div Radix) \in Nat
  BY <1>4, <1>7
<1>9. ((p * hi + ((p * lo) \div Radix)) % (Radix * Radix)) % Radix
        = (p * hi + ((p * lo) \div Radix)) % Radix
  BY <1>1, <1>8, ModMod
<1>10. WideMulHigh(p, v, NatNot(v)) = ((p * vn) \div Radix) % Radix
  BY DEF WideMulHigh, vn
<1>11. SplitMulHigh(p, v, NatNot(v))
         = ((p * hi + ((p * lo) \div Radix)) % (Radix * Radix)) % Radix
  BY DEF SplitMulHigh, vn, hi, lo
<1>. QED BY <1>6, <1>9, <1>10, <1>11 DEF PathsAgreeOn

\* However a State was loaded and however long it has been stepped, the next
\* step of a build with __uint128_t and of one without are the same.
THEOREM PathsAgreeCorrect ==
  ASSUME Word = NatWord
  PROVE  Spec => []PathsAgree
<1>1. TypeOK => PathsAgree
  <2>. SUFFICES ASSUME TypeOK PROVE PathsAgree
    OBVIOUS
  <2>1. /\ s.alpha \in NatWord /\ s.gamma \in NatWord
        /\ s.mu \in NatWord /\ s.sigma \in NatWord
        /\ s.x \in NatWord /\ s.y \in NatWord /\ s.z \in NatWord /\ s.w \in NatWord
    BY DEF TypeOK, State
  <2>. QED BY <2>1, BothPathsAgree DEF PathsAgree
<1>. QED BY <1>1, TypeCorrect, PTL

=============================================================================
