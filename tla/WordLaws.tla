-------------------------------- MODULE WordLaws --------------------------------
(***************************************************************************)
(* The laws of machine words that the proofs use, and the chaotic regime.  *)
(* Val is the number a word stands for.                                    *)
(***************************************************************************)
EXTENDS ChaoticCore

CONSTANTS Val(_),  \* the natural number a word represents
          Size     \* the number of words

\* The words are the numbers below Size, and Zero and One are 0 and 1.
WordLaw ==
  /\ Size \in Nat
  /\ \A a \in Word : Val(a) \in 0 .. Size - 1
  /\ \A a, b \in Word : Val(a) = Val(b) => a = b
  /\ Zero \in Word /\ Val(Zero) = 0
  /\ One \in Word /\ Val(One) = 1
  /\ AllOnes \in Word

\* Every operation yields a word; + wraps and % is the remainder.
OperationLaw ==
  /\ \A a, b \in Word : Add(a, b) \in Word /\ Xor(a, b) \in Word
  /\ \A a \in Word : Not(a) \in Word
  /\ \A a, b \in Word : Val(Add(a, b)) = (Val(a) + Val(b)) % Size
  /\ \A a, b \in Word : Val(b) > 0 =>
       Mod(a, b) \in Word /\ Val(Mod(a, b)) = Val(a) % Val(b)

\* Shifts and rotations at the distances the code uses.
ShiftLaw ==
  \A a \in Word :
    /\ ShiftLeft(a, 1) \in Word
    /\ ShiftRight(a, 3) \in Word
    /\ \A n \in {3, 5, 7, 11, 13, 16, 17, 19, 23, 27, 31} : Rol(a, n) \in Word

\* One factor of a product is the complement of another, as in L.
ProductLaw ==
  \A p, v \in Word : MulHigh(p, v, Not(v)) \in Word

\* constants.hpp: the regime does not wrap, and drift divides the word range.
RegimeLaw ==
  /\ {PARAM_FLOOR, DRIFT_MASK, DRIFT_INTERVAL, PHI_FRAC, EPSILON_CONST,
      SENTINEL_ZERO, SENTINEL_ONES} \subseteq Word
  /\ Val(DRIFT_MASK) > 0
  /\ Val(PARAM_FLOOR) + Val(DRIFT_MASK) <= Size
  /\ Val(DRIFT_INTERVAL) = 64
  /\ Size % 64 = 0
  /\ PHI_FRAC # Zero
  /\ {SENTINEL_ZERO, SENTINEL_ONES} \cap {Zero, AllOnes} = {}

\* The machine words of a build and the numbers of constants.hpp are such.
ASSUME WordAssumption      == WordLaw
ASSUME OperationAssumption == OperationLaw
ASSUME ShiftAssumption     == ShiftLaw
ASSUME ProductAssumption   == ProductLaw
ASSUME RegimeAssumption    == RegimeLaw

-----------------------------------------------------------------------------

\* A chaotic parameter: PARAM_FLOOR <= p < PARAM_CEILING.
InRegime(p) ==
  /\ Val(PARAM_FLOOR) <= Val(p)
  /\ Val(p) < Val(PARAM_FLOOR) + Val(DRIFT_MASK)

AllInRegime(st) ==
  /\ InRegime(st.alpha) /\ InRegime(st.gamma)
  /\ InRegime(st.mu)    /\ InRegime(st.sigma)

\* v * ~v is zero.
Absorbing(v) == v \in {Zero, AllOnes}

NoneAbsorbing(st) == \A v \in {st.x, st.y, st.z, st.w} : ~Absorbing(v)

Parameters(st) == <<st.alpha, st.gamma, st.mu, st.sigma>>

=============================================================================
