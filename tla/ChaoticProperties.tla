--------------------------- MODULE ChaoticProperties ---------------------------
(***************************************************************************)
(* What must hold of a chaotic State, however it was loaded.               *)
(***************************************************************************)
EXTENDS ChaoticState, WordLaws

ASSUME InputAssumption ==
  MaxAge \in Nat /\ Imports \subseteq State /\ Raws \subseteq RawSeed

-----------------------------------------------------------------------------
(* Invariants.                                                             *)

\* Every field of the State is a machine word after any number of steps.
TypeOK ==
  /\ s \in State
  /\ base \in State
  /\ age \in 0 .. MaxAge

\* The parameters of a seeded State never leave the chaotic regime, and those
\* of an imported State, which no import validates, are in it after at most 64
\* steps, wherever in the drift interval its counter was.
RegimeWithinOneInterval ==
  AllInRegime(base) \/ age >= 64 => AllInRegime(s)

\* The counter alone keeps a State from coming back: no trajectory closes on
\* the State it was loaded with before the counter has gone all the way round.
NoEarlyCycle == 0 < age /\ age < Size => s # base

-----------------------------------------------------------------------------
(* Action properties.                                                      *)

\* Drift keeps to a schedule fixed by the counter a State was loaded with: the
\* parameters are redrawn, from the variables as they were before the step, in
\* every step up to which that counter and the steps since make a multiple of
\* 64, also where the counter has wrapped in between, and they are the same
\* after any other step.
DriftsOnSchedule ==
  [][Step =>
       Parameters(s') = IF (Val(base.counter) + age') % 64 = 0
                        THEN Parameters(drift_parameters(s, s))
                        ELSE Parameters(s)]_vars

=============================================================================
