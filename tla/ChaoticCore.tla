------------------------------ MODULE ChaoticCore ------------------------------
(***************************************************************************)
(* The chaotic core: L, F and R (include/eahcm/arithmetic.hpp), State      *)
(* (types.hpp) and make_state, step, drift and extract (state.hpp).        *)
(*                                                                         *)
(* The unsigned integers of the machine are parameters, so that one text   *)
(* is checked on short words over long runs, replayed on 32-bit words      *)
(* against the repository's reference vectors, and proved about for any    *)
(* words that obey a few laws (module WordLaws).                           *)
(***************************************************************************)
EXTENDS Naturals

CONSTANTS Word,              \* the values of std::uint32_t
          Add(_, _),         \* a + b, wrapping
          Mod(_, _),         \* a % b
          Xor(_, _),         \* a ^ b
          Not(_),            \* ~a
          ShiftLeft(_, _),   \* a << n
          ShiftRight(_, _),  \* a >> n
          Rol(_, _),         \* rol32(a, n)
          MulHigh(_, _, _),  \* low word of (p * v * nv) >> one word
          TopBit(_),         \* the most significant bit is set
          Zero, One, AllOnes,
          PARAM_FLOOR, DRIFT_MASK, DRIFT_INTERVAL, PHI_FRAC, EPSILON_CONST,
          SENTINEL_ZERO, SENTINEL_ONES

State == [x : Word, y : Word, z : Word, w : Word,
          alpha : Word, gamma : Word, mu : Word, sigma : Word,
          counter : Word]

\* The arguments of make_state().
RawSeed == [x : Word, y : Word, z : Word, w : Word,
            alpha : Word, gamma : Word, mu : Word, sigma : Word]

-----------------------------------------------------------------------------
(* arithmetic.hpp                                                          *)

L(v, p) ==
  LET result == MulHigh(p, v, Not(v))
  IN  IF result = Zero THEN One ELSE result

\* The tent map before its guard: fold on the sign, then double.
Folded(v) == ShiftLeft(Xor(v, IF TopBit(v) THEN AllOnes ELSE Zero), 1)

F(v) == IF Folded(v) = Zero THEN PHI_FRAC ELSE Folded(v)

R(w) == Xor(Xor(Rol(w, 13), Rol(w, 7)), ShiftRight(w, 3))

-----------------------------------------------------------------------------
(* state.hpp                                                               *)

\* Mutant: reduced, but not lifted into the chaotic regime.
ReduceOnly(raw) == Mod(raw, DRIFT_MASK)

clamp_param(raw) == Add(PARAM_FLOOR, Mod(raw, DRIFT_MASK))

guard_absorbing(v) ==
  CASE v = Zero    -> SENTINEL_ZERO
    [] v = AllOnes -> SENTINEL_ONES
    [] OTHER       -> v

\* Mutant: the parameters are taken as they are.
MakeUnclamped(raw) ==
  [x |-> guard_absorbing(raw.x), y |-> guard_absorbing(raw.y),
   z |-> guard_absorbing(raw.z), w |-> guard_absorbing(raw.w),
   alpha |-> raw.alpha, gamma |-> raw.gamma,
   mu    |-> raw.mu,    sigma |-> raw.sigma,
   counter |-> Zero]

make_state(raw) ==
  [x |-> guard_absorbing(raw.x), y |-> guard_absorbing(raw.y),
   z |-> guard_absorbing(raw.z), w |-> guard_absorbing(raw.w),
   alpha |-> clamp_param(raw.alpha), gamma |-> clamp_param(raw.gamma),
   mu    |-> clamp_param(raw.mu),    sigma |-> clamp_param(raw.sigma),
   counter |-> Zero]

\* st after drift, folding in the variables of the State before the step.
drift_parameters(st, prev) ==
  LET fold == Xor(Xor(Xor(prev.x, prev.y), prev.z), prev.w)
      drifted(param, n) == clamp_param(Xor(param, Rol(fold, n)))
  IN  [st EXCEPT !.alpha = drifted(@, 3),  !.gamma = drifted(@, 11),
                 !.mu    = drifted(@, 19), !.sigma = drifted(@, 27)]

\* Mutant: the counter is tested before it is incremented.
DriftBefore(counter) ==
  Mod(Add(counter, AllOnes), DRIFT_INTERVAL) = Zero

\* Mutant: no drift at counter 0, which a State that wraps comes back to.
DriftNotAtZero(counter) ==
  counter # Zero /\ Mod(counter, DRIFT_INTERVAL) = Zero

\* counter & (DRIFT_INTERVAL - 1) == 0, DRIFT_INTERVAL being a power of two.
DriftDue(counter) == Mod(counter, DRIFT_INTERVAL) = Zero

\* Mutant: z and w are computed from the x and y just written.
IterateInPlace(st) ==
  LET eps == Xor(Rol(st.counter, 5), EPSILON_CONST)
      nx  == Add(Add(L(st.x, st.alpha), Xor(F(st.z), Rol(st.y, 11))), eps)
      ny  == Add(L(st.y, st.gamma), Xor(R(st.w), Rol(nx, 17)))
  IN  [st EXCEPT
         !.counter = Add(@, One),
         !.x = nx, !.y = ny,
         !.z = Add(L(@, st.mu),    Xor(F(nx), Rol(st.w, 23))),
         !.w = Add(L(@, st.sigma), Xor(R(ny), Rol(st.z, 31)))]

\* Mutant: a counter wider than a word.
IterateWideCounter(st) ==
  LET eps == Xor(Rol(st.counter, 5), EPSILON_CONST)
  IN  [st EXCEPT
         !.counter = @ + 1,
         !.x = Add(Add(L(@, st.alpha), Xor(F(st.z), Rol(st.y, 11))), eps),
         !.y = Add(L(@, st.gamma), Xor(R(st.w), Rol(st.x, 17))),
         !.z = Add(L(@, st.mu),    Xor(F(st.x), Rol(st.w, 23))),
         !.w = Add(L(@, st.sigma), Xor(R(st.y), Rol(st.z, 31)))]

\* The counter and the four coupled equations: every read before any write.
Iterate(st) ==
  LET eps == Xor(Rol(st.counter, 5), EPSILON_CONST)
  IN  [st EXCEPT
         !.counter = Add(@, One),
         !.x = Add(Add(L(@, st.alpha), Xor(F(st.z), Rol(st.y, 11))), eps),
         !.y = Add(L(@, st.gamma), Xor(R(st.w), Rol(st.x, 17))),
         !.z = Add(L(@, st.mu),    Xor(F(st.x), Rol(st.w, 23))),
         !.w = Add(L(@, st.sigma), Xor(R(st.y), Rol(st.z, 31)))]

\* Mutant: the State is passed by value and the caller's is not updated.
StepOnCopy(st) == st

step(st) ==
  LET next == Iterate(st)
  IN  IF DriftDue(next.counter) THEN drift_parameters(next, st) ELSE next

\* Mutant: the halves are put together the wrong way round.
ExtractSwapped(st) ==
  <<Xor(Add(st.y, st.w), Rol(st.x, 16)), Xor(Add(st.x, st.z), Rol(st.y, 16))>>

\* The keystream word, high half first.
extract(st) ==
  <<Xor(Add(st.x, st.z), Rol(st.y, 16)), Xor(Add(st.y, st.w), Rol(st.x, 16))>>

=============================================================================
