----------------------------- MODULE ChaoticBuilds -----------------------------
(***************************************************************************)
(* The two builds of the chaotic core: config.hpp chooses __uint128_t or a *)
(* split multiplication for L, and a State must not depend on the choice.  *)
(***************************************************************************)
EXTENDS ChaoticProperties, NaturalWords

\* The __uint128_t build and the split-multiplication build take the same next
\* step: on the operands of every step the two products agree.
PathsAgree ==
  /\ PathsAgreeOn(s.alpha, s.x) /\ PathsAgreeOn(s.gamma, s.y)
  /\ PathsAgreeOn(s.mu, s.z)    /\ PathsAgreeOn(s.sigma, s.w)

=============================================================================
