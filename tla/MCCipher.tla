------------------------------- MODULE MCCipher -------------------------------
(***************************************************************************)
(* Finite instances of CipherProperties for TLC.                           *)
(***************************************************************************)
EXTENDS CipherProperties, TLC

\* Objects and nonempty keys are interchangeable: every definition only
\* quantifies over them or compares a key with the empty one.
CipherSymmetry == Permutations(Ciphers) \cup Permutations(Keys \ {EmptyKey})

=============================================================================
