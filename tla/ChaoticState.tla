----------------------------- MODULE ChaoticState -----------------------------
(***************************************************************************)
(* A chaotic State that is loaded by a seeding or by an import and then    *)
(* stepped; base and age are history variables that no code writes.        *)
(***************************************************************************)
EXTENDS ChaoticCore

CONSTANTS Raws,     \* the raw seeds a key schedule may deliver
          Imports,  \* the States an import may install: any at all
          MaxAge    \* bound: steps taken from one loaded State

VARIABLES s,     \* the State
          base,  \* the State last loaded
          age    \* steps taken since

vars == <<s, base, age>>

-----------------------------------------------------------------------------

Load(st) == s' = st /\ base' = st /\ age' = 0

Init == \E raw \in Raws : s = make_state(raw) /\ base = s /\ age = 0

\* derive_state() and the raw interface of the tests.
Seed == \E raw \in Raws : Load(make_state(raw))

\* import_state() checks the format of a State and none of its values.
Import == \E st \in Imports : Load(st)

Step ==
  /\ age < MaxAge
  /\ s' = step(s)
  /\ age' = age + 1
  /\ UNCHANGED base

Next == Seed \/ Import \/ Step

Spec == Init /\ [][Next]_vars

=============================================================================
