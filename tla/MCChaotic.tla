------------------------------- MODULE MCChaotic -------------------------------
(***************************************************************************)
(* The chaotic State on 10-bit words: each constant of constants.hpp keeps *)
(* its ten most significant bits, the drift interval keeps its length, and *)
(* the counter wraps after 1024 steps.                                     *)
(***************************************************************************)
EXTENDS ChaoticBuilds

MCSize == 1024

StateOf(a, b, c, d, params, n) ==
  [x |-> a, y |-> b, z |-> c, w |-> d,
   alpha |-> params[1], gamma |-> params[2],
   mu |-> params[3], sigma |-> params[4], counter |-> n]

RawOf(a, b, c, d, params) ==
  [x |-> a, y |-> b, z |-> c, w |-> d,
   alpha |-> params[1], gamma |-> params[2],
   mu |-> params[3], sigma |-> params[4]]

\* The absorbing values in every variable, and parameters on either side of
\* both ends of the regime.
MCRaws ==
  {RawOf(0, 1023, 0, 1023, <<0, 126, 127, 1023>>),
   RawOf(1023, 0, 512, 511, <<896, 1022, 1023, 895>>),
   RawOf(72, 618, 77, 691, <<960, 964, 968, 972>>),
   RawOf(888, 76, 810, 746, <<1, 2, 3, 4>>)}

\* Any State may be imported: all zeros (a wiped object), all ones, parameters
\* outside the regime, counters just before a drift or before wrapping.
MCImports ==
  {StateOf(0, 0, 0, 0, <<0, 0, 0, 0>>, 0),
   StateOf(1023, 1023, 1023, 1023, <<1023, 1023, 1023, 1023>>, 1023),
   StateOf(0, 1023, 5, 0, <<0, 895, 1023, 1>>, 63),
   StateOf(17, 0, 1023, 600, <<10, 20, 30, 40>>, 1),
   StateOf(17, 4, 900, 600, <<900, 20, 1000, 40>>, 1000)}

=============================================================================
