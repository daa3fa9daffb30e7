--------------------------- MODULE ReferenceVectors ---------------------------
(***************************************************************************)
(* The chaotic State on 32-bit words with the constants of constants.hpp,  *)
(* replayed from the seeds of the repository's reference vectors and       *)
(* compared with them (tests/vectors/*.json).                              *)
(***************************************************************************)
EXTENDS ChaoticState, Constants32

Raw(a, b, c, d, e, f, g, h) ==
  [x |-> a, y |-> b, z |-> c, w |-> d,
   alpha |-> e, gamma |-> f, mu |-> g, sigma |-> h]

\* state_evolution.json "initial_seed" (SE-001 is also the seed of PD-001 and
\* EX-001) and init_vectors.json "pre_warmup", parameters already clamped once.
SE001 ==
  Raw(Hex(\h1234, \h5678), Hex(\h9ABC, \hDEF0),
      Hex(\h1357, \h2468), Hex(\hACEB, \hDFAC),
      Hex(\hF000, \h0000), Hex(\hF100, \h0000),
      Hex(\hF200, \h0000), Hex(\hF300, \h0000))
SE002 ==
  Raw(Hex(\hDEAD, \hBEEF), Hex(\h1337, \h1337),
      Hex(\hCAFE, \hBABE), Hex(\hBAAD, \hF00D),
      Hex(\hF500, \h0000), Hex(\hF600, \h0000),
      Hex(\hF700, \h0000), Hex(\hF800, \h0000))
SE003 ==
  Raw(Hex(\hABCD, \hEF01), Hex(\h2345, \h6789),
      Hex(\hBCDE, \h0123), Hex(\h4567, \h89AB),
      Hex(\hE010, \h0000), Hex(\hE020, \h0000),
      Hex(\hE030, \h0000), Hex(\hE040, \h0000))
KS001 ==
  Raw(Hex(\hA358, \hFFDD), Hex(\h3FA8, \h9AE7),
      Hex(\h1109, \hCE62), Hex(\h9D8F, \hECF9),
      Hex(\hEED1, \h9695), Hex(\hF465, \hEA76),
      Hex(\hEB1A, \h08B3), Hex(\hE043, \hDDDC))
KS002 ==
  Raw(Hex(\h0CA1, \h3B33), Hex(\h7369, \hDDA7),
      Hex(\h2875, \h78DF), Hex(\h1EC3, \h5D5E),
      Hex(\hF377, \hAFAB), Hex(\hFC8C, \h3701),
      Hex(\hF5D2, \h6BC0), Hex(\hFD9F, \hC0BA))

Seeds == {SE001, SE002, SE003, KS001, KS002}

\* The variables and parameters a vector file records after so many steps.
At32(seed, steps, raw) == [seed |-> seed, steps |-> steps, raw |-> raw]

\* state_evolution.json, and init_vectors.json "post_warmup".
Trajectories == {
  At32(SE001, 0,
    Raw(Hex(\h1234, \h5678), Hex(\h9ABC, \hDEF0),
        Hex(\h1357, \h2468), Hex(\hACEB, \hDFAC),
        Hex(\hF070, \h0000), Hex(\hF170, \h0000),
        Hex(\hF270, \h0000), Hex(\hF370, \h0000))),
  At32(SE001, 1,
    Raw(Hex(\hCB9D, \h88BC), Hex(\hDAAF, \hFF85),
        Hex(\h22E0, \h0345), Hex(\h4B54, \h6608),
        Hex(\hF070, \h0000), Hex(\hF170, \h0000),
        Hex(\hF270, \h0000), Hex(\hF370, \h0000))),
  At32(SE001, 2,
    Raw(Hex(\hD377, \h325B), Hex(\hB0B4, \hE06C),
        Hex(\h3C2D, \h0BFE), Hex(\h5D68, \hE63C),
        Hex(\hF070, \h0000), Hex(\hF170, \h0000),
        Hex(\hF270, \h0000), Hex(\hF370, \h0000))),
  At32(SE001, 10,
    Raw(Hex(\hB5B7, \h4976), Hex(\h3DC5, \h5E7A),
        Hex(\h2647, \hCEE1), Hex(\h594D, \hAF34),
        Hex(\hF070, \h0000), Hex(\hF170, \h0000),
        Hex(\hF270, \h0000), Hex(\hF370, \h0000))),
  At32(SE002, 63,
    Raw(Hex(\hE1D5, \hEBAE), Hex(\hB0CD, \h4C25),
        Hex(\hE1E7, \h7B0E), Hex(\hEBBE, \hC54F),
        Hex(\hF570, \h0000), Hex(\hF670, \h0000),
        Hex(\hF770, \h0000), Hex(\hF870, \h0000))),
  At32(SE002, 64,
    Raw(Hex(\hF823, \hDB4D), Hex(\h9D83, \h5D90),
        Hex(\h6725, \h8583), Hex(\hF29B, \h4F4C),
        Hex(\hEF88, \hCE52), Hex(\hFF2E, \h52DA),
        Hex(\hF932, \hDA08), Hex(\hEAFA, \h08CE))),
  At32(SE002, 65,
    Raw(Hex(\h25DD, \hF0BE), Hex(\h71AA, \hD2E1),
        Hex(\h3844, \h6C31), Hex(\h0C25, \hC404),
        Hex(\hEF88, \hCE52), Hex(\hFF2E, \h52DA),
        Hex(\hF932, \hDA08), Hex(\hEAFA, \h08CE))),
  At32(SE002, 70,
    Raw(Hex(\hA4A2, \h7633), Hex(\h417F, \hF96F),
        Hex(\h03F5, \hEB4C), Hex(\h5846, \h2C1D),
        Hex(\hEF88, \hCE52), Hex(\hFF2E, \h52DA),
        Hex(\hF932, \hDA08), Hex(\hEAFA, \h08CE))),
  At32(SE003, 127,
    Raw(Hex(\h7089, \hDAE6), Hex(\h55A4, \h1946),
        Hex(\h0927, \hEF85), Hex(\h0801, \h9AD2),
        Hex(\hFFAB, \h5ABD), Hex(\hEC2A, \hBDFF),
        Hex(\hFA6D, \hFF2B), Hex(\hFD6F, \h2B5A))),
  At32(SE003, 128,
    Raw(Hex(\h1571, \hB494), Hex(\h7964, \h0CF4),
        Hex(\h9E98, \h4A69), Hex(\hF581, \hF700),
        Hex(\hE066, \hED04), Hex(\hF1ED, \h04DF),
        Hex(\hEDF4, \hDF76), Hex(\hE46F, \h76ED))),
  At32(SE003, 129,
    Raw(Hex(\h4BE6, \h8281), Hex(\hAF1E, \h687D),
        Hex(\hAA5B, \h061C), Hex(\h087A, \h601E),
        Hex(\hE066, \hED04), Hex(\hF1ED, \h04DF),
        Hex(\hEDF4, \hDF76), Hex(\hE46F, \h76ED))),
  At32(SE003, 135,
    Raw(Hex(\h73B3, \h60EF), Hex(\h4333, \hD2BE),
        Hex(\h39F2, \hA760), Hex(\hFFB8, \hB03B),
        Hex(\hE066, \hED04), Hex(\hF1ED, \h04DF),
        Hex(\hEDF4, \hDF76), Hex(\hE46F, \h76ED))),
  At32(KS001, 256,
    Raw(Hex(\hB111, \h979E), Hex(\hB859, \h40CD),
        Hex(\h9A56, \hC7DB), Hex(\h378D, \h7AC4),
        Hex(\hEFDC, \hF6C6), Hex(\hEA15, \hB9F6),
        Hex(\hEA09, \h886E), Hex(\hEE23, \h00BC))),
  At32(KS002, 256,
    Raw(Hex(\h5081, \h043D), Hex(\hD798, \h1D0C),
        Hex(\h8CD2, \hDD94), Hex(\h504C, \hD394),
        Hex(\hFBBB, \h277B), Hex(\hF184, \hE761),
        Hex(\hFF92, \h0BAC), Hex(\hF00F, \hAC32)))}

\* param_drift_vectors.json: the four parameters after each drift.
Drifts == {
  [steps |-> 64,
   params |-> <<Hex(\hEA9C, \hDD17), Hex(\hFE1D, \h17BA),
               Hex(\hEF77, \hBA0C), Hex(\hE53A, \h0CDD)>>],
  [steps |-> 128,
   params |-> <<Hex(\hED00, \h342A), Hex(\hE324, \h2A5D),
               Hex(\hE64A, \h5D90), Hex(\hF93D, \h9034)>>],
  [steps |-> 192,
   params |-> <<Hex(\hF3BF, \h1E7D), Hex(\hEC2E, \h7D83),
               Hex(\hEC7D, \h833F), Hex(\hEF33, \h3F1E)>>]}

\* state_evolution.json and extraction_vectors.json "extract".
Words == {
  [seed |-> SE001, steps |-> 0,
   word |-> <<Hex(\hFB7B, \hE05C), Hex(\h11D0, \hACA8)>>],
  [seed |-> SE001, steps |-> 1,
   word |-> <<Hex(\h11F8, \h56AE), Hex(\hAEB8, \hAE10)>>],
  [seed |-> SE001, steps |-> 2,
   word |-> <<Hex(\hEFC8, \h8EED), Hex(\h3C46, \h15DF)>>],
  [seed |-> SE001, steps |-> 10,
   word |-> <<Hex(\h8585, \h2592), Hex(\hDE65, \hB819)>>],
  [seed |-> SE002, steps |-> 63,
   word |-> <<Hex(\h8F98, \hD671), Hex(\h7722, \hF0A1)>>],
  [seed |-> SE002, steps |-> 64,
   word |-> <<Hex(\h02D9, \hFD53), Hex(\h4B53, \h54FF)>>],
  [seed |-> SE002, steps |-> 65,
   word |-> <<Hex(\h8CC3, \h2D45), Hex(\h8D6E, \hB338)>>],
  [seed |-> SE002, steps |-> 70,
   word |-> <<Hex(\h51F7, \h2000), Hex(\hEFF5, \h812E)>>],
  [seed |-> SE003, steps |-> 127,
   word |-> <<Hex(\h60F7, \h9FCF), Hex(\h8743, \hC491)>>],
  [seed |-> SE003, steps |-> 128,
   word |-> <<Hex(\hB8FD, \h8799), Hex(\hDA72, \h1685)>>],
  [seed |-> SE003, steps |-> 129,
   word |-> <<Hex(\h9E3C, \h2783), Hex(\h3519, \h837D)>>],
  [seed |-> SE003, steps |-> 135,
   word |-> <<Hex(\h7F18, \h4B7C), Hex(\h2203, \hF14A)>>],
  [seed |-> SE001, steps |-> 50,
   word |-> <<Hex(\hBC2D, \h4F3C), Hex(\hF73F, \h2BD6)>>],
  [seed |-> SE001, steps |-> 100,
   word |-> <<Hex(\h0A44, \h2CBA), Hex(\hCCDF, \h5F57)>>]}

-----------------------------------------------------------------------------

SeededBy(seed) == base = make_state(seed)

Variables(st) == Raw(st.x, st.y, st.z, st.w, st.alpha, st.gamma, st.mu, st.sigma)

\* The State reaches every recorded point of every trajectory, bit for bit:
\* before and after drift boundaries, and after the 256 steps of the warm-up.
MatchesTrajectories ==
  \A t \in Trajectories :
    SeededBy(t.seed) /\ age = t.steps =>
      Variables(s) = t.raw /\ s.counter = Hex(0, age)

\* Drift gives the recorded parameters at steps 64, 128 and 192 of the
\* canonical seed, and they stay the same between two drifts.
MatchesDrifts ==
  \A d \in Drifts :
    SeededBy(SE001) /\ age \in d.steps .. d.steps + 63 =>
      <<s.alpha, s.gamma, s.mu, s.sigma>> = d.params

\* The keystream words recorded on the way come out of extract().
MatchesWords ==
  \A r \in Words :
    SeededBy(r.seed) /\ age = r.steps => extract(s) = r.word

=============================================================================
