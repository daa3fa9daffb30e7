\* 32-bit words, 256 steps from each seed of the reference vectors.
SPECIFICATION Spec
CONSTANTS
  Word <- Word32
  Add <- ByteAdd
  Mod <- ByteMod
  Xor <- ByteXor
  Not <- ByteNot
  ShiftLeft <- ByteShiftLeft
  ShiftRight <- ByteShiftRight
  Rol <- ByteRol
  MulHigh <- ByteMulHigh
  TopBit <- ByteTopBit
  Zero <- WordZero
  One <- WordOne
  AllOnes <- WordOnes
  PARAM_FLOOR <- ParamFloor
  DRIFT_MASK <- DriftMask
  DRIFT_INTERVAL <- DriftEvery
  PHI_FRAC <- PhiFrac
  EPSILON_CONST <- EpsilonConst
  SENTINEL_ZERO <- SentinelZero
  SENTINEL_ONES <- SentinelOnes
  Raws <- Seeds
  Imports = {}
  MaxAge = 256
INVARIANTS
  MatchesTrajectories
  MatchesDrifts
  MatchesWords
