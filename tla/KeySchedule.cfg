\* Two calls of any two clients, on words that only count; the bound on draws
\* ends the run.  Fairness: the calling thread keeps running.
SPECIFICATION FairSpec
CHECK_DEADLOCK FALSE
CONSTANTS
  W = 7
  Radix = 128
  Size = 128
  Word <- NatWord
  Val <- NatVal
  Add <- NatAdd
  Mod <- NatMod
  Xor <- SecondOf
  Not <- SameWord
  ShiftLeft <- ZeroBy
  ShiftRight <- ZeroBy
  Rol <- ZeroBy
  MulHigh <- FirstOfThree
  TopBit <- NotTop
  Zero = 0
  One = 1
  AllOnes = 127
  PARAM_FLOOR = 112
  DRIFT_MASK = 15
  DRIFT_INTERVAL = 64
  PHI_FRAC = 79
  EPSILON_CONST = 18
  SENTINEL_ZERO = 111
  SENTINEL_ONES = 9
  Symbols <- MCSymbols
  ZeroByte = "0"
  DEFAULT_INFO <- MCDefaultInfo
  StateSuffix = "-state-init"
  ParamSuffix = "-param-init"
  SEED_LEN = 16
  hash_len = 32
  HMAC_BLOCK = 36
  MAX_BLOCKS = 31
  BYTES = 32
  INT_MAX = 40
  WARMUP_STEPS = 256
  POST_HASH_STEPS = 64
  Digests <- MCAnyDigest
  Hashes <- MCOneHash
  Calls <- MCClients
  MaxDraws = 2
INVARIANT
  DerivationsApart
PROPERTY
  EveryCallReturns
