\* Two objects, one key, ten-bit words, real messages.
SPECIFICATION Spec
CONSTANTS
  W = 10
  Radix = 1024
  Word <- NatWord
  Add <- NatAdd
  Mod <- NatMod
  Xor <- NatXor
  Not <- NatNot
  ShiftLeft <- NatShiftLeft
  ShiftRight <- NatShiftRight
  Rol <- NatRol
  MulHigh <- WideMulHigh
  TopBit <- NatTopBit
  Zero = 0
  One = 1
  AllOnes = 1023
  PARAM_FLOOR = 896
  DRIFT_MASK = 127
  DRIFT_INTERVAL = 64
  PHI_FRAC = 632
  EPSILON_CONST = 144
  SENTINEL_ZERO = 890
  SENTINEL_ONES = 76
  Ciphers = {c1, c2}
  Keys = {"k1", "empty"}
  Nonces = {"n1"}
  Infos = {"empty"}
  EmptyKey = "empty"
  EmptyNonce = "empty"
  EmptyInfo = "empty"
  DefaultInfo = "EAHCM-v1"
  ZeroedKey = "zeroed"
  ZeroSeed = ZeroSeed
  GenerateSizes = {3, 8}
  MaxWords = 2
  derive_state <- MCDerived
  ToBytes <- NatStore
  FromBytes <- NatLoad
  crc32 <- MCCrc32
  Damages <- MCDamages
CONSTRAINT MCExplored
VIEW MCView
SYMMETRY MCSymmetry
INVARIANTS
  DataInPlace
  ServesExtractedBytes
  MessageHoldsExport
