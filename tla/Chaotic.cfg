\* 10-bit words, past the point where the counter wraps.
SPECIFICATION Spec
CONSTANTS
  W = 10
  Radix <- MCSize
  Size <- MCSize
  Word <- NatWord
  Val <- NatVal
  Add <- NatAdd
  Mod <- NatMod
  Xor <- NatXor
  Not <- NatNot
  ShiftLeft <- NatShiftLeft
  ShiftRight <- NatShiftRight
  Rol <- NatRol
  MulHigh <- WideMulHigh
  TopBit <- NatTopBit
  Zero = 0
  One = 1
  AllOnes = 1023
  PARAM_FLOOR = 896
  DRIFT_MASK = 127
  DRIFT_INTERVAL = 64
  PHI_FRAC = 632
  EPSILON_CONST = 144
  SENTINEL_ZERO = 890
  SENTINEL_ONES = 76
  Raws <- MCRaws
  Imports <- MCImports
  MaxAge = 1100
INVARIANTS
  TypeOK
  RegimeWithinOneInterval
  NoEarlyCycle
  PathsAgree
PROPERTY
  DriftsOnSchedule
