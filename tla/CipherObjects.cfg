\* Two objects and two keys: every operation, and exports carried across.
SPECIFICATION Spec
CONSTANTS
  Ciphers = {c1, c2}
  Keys = {k1, k2, "empty"}
  Nonces = {"empty"}
  Infos = {"empty"}
  EmptyKey = "empty"
  EmptyNonce = "empty"
  EmptyInfo = "empty"
  DefaultInfo = "EAHCM-v1"
  ZeroedKey = "zeroed"
  ZeroSeed = ZeroSeed
  GenerateSizes = {4, 8}
  MaxWords = 1
SYMMETRY CipherSymmetry
INVARIANTS
  TypeOK
  BufferInStep
  HomeMatchesMaterial
  ImportNeverRewinds
PROPERTIES
  NoHalfDoneCall
  ImplementsKeystream
