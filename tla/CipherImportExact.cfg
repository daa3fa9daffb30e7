\* The exporter's leftover bytes are missing from the export.
SPECIFICATION Spec
CONSTANTS
  Ciphers = {c1}
  Keys = {"k1", "empty"}
  Nonces = {"n1"}
  Infos = {"empty", "i1"}
  EmptyKey = "empty"
  EmptyNonce = "empty"
  EmptyInfo = "empty"
  DefaultInfo = "EAHCM-v1"
  ZeroedKey = "zeroed"
  ZeroSeed = ZeroSeed
  GenerateSizes = {0, 3, 8, 13}
  MaxWords = 3
INVARIANT
  ImportResumesExactly
