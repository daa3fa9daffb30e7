\* Two threads and two objects that both may use.
SPECIFICATION FairCallsSpec
CONSTANTS
  Threads = {t1, t2}
  Ciphers = {c1, c2}
  Keys = {"k1", "empty"}
  Nonces = {"n1"}
  Infos = {"empty"}
  EmptyKey = "empty"
  EmptyNonce = "empty"
  EmptyInfo = "empty"
  DefaultInfo = "EAHCM-v1"
  ZeroedKey = "zeroed"
  ZeroSeed = ZeroSeed
  GenerateSizes = {3, 13}
  MaxWords = 2
INVARIANTS
  WithinBounds
  ReadsOwnWord
PROPERTIES
  ServesKeystream
  ImplementsAtomicCalls
  ReturnNearer
  EveryCallReturns
