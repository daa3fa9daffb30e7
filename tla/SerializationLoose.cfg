\* A text that has lost one token.
SPECIFICATION Spec
CONSTANTS
  Byte <- Octet
  crc32 <- MCCrc32
  VERSION <- MCVersion
  Exports <- MCExports
  Overwrites <- MCOverwrites
  Numbers <- MCNumbers
  Notes <- MCNotes
  MaxEdits = 1
INVARIANT
  MalformedRefused
