\* Both formats, up to two edits of one message.
SPECIFICATION Spec
CONSTANTS
  Byte <- Octet
  crc32 <- MCCrc32
  VERSION <- MCVersion
  Exports <- MCExports
  Overwrites <- MCOverwrites
  Numbers <- MCNumbers
  Notes <- MCNotes
  MaxEdits = 2
INVARIANTS
  TypeOK
  IntactAccepted
  NothingForged
  OneEditHarmless
  Canonical
  RewritingTolerated
