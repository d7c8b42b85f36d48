CONSTANTS
  AsmChars <- MCAsmChars
  BasicChars <- MCBasicChars
  MaxToken = 32
  Sources <- MCSources
SPECIFICATION Spec
INVARIANT WordsAsWritten
INVARIANT DisassemblesAsWritten
CHECK_DEADLOCK FALSE
