\* Expressions, declarations, PRINT and INPUT, compiled and run on both machines.
CONSTANTS
  Base <- Sections
  MaxData = 12
  Text <- Strings
  StackSize = 24
  WordSize = 4
  Width = 6
  ByteBits = 4
  Chars = {1, 2}
  Programs <- MCPrograms
SPECIFICATION Spec
INVARIANTS
  AcceptsGrammar
  DeclaresVariables
  StoresMeaning
CHECK_DEADLOCK FALSE
