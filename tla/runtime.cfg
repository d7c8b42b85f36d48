CONSTANTS
  StackSize = 4
  WordSize = 4
  Width = 8
  ByteBits = 4
  Chars = {1, 2}
  Space = 2
  RingSize = 3
  MaxTyped = 4
  Programs <- MCPrograms
SPECIFICATION Spec
INVARIANTS LinesKeepOrder ShowsCurrentRegisters
PROPERTIES ImplementsMachine OutputDrains ErrorsAreShown
CHECK_DEADLOCK FALSE
