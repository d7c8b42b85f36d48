\* One line of two cells for RAM and one for flash: every other access evicts.
CONSTANTS
  IndexCount = 1
  LineSize = 2
  SramPages = 2
  FlashPages = 1
  BlockPages = 1
  RAM_BASE = 2
  FLASH_BASE = 4
  ERASED = ERASED
  Value = {ERASED, v}
SPECIFICATION Spec
INVARIANTS
  TypeOK
  Coherent
  AccessIsCovered
  RememberedLineIsCurrent
PROPERTIES
  ImplementsFlat
  EveryRequestEnds
