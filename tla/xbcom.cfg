CONSTANTS
  Number <- MCNumber
  MaxLine = 24
  Suffixed <- MCSuffixed
  Entries <- MCEntries
  NewNames <- MCNewNames
  MaxEvents = 4
  StackValues = {0, 7}
  IMAGE_TAG = 88
  IMAGE_VERSION = 256
  StackSize = 64
  HandshakeBits = 4
  VersionBits = 2
  Version = 1
  BitTries = 2
  AckTries = 2
  DrainMax = 6
  Chunk = 2
  RingSize = 25
  Strays = {0, 255}
  MaxFaults = 2
  Tasks <- MCTasks
  serial_helper <- helper
  hub_loader <- loader
  flash_loader <- loader
  max_image_size = 12
SPECIFICATION Spec
INVARIANT ProgramIsForTheBoard
INVARIANT FindsThePropeller
INVARIANT ImageFileIsWhole
INVARIANT EditorKeepsBoards
PROPERTY ComesToAnEnd
