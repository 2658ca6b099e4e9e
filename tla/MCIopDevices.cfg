SPECIFICATION SpecDevices
CONSTANTS
  Addresses = 4
  PageLen = 2
  UserPages = 1
  Size = 1
  Targets = {1}
  Vectors <- MCVectors
  Programs <- MCPrograms
  Nobody = Nobody
  Contents = {a, z}
  Zero = z
  BlockBytes = 2
  MaxBlocks = {3}
  MaxCommands = 6
  Ports = 2
  Lengths <- MCLengths
  OutCap = 4
  MaxTransfers = 2
  CoreId = 1
  Block = 2
  MemoryBlocks = 40
  Attrs <- MCAttrs
  Starts = {79}
  Watched = {79}
  Words = {1, 3}
  QueueCap = 2
  MaxSounds = 2
INVARIANTS IopCoreInv DriveAnswers PortsAnswer SoundArrives
PROPERTIES IrqTaken DevicesFinish
CHECK_DEADLOCK FALSE
