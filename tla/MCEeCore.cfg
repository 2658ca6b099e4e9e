CONSTANTS
  Addresses = 6
  PageLen = 2
  UserPages = 2
  Size = 1
  Targets = {1}
  Vectors <- MCVectors
  LoPairs <- MCLoPairs
  Vpn2s = {0}
  Asids = {0, 1}
  Indices = {13}
  Modes = {"Kernel", "User"}
  MaxWrites = 1
  Programs <- MCPrograms
  FirstLo <- MCFirstLo
SPECIFICATION Spec
INVARIANTS CoreInv TranslationsKnown
PROPERTIES NextIsHandler IrqTaken
CHECK_DEADLOCK FALSE
