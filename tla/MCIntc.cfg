CONSTANTS
  Sources = {"VBlank", "Timer"}
  Devices <- MCDevices
  Raises <- MCRaises
  MaxRaises = 1
  MaxSections = 2
  Programs <- EitherProgram
  Nobody = Nobody
SPECIFICATION Spec
INVARIANTS IntcInv MisledTwice
PROPERTIES RaisedKept RaisesAcknowledged
