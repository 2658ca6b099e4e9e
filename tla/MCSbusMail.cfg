CONSTANTS
  Registers = {"MSCOM", "MSFLG", "SMFLG", "F240"}
  Values <- Flags
  MaxJobs = 3
  Nobody = Nobody
SPECIFICATION Spec
INVARIANTS SbusInv
PROPERTIES MailboxesKept
CHECK_DEADLOCK FALSE
