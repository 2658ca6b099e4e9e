SPECIFICATION SpecInstructions
CONSTANTS
  ByteBits = 2
  MemoryTop = 24
  WordBits = 7
  One = 8
  MinNormal = 2
  VfRegisters = 6
  ViRegisters = 6
  HalfBits = 3
  MemoryQuads = 4
  Programs <- MCPrograms
  Operands <- MCOperands
  UndefinedWords <- MCUndefinedWords
INVARIANTS ArithmeticLaws MovementLaws CoresAgree CoprocessorLaws
CHECK_DEADLOCK FALSE
