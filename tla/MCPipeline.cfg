CONSTANTS
  ByteBits = 3
  RamSize = 32
  ScratchSize = 8
  Regs <- MCRegs
  RA = 5
  T0 = 1
  GP = 2
  SP = 3
  FP = 4
  NoStack = NoStack
  Vector = 2056
  LineWords = 2
  Lines = 2
  Repertoire <- MCRepertoire
  FirstRegs <- MCFirstRegs
  MaxSteps = 3
  CodeRepertoire <- MCCodeRepertoire
  MaxCodeSteps = 10
  CodeRegs <- MCCodeRegs
  Sources <- MCSources
  FirstMem <- MCFirstMem
SPECIFICATION Spec
CHECK_DEADLOCK FALSE
INVARIANT LoadDelay
INVARIANT UnalignedWord
INVARIANT FetchIsCurrent
INVARIANT AssembledAsWritten
PROPERTY FaultKeepsState
