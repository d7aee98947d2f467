CONSTANTS
  Voices = {1}
  AddrSpace = 32
  CaptureBuf = 16
  Sample = Sample
  Images <- MCImages
  Words <- MCWords
  AdsrRegs <- MCAdsrRegs
  Rates = {4096, 65535}
  Starts = {0, 8}
  Controls <- MCControls
  MaxCycles = 12
  MaxStores = 3
SPECIFICATION Spec
CHECK_DEADLOCK FALSE
INVARIANT FifoExact
INVARIANT PlayingIffKeyed
PROPERTY DisabledIsSilent
