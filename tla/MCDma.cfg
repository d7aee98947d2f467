SPECIFICATION Spec
CONSTANTS
  Order <- GpuFirst
  RAM = 4
  ADDR = 8
  Bases = {0, 3}
  Blocks <- TwoBlocks
  Ctrls <- SafeCtrls
  Irqs <- SomeIrqs
  MaxStores = 5
  MaxEvents = 1
INVARIANT MasterFlagCurrent
INVARIANT WordsAccounted
INVARIANT TableIsChain
PROPERTY RunEnds
