SPECIFICATION Spec
CONSTANTS
  Ids = {"tmr1", "tmr2"}
  MAX = 3
  DIV = 2
  REARM = 2
  LINE = 3
  Modes = {{"on_overflow"}, {"on_target", "reset", "repeat"}, {"toggle"}, {"alt"}, {"sync"}}
  Values = {1, 2}
  MaxCycles = 1
  MaxStores = 3
INVARIANT MasterFlagReturns
INVARIANT UpdateInTime
PROPERTY TargetInterrupts
