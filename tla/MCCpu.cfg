SPECIFICATION Spec
CONSTANTS
  Irq = {"vblank", "timer"}
  Code <- MCCode
  Vector = 8
  MaxTime = 1
  MaxDue = 1
INVARIANT NoMissedInterrupt
INVARIANT TimeoutOwnedByRun
INVARIANT PreciseResume
PROPERTY RunReturns
