SPECIFICATION Spec
CONSTANTS
  Event = {"ev"}
  NEVER = 99
  Intervals = {1, 2}
  MaxEvents = 3
  Horizon = 2
INVARIANT NextEventExact
INVARIANT NoRepeatedDelivery
PROPERTY ImplementsDeadlines
