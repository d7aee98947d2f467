SPECIFICATION Spec
CONSTANTS
  FIFO = 16
  LAST = 2
  Drivers <- TwoDrivers
  Unloads = TRUE
  MaxEvents = 2
INVARIANT DriveGoesOn
PROPERTIES NoMissedIrq CommandIsExecuted ReadDelivers
