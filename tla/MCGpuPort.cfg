SPECIFICATION PortSpec
CONSTANTS
  SIZE = 5
  Len_ <- Lengths
  Args = {"nop", "mode", "rect", "poly", "copy"}
  MaxImage = 3
  MaxCmds = 6
  Guests = {"polls", "counts"}
  Resets = "between"
INVARIANT ExecutedAsSent
PROPERTY PortFreesUp
