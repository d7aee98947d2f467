SPECIFICATION Spec
CONSTANTS
  SECTOR_SIZE = 2
  BYTE = 256
  Sectors = 1
  ByteXor <- XorByte
  OverflowChecks = FALSE
  Controls <- AllControls
  Bytes = {1, 66, 129, 82}
  Pressable = {14}
  Cards = {1}
  HotPlugs = TRUE
  Waits = "done"
  Deselects = TRUE
INVARIANTS OneEvent BytesInOrder OneDeviceTalks
PROPERTY ByteIsSent
