SPECIFICATION CardSpec
CONSTANTS
  SECTOR_SIZE = 3
  BYTE = 256
  Sectors = 2
  ByteXor <- XorByte
  OverflowChecks = FALSE
  Data = {0, 1}
  Hi = {0, 4}
  Lo = {0, 1}
  MaxWrites = 3
INVARIANT FlashIsWhole
