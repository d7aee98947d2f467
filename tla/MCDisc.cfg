SPECIFICATION DiscSpec
CONSTANTS
  Sheets <- MCSheets
  Seeks <- MCSeeks
  MaxReads = 3
CHECK_DEADLOCK FALSE
INVARIANT ReadsTheDisc
INVARIANT SectorIsInIndex
INVARIANT TocIsTheSheet
