SPECIFICATION FairSpec
CONSTANTS
  HeapStart = 1
  HeapMaxSize = 12
  HeaderSize = 2
  SplitSlack = 1
  SizeMod = 16
  Sizes <- MCSizes
INVARIANTS TypeOK Tiling Coalesced Honoured Restored
PROPERTIES RefinesAllocator CallsReturn
