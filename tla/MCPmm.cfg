SPECIFICATION Spec
CONSTANTS
  PMM_BLOCK_SIZE = 4
  ByteBits = 2
  WordBytes = 2
  AddrMod = 128
  MemSizes <- MCMemSizes
  KernelEnds <- MCKernelEnds
  Maps <- MCMaps
INVARIANTS TypeOK HandsOutFree HandsOutRam
PROPERTIES KeepsBlocks
CHECK_DEADLOCK FALSE
