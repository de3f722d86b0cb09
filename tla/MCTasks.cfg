SPECIFICATION Spec
CONSTANTS
  Entries <- MCEntries
  MaxTasks = 4
  TickMod = 4
INVARIANTS TypeOK RingWhole
CHECK_DEADLOCK FALSE
