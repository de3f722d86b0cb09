SPECIFICATION Spec
CONSTANTS
  Entries <- MCEntries
  MaxTasks = 4
  TickMod = 4
INVARIANTS EntryReached
CHECK_DEADLOCK FALSE
