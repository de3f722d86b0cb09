SPECIFICATION Spec
CONSTANTS
  MAX_FILES = 3
  MAX_FILENAME_LEN = 3
  Names <- MCNames
  Texts <- MCTexts
  Defaults <- MCDefaults
  HeapLo = 1
  HeapHi = 10
  HeaderSize = 1
  Slack = 2
INVARIANTS TypeOK DataHeld NamesDistinct
PROPERTIES RefinesFileStore
