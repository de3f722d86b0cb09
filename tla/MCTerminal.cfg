SPECIFICATION Spec
CONSTANTS
  TERM_ROWS = 4
  TERM_COLS = 5
  MAX_INPUT_LEN = 3
  Chars = {"h", "c"}
  Help <- MCHelp
  Clear <- MCClear
  Ver <- MCVer
  About <- MCAbout
INVARIANTS TypeOK BlankBelow
PROPERTIES RefinesScrollback
