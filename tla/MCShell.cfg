SPECIFICATION Spec
CONSTANTS
  VGA_WIDTH = 9
  VGA_HEIGHT = 3
  TabStop = 4
  Margin = 2
  HISTORY_MAX = 2
  CMD_SIZE = 3
  ARG_SIZE = 4
  FILENAME_SIZE = 2
  CONTENT_SIZE = 2
  Chars <- MCChars
  Word <- MCWord
  Lines <- MCLines
  Replies <- MCReplies
  Blocks = {16}
INVARIANTS TypeOK LineShown
PROPERTIES RefinesPage RefinesCommandLog CallsAsTyped
CHECK_DEADLOCK FALSE
