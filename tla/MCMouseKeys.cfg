SPECIFICATION MouseSpec
CONSTANTS
  ScreenW = 5
  ScreenH = 4
  StartX = 2
  StartY = 2
  Packets <- MCPackets
  Scancodes <- OneKey
  LateAcks <- NoAck
PROPERTIES OnlyMouseBytes
