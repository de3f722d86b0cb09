SPECIFICATION MovingSpec
CONSTANTS
  ScreenW = 5
  ScreenH = 4
  StartX = 2
  StartY = 2
  Packets <- MCPackets
  Scancodes <- OneKey
  LateAcks <- Ack
INVARIANT MouseTypeOK
PROPERTIES StaysInStep Resyncs Decodes PressSeen
