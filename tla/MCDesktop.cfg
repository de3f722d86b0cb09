SPECIFICATION FairSpec
CONSTANTS
  ScreenW = 6
  ScreenH = 6
  StartX = 3
  StartY = 2
  Packets <- MCPackets
  Scancodes <- NoBytes
  LateAcks <- NoBytes
  DesktopH = 5
  WinX = 2
  WinY = 1
  WinW = 3
  WinH = 2
  CloseBtn <- MCCloseBtn
  TitleBar <- MCTitleBar
  StartBtn <- MCStartBtn
  MenuArea <- MCMenuArea
  ItemRows <- MCItemRows
INVARIANTS TypeOK WindowOnDesktop DragHeld DragTracks ScreenFresh
PROPERTIES OneActionPerPress ReleaseDrops
CHECK_DEADLOCK FALSE
