CONSTANTS
  small = small
  large = large
  single = single
  double = double
  Dim <- MCDim
  Scale <- MCScale
  FirstSize <- MCFirst
  MaxAsk = 2
  MaxChange = 1
SPECIFICATION Spec
INVARIANTS DesktopIsFollowed
PROPERTIES SoundOutlivesResize RetryBuysNoSecondReconnect DragCostsOneReconnect QuietLoopStillReconnects
CHECK_DEADLOCK FALSE
