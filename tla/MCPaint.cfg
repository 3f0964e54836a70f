CONSTANTS
  MaxSize = 2
  MaxWork = 2
  Window = 1
SPECIFICATION Spec
INVARIANTS ViewerIsCurrent FrameIsWhole DamageIsShown
PROPERTIES Converges
CHECK_DEADLOCK FALSE
