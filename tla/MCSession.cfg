CONSTANTS
  Caller = {c1}
  Owner = owner
  MaxPush = 2
SPECIFICATION Spec
INVARIANTS AbortSignalsLiveContext AbortLostOnlyInWindow
PROPERTIES DropReturns DropIsPrompt EndedClosesChannel
CHECK_DEADLOCK FALSE
