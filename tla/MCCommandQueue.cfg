CONSTANTS
  Caller = {c1, c2}
  Owner = owner
  MaxPush = 2
SPECIFICATION Spec
INVARIANTS NoLostWakeup
PROPERTIES ImplementsMailbox EveryCommandIsServed
CHECK_DEADLOCK FALSE
