CONSTANTS
  Build = {b1, b2}
  Pid = {p1, p2}
  MaxTag = 2
  MaxFault = 2
SPECIFICATION Spec
INVARIANTS CacheIsWhole NeverBackwards
PROPERTIES Recovers
