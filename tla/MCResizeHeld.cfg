CONSTANTS
  small = small
  large = large
  single = single
  double = double
  Dim <- MCDim
  Scale <- MCScale
  FirstSize <- MCFirst
  MaxAsk = 2
  MaxChange = 1
SPECIFICATION Spec
INVARIANT NewestHeldIsSent
CHECK_DEADLOCK FALSE
