CONSTANTS
  MaxAdvertise = 3
  MaxPaste = 3
  MaxAsk = 1
  MaxOpen = 3
SPECIFICATION Spec
INVARIANTS LastOfferStands AnswerFindsItsRequest
PROPERTIES PasteEnds
CHECK_DEADLOCK FALSE
