CONSTANTS
  PendingMax = 3
  MaxOffer = 8
  MaxRequest = 4
SPECIFICATION Spec
INVARIANTS Decodable NoIdleCredit Metered EmbedderIsTold HostSeesPlug
CHECK_DEADLOCK FALSE
