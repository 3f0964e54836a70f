CONSTANTS
  Id = {1, 2, 3}
  Slots = 2
  MaxDown = 4
SPECIFICATION TouchSpec
INVARIANTS HostHoldsFingers HeldCoversContacts
PROPERTIES SuspendLiftsAll
