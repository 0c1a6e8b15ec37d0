\* Three slots and seven messages: the ring wraps twice.
CONSTANTS
  Slots = 3
  Msgs = {"m1", "m2"}
  Cleared = "cleared"
  Half = 8
  MaxSent = 7
SPECIFICATION Spec
INVARIANTS
  TypeOK
  DeliveredInOrder
  SlotIsFree
PROPERTIES
  EveryMessageDispatched
