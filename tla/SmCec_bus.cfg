\* Fifos of the code's size; two retries.
CONSTANTS
  FifoLen = 3
  MaxRetrans = 2
  Traffic = {"reply", "wake"}
SPECIFICATION Spec
INVARIANTS
  TypeOK
  OneOutcome
  NoneForgotten
  WakeupMsgFresh
PROPERTIES
  SendingEnds
  WakeHeard
