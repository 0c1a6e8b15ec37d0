\* Without resets every flow ends and no latched wake-up is lost.
CONSTANTS
  MaxQueue = 1
  Resets = FALSE
  Giga = TRUE
  Sources = {"IR"}
  SelfWake = FALSE
  Backlog = FALSE
SPECIFICATION Spec
PROPERTIES
  EveryFlowEnds
  LatchedWakeServed
