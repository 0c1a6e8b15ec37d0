\* Two messages in flight, resets, no wake-up the SM does not know of.
CONSTANTS
  MaxQueue = 2
  Resets = TRUE
  Giga = FALSE
  Sources = {"IR", "BUTTON", "CEC"}
  SelfWake = FALSE
  Backlog = FALSE
SPECIFICATION Spec
INVARIANTS
  TypeOK
  NeverWedged
  StateTellsSoc
PROPERTIES
  PowerCutIsSafe
