\* The SoC may be woken from WFI by a source the SM does not know of.
CONSTANTS
  MaxQueue = 1
  Resets = FALSE
  Giga = FALSE
  Sources = {"IR"}
  SelfWake = TRUE
  Backlog = FALSE
SPECIFICATION Spec
PROPERTIES
  SelfWakeNoticed
