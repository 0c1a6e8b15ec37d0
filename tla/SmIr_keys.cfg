\* A ring of two frames; two presses.
CONSTANTS
  CbuffLength = 2
  HoldKeySkipTime = 2
  MaxPress = 2
SPECIFICATION Spec
INVARIANTS
  TypeOK
  StandbyListens
PROPERTIES
  RemoteWakes
  KeyReleased
