\* Three cells, five bytes: the ring is full, empty and wraps.
CONSTANTS
  Size = 3
  Chars = {"x", "y"}
  PopSizes = {1, 2}
  Overlap = FALSE
  Probes = 2
  MaxSent = 5
SPECIFICATION Spec
INVARIANTS
  TypeOK
  CopiesApart
PROPERTIES
  ImplementsFifo
  EveryByteArrives
