\* An arena of five units; a pool that can run out.
CONSTANTS
  MaxPool = 4
  TotalSize = 10
  Unit = 2
  Requests = {0, 1, 4}
SPECIFICATION Spec
INVARIANTS
  TypeOK
  ListsSound
PROPERTIES
  ImplementsHeap
