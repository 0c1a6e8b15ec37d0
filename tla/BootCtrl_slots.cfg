\* Boards with eMMC and with SPI flash: anything may go wrong, four times.
SPECIFICATION Spec
CONSTANTS
  Media = {FALSE, TRUE}
  ImageKinds = {"good", "bad", "headless"}
  Disturbances = {"load", "meta", "cut", "console", "update", "decay"}
  MaxBudget = 4
INVARIANTS
  TypeOK
PROPERTIES
  KernelMatchesRootfs
  RollbackAfterUpdate
  GoodSlotBoots
