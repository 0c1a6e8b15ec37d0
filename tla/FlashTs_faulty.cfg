\* Two blocks, any number of driver calls fail, pages may be unreadable while
\* scanning: what still holds, and that every set returns.
CONSTANTS
  NB = 2
  CPB = 2
  Keys = {"a", "b"}
  Values = {"short"}
  NoValue = "none"
  EntryLen <- MCEntryLen
  DataSize = 3
  MaxVersion = 2
  MaxFaults = 5
  ScanFaults = TRUE
SPECIFICATION Spec
PROPERTIES
  OnlyAckChangesView
  SetReturns
