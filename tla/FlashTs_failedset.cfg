\* Every driver call may fail: a failed set leaves its record on flash, and a set
\* that changes nothing in the cache is then acknowledged.

CONSTANTS
  NB = 2
  CPB = 2
  Keys = {"a"}
  Values = {"short", "long"}
  NoValue = "none"
  EntryLen <- MCEntryLen
  DataSize = 5
  MaxVersion = 3
  MaxFaults = 5
  ScanFaults = FALSE
SPECIFICATION Spec
INVARIANT AckedIsDurable
