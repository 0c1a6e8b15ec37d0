\* Three blocks of two chunks, one failing driver call per commit, power cuts
\* anywhere: the store is transactional.
CONSTANTS
  NB = 3
  CPB = 2
  Keys = {"a"}
  Values = {"short", "long"}
  NoValue = "none"
  EntryLen <- MCEntryLen
  DataSize = 5
  MaxVersion = 5
  MaxFaults = 1
  ScanFaults = FALSE
SPECIFICATION Spec
INVARIANTS
  TypeOK
  AckedIsDurable
  CommitIsAtomic
  OldRecordSafe
  VersionNamesData
PROPERTIES
  ImplementsTransStore
