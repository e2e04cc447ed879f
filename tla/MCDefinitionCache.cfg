SPECIFICATION Spec
CONSTANTS
  Procs = {"cli", "reader"}
  Runs <- WriterAndReader
  Paths <- BothOrders
  DirOf <- TwoFiles
  Contents <- MCContents
  MaxEdits = 2
  EditsDuringBuild = FALSE
  Damage = TRUE
INVARIANTS
  WritesAtomically
  CurrentIsUpToDate
  FreshIsCurrent
  CurrentServes
PROPERTIES
  RefreshRepairs
