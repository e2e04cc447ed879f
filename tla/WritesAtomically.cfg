SPECIFICATION Spec
CONSTANTS
  Procs = {"one", "two"}
  Runs <- TwoWriters
  Paths <- Shared
  DirOf <- OneFile
  Contents <- MCContents
  MaxEdits = 1
  EditsDuringBuild = FALSE
  Damage = FALSE
INVARIANT WritesAtomically
