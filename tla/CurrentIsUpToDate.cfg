SPECIFICATION Spec
CONSTANTS
  Procs = {"cli"}
  Runs <- RefreshAndStatus
  Paths <- Shared
  DirOf <- OneFile
  Contents <- MCContents
  MaxEdits = 2
  EditsDuringBuild = TRUE
  Damage = FALSE
INVARIANT CurrentIsUpToDate
