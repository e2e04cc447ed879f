SPECIFICATION Spec
CONSTANTS
  Procs = {"one", "two"}
  FileCount = 2
  MaxEdits = 1
INVARIANTS
  TornIsAbandoned
  AllThere
PROPERTIES
  ExistingKept
