SPECIFICATION Spec
CONSTANTS
  RoleMaps <- MCRoleMaps
  ByteValues = 12
  MaxSteps = 8
INVARIANTS
  TypeOK
  UsedIsHeld
  PoolBoundedNeverReported
  TriggerExact
  ShortRunsCannotFail
  ArithmeticSound
PROPERTY
  ImplementsCounter
