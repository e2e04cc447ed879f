SPECIFICATION Spec
CONSTANTS
  RoleMaps <- MCRoleMaps
  ByteValues = 6
  MaxSteps = 8
INVARIANTS
  UsedIsServed
  FailureLength
PROPERTY
  ImplementsCounter
