SPECIFICATION ReportSpec
CONSTANTS
  RoleMaps <- MCRoleMaps
  ByteValues = 4
  PrefixBytes <- MCPrefixBytes
  StepBytes <- MCStepBytes
  MaxSteps = 6
  MaxAttempts = 26
INVARIANTS
  ReplayIsExact
  BestFails
  ReportHangsTogether
PROPERTIES
  Descends
