SPECIFICATION Spec
CONSTANTS
  Models <- MCModels
  MaxSimulations = 2
INVARIANTS
  TypeOK
  OrderIrrelevant
  Accounted
PROPERTY
  StartsIdle
