SPECIFICATION Spec
CONSTANTS
  Models <- OneDatabase
  MaxSimulations = 1
INVARIANT DownstreamUnified
