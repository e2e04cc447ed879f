SPECIFICATION Spec
CONSTANTS
  LnFail <- DefaultLnFail
  LnPass <- DefaultLnPass
  LnA <- DefaultLnA
  LnB <- DefaultLnB
  MaxSimulations = 10000
  Invariants = {"Conservation", "PoolBounded"}
INVARIANTS
  EvidenceExact
  StopsAtFirstCrossing
  PassMeansAccepted
  FailHasWitness
