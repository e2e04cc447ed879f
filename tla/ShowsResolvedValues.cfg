SPECIFICATION Spec
CONSTANTS
  Definitions <- MCDefinitions
  Models <- MCModels
  Invocations <- Clusters
  Embedded <- EmbeddedChain
  Spelling <- MCSpelling
  parseExpr <- ReadAgain
  FormatExpressionWithValues <- TextsWithValues
  Numbers <- MCNumbers
INVARIANT ShowsResolvedValues
