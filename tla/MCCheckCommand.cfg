SPECIFICATION Spec
CONSTANTS
  Definitions <- MCDefinitions
  Models <- MCModels
  Invocations <- MCInvocations
  Embedded <- MCEmbedded
  Spelling <- MCSpelling
  parseExpr <- ReadAgain
  FormatExpressionWithValues <- TextsWithValues
  Numbers <- MCNumbers
INVARIANTS
  FirstMatchWins
  LosersReported
  GivenAssumedOrUnknown
  NullIsTold
  ReportExact
  DrawingShowsReport
  ReadAsMeant
  VerdictStands
