SPECIFICATION Spec
CONSTANTS
  Null = Null
  Delivery <- MCDelivery
  Config <- MCConfig
  Kind <- MCKind
  SampleSize = 2
  MaxRuns = 3
  MaxAtWork = 2
  MaxFaults = 1
INVARIANTS
  TypeOK
  OneRowPerKey
  InsertsAreExplained
  PageMatchesCount
  PageNotOlderThanLabel
  HealthIsHonest
