SPECIFICATION FairSpec
CONSTANTS
  q1 = q1
  q2 = q2
  Request = {q1, q2}
  Page = {q2}
  Kinds = {"validate", "run"}
  Verdicts = {"READY"}
  Retries = 1
  AirflowFaults = TRUE
  HandlerFaults = TRUE
  WorkerCrashes = TRUE
  MaxFaults = 1
INVARIANTS
  TypeOK
  PublishedAtMostOnce
  SuccessIsReal
  ClaimIsAnswered
PROPERTIES
  TriggeredNeverGoesBack
  ResultIsShown
