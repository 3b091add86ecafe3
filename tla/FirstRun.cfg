SPECIFICATION FairSpec
CONSTANTS
  q1 = q1
  q2 = q2
  Request = {q1, q2}
  Poller = {q2}
  Kinds = {"activate", "run"}
  OneAtATime = FALSE
  AirflowFaults = TRUE
  HandlerFaults = TRUE
  MaxFaults = 1
  MaxAttempts = 2
INVARIANTS
  TypeOK
  SuccessIsReal
  OneRunAtATime
PROPERTIES
  ResultIsShown
