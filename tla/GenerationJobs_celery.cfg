SPECIFICATION FairSpec

CONSTANTS
  j1 = j1
  w1 = w1
  w2 = w2
  r1 = r1
  NoJob = NoJob
  Jobs = {j1}
  Workers = {w1, w2}
  Requests = {r1}
  Streams = {}
  UseCelery = TRUE
  Faults <- AllFaults
  MaxRetries = 1
  MaxDeaths = 1
  MaxRestarts = 1

INVARIANTS
  TypeOK
  NoPendingJobLost
  CompletedIsBacked
  DuplicatesBounded

PROPERTIES
  DocumentsStay
  EveryJobSettles

CHECK_DEADLOCK FALSE
