SPECIFICATION Spec

CONSTANTS
  j1 = j1
  w1 = w1
  r1 = r1
  s1 = s1
  s2 = s2
  NoJob = NoJob
  Jobs = {j1}
  Workers = {w1}
  Requests = {r1}
  Streams = {s1, s2}
  UseCelery = FALSE
  Faults <- AllFaults
  MaxRetries = 1
  MaxDeaths = 1
  MaxRestarts = 1

SYMMETRY Symmetry

INVARIANTS
  CompletedReplyHasDocuments

PROPERTIES
  FulfilsContract

CHECK_DEADLOCK FALSE
