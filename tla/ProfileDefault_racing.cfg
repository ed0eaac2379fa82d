SPECIFICATION FairSpec

CONSTANTS
  p1 = p1
  p2 = p2
  p3 = p3
  h1 = h1
  h2 = h2
  None = None
  Profiles = {p1, p2, p3}
  Handlers = {h1, h2}

INVARIANTS
  TypeOK
  DefaultsBounded

PROPERTIES
  RequestsEnd

CHECK_DEADLOCK FALSE
