SPECIFICATION FairPages

CONSTANTS
  t1 = t1
  t2 = t2
  Tabs = {t1, t2}
  MaxAttempts = 2
  Window = 4
  Delay = 1
  MaxRequests = 1
  RedisFails = TRUE

INVARIANTS
  PagesTypeOK
  WindowRespected

PROPERTY
  PagesEnd
