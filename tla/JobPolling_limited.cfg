SPECIFICATION PagesSpec

CONSTANTS
  t1 = t1
  Tabs = {t1}
  MaxAttempts = 40
  Window = 10
  Delay = 0
  MaxRequests = 1
  RedisFails = FALSE

PROPERTY
  PollingLasts
