SPECIFICATION Spec
CONSTANTS
  Profiles = {p1}
  Requests = {r1}
  Patches <- OnePatch
  Contents <- FullOnly
  Uploads <- SomeUploads
  JevReplies <- SomeReplies
  MaxRestarts = 0
  None = None
INVARIANTS
  PatchTakesEffect
CHECK_DEADLOCK FALSE
