SPECIFICATION Spec
CONSTANTS
  Profiles = {p1, p2}
  Requests = {r1, r2, r3}
  Patches <- SomePatches
  Contents <- FullOnly
  Uploads <- SomeUploads
  JevReplies <- SomeReplies
  MaxRestarts = 1
  None = None
SYMMETRY Symmetry
INVARIANTS
  TypeOK
  StoredIsValid
  DeletedStaysDeleted
  JevOnlyAdds
  PromptShowsProfile
PROPERTIES
  LostOnlyToConcurrent
CHECK_DEADLOCK FALSE
