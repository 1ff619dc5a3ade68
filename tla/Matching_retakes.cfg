\* One participant who retakes a wrong selfie while a photo with two faces is
\* processed twice, hidden and shown again; jobs are retried, uploads die.
CONSTANTS
  p1 = p1
  f1 = f1
  f2 = f2
  a1 = a1
  Photo = {p1}
  Face = {f1, f2}
  PhotoOf <- GroupPhoto
  Participant = {a1}
  Selfie = {1, 2}
  Owner <- OneOwner
  Usable = {1, 2}
  Score <- WrongThenRight
  Identity = {1, 2, 3}
  NoSelfie = NoSelfie
  NoPhoto = NoPhoto
  Attempts = 2
  MaxStalls = 1
  MaxRuns = 2
  MaxHides = 1
  MaxFaults = 0
  PostCanFail = TRUE
  MarkCanFail = TRUE
SPECIFICATION Spec
INVARIANTS
  TypeOK
  OneIdentityWhenReady
  GapsAreExplained
  LeftoversAreExplained
CHECK_DEADLOCK FALSE
